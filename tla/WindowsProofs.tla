---------------------------- MODULE WindowsProofs ----------------------------
(***************************************************************************)
(* Proofs about the Windows servers, for any number of clients, workers    *)
(* and lines: the completion-port server alone (Spec of PortEcho), then    *)
(* the four servers of Windows (OneSpec), each by an invariant of its own: *)
(* the receives of the port server, the arrays of the server with events,  *)
(* the operations of the server with completion routines, the text of both *)
(* echo servers, the registry of the chat servers.                         *)
(***************************************************************************)
EXTENDS Windows, ListProofs, FiniteSetTheorems, TLAPS

-----------------------------------------------------------------------------
(* The invariant, by connection.                                           *)

\* The types it rests on.
Shape ==
    /\ accepted \in Clients \cup {NoOne}
    /\ handleInfo \in [Clients -> {"none", "live", "freed"}]
    /\ sock \in [Clients -> {"none", "open", "closed"}]
    /\ conn \in [Clients -> {"idle", "open", "fin", "rst"}]
    /\ recv \subseteq Clients /\ backlog \in Seq(Clients)
    /\ wpc \in [Workers -> {"wait", "load", "close", "free", "send", "recv"}]
    /\ task \in [Workers -> [of : Clients \cup {NoOne}, rwMode : {"READ", "WRITE"}, data : Seq(Nat)]]
    /\ port \in Seq([of : Clients, rwMode : {"READ", "WRITE"}, data : Seq(Nat)])
    /\ inq \in [Clients -> Seq(Nat)]
    /\ \A w \in Workers : wpc[w] # "wait" => task[w].of \in Clients
    /\ \A w \in Workers : wpc[w] \notin {"wait", "load"} => task[w].rwMode = "READ"

InPort(c)     == \E j \in DOMAIN port : IsRead(port[j], c)
Handles(w, c) == wpc[w] # "wait" /\ IsRead(task[w], c)
AtWorker(c)   == \E w \in Workers : Handles(w, c)
Queued(c)     == \E j \in DOMAIN backlog : backlog[j] = c

\* One receive: posted, in the queue or with a worker, and only once there.
Once(c) ==
    /\ c \in recv => ~InPort(c) /\ ~AtWorker(c)
    /\ InPort(c) => ~AtWorker(c)
    /\ \A j, l \in DOMAIN port : IsRead(port[j], c) /\ IsRead(port[l], c) => j = l
    /\ \A v, w \in Workers : Handles(v, c) /\ Handles(w, c) => v = w

\* What it refers to is there.
Live(c) ==
    /\ c \in recv \/ InPort(c) => handleInfo[c] = "live" /\ sock[c] = "open"
    /\ \A w \in Workers : Handles(w, c) =>
          handleInfo[c] = "live" /\ sock[c] = (IF wpc[w] = "free" THEN "closed" ELSE "open")

\* An open connection has one, unless it was reset or main is about to post it.
Heard(c) == sock[c] = "open" /\ accepted # c =>
                c \in recv \/ InPort(c) \/ AtWorker(c) \/ conn[c] = "rst"

\* Before that: a connection goes from idle to the listen queue, from there to
\* main, and each time only once.
Fresh(c) ==
    /\ conn[c] = "idle" => ~Queued(c)
    /\ conn[c] = "idle" \/ Queued(c) => sock[c] = "none" /\ accepted # c
    /\ \A j, l \in DOMAIN backlog : backlog[j] = c /\ backlog[l] = c => j = l
    /\ accepted = c => /\ handleInfo[c] = "live" /\ sock[c] = "open"
                       /\ c \notin recv /\ ~InPort(c) /\ ~AtWorker(c)

Good(c) == Once(c) /\ Live(c) /\ Heard(c) /\ Fresh(c)
PortInv == Shape /\ \A c \in Clients : Good(c)

-----------------------------------------------------------------------------
(* Sequences: what Append adds and Tail takes away.                        *)

\* Append adds one entry after the last.
LEMMA Appended ==
    ASSUME NEW S, NEW s \in Seq(S), NEW e \in S
    PROVE  /\ Append(s, e) \in Seq(S) /\ DOMAIN Append(s, e) = DOMAIN s \cup {Len(s) + 1}
           /\ Append(s, e)[Len(s) + 1] = e /\ Len(s) + 1 \notin DOMAIN s
           /\ \A j \in DOMAIN s : Append(s, e)[j] = s[j]
OBVIOUS

\* Tail moves every entry but the first one place forward.
LEMMA Taken ==
    ASSUME NEW S, NEW s \in Seq(S), s # <<>>
    PROVE  /\ Head(s) \in S /\ Head(s) = s[1] /\ 1 \in DOMAIN s /\ Tail(s) \in Seq(S)
           /\ \A j \in DOMAIN Tail(s) : j + 1 \in DOMAIN s /\ j + 1 # 1 /\ Tail(s)[j] = s[j + 1]
           /\ \A j \in DOMAIN s : j = 1 \/ (j - 1 \in DOMAIN Tail(s) /\ Tail(s)[j - 1] = s[j])
           /\ DOMAIN Tail(s) \subseteq Int /\ DOMAIN s \subseteq Int
OBVIOUS

\* What is left of a text after a prefix is a text.
LEMMA Cut ==
    ASSUME NEW s \in Seq(Nat), NEW m \in Nat, NEW n \in 0..Len(s)
    PROVE  SubSeq(s, m + 1, n) \in Seq(Nat)
OBVIOUS

\* A prefix of a text is a text.
LEMMA CutHead ==
    ASSUME NEW s \in Seq(Nat), NEW n \in 0..Len(s)
    PROVE  SubSeq(s, 1, n) \in Seq(Nat) /\ Len(SubSeq(s, 1, n)) \in Nat
OBVIOUS

\* The smaller of two numbers is one of them.
LEMMA Smaller == ASSUME NEW a \in Nat, NEW b \in Nat
                 PROVE  Min({a, b}) \in 0..b
BY DEF Min

-----------------------------------------------------------------------------
(* The invariant holds at the start and is kept.                           *)

\* Nothing is posted and nobody has connected at the start.
LEMMA PortInit == Init => PortInv
BY NoOneAssumption DEF Init, PortInv, Shape, Good, Once, Live, Heard, Fresh, InPort, AtWorker,
   Handles, Queued, NoTask, Completion, IsRead

\* Steps of clients and of connections: receives stay where they are.
LEMMA Elsewhere ==
    ASSUME PortInv, Shape',
           UNCHANGED <<accepted, handleInfo, sock, recv, port, wpc, task, backlog>>,
           \A c \in Clients : /\ conn[c] = "rst" => conn'[c] = "rst"
                              /\ conn'[c] = "idle" => conn[c] = "idle"
    PROVE  PortInv'
BY DEF PortInv, Good, Once, Live, Heard, Fresh, InPort, AtWorker, Handles, Queued, IsRead

\* A client moves only text and the states of its connection, or joins the
\* listen queue, for the only time.
LEMMA ClientKeeps ==
    ASSUME PortInv, NEW c \in Clients, Client(c)
    PROVE  PortInv'
<1> USE DEF main, objects, posted, workers, net, clients
<1>1. CASE Connect(c)
  <2>1. /\ conn[c] = "idle" /\ conn' = [conn EXCEPT ![c] = "open"] /\ backlog' = Append(backlog, c)
        /\ UNCHANGED <<accepted, handleInfo, sock, recv, port, wpc, task, inq>>
    BY <1>1 DEF Connect
  <2>2. /\ backlog' \in Seq(Clients) /\ DOMAIN backlog' = DOMAIN backlog \cup {Len(backlog) + 1}
        /\ backlog'[Len(backlog) + 1] = c /\ Len(backlog) + 1 \notin DOMAIN backlog
        /\ \A j \in DOMAIN backlog : backlog'[j] = backlog[j]
    BY <2>1, Appended DEF PortInv, Shape
  <2>3. Shape'
    BY <2>1, <2>2 DEF PortInv, Shape
  <2>4. ASSUME NEW d \in Clients PROVE Good(d)'
    <3>1. Once(d)' /\ Live(d)'
      BY <2>1 DEF PortInv, Good, Once, Live, InPort, AtWorker, Handles, IsRead
    <3>2. Heard(d)'
      BY <2>1 DEF PortInv, Shape, Good, Heard, InPort, AtWorker, Handles, IsRead
    <3>3. Fresh(d)'
      BY <2>1, <2>2 DEF PortInv, Shape, Good, Fresh, Queued, InPort, AtWorker, Handles, IsRead
    <3>4. QED BY <3>1, <3>2, <3>3 DEF Good
  <2>5. QED BY <2>3, <2>4 DEF PortInv
<1>2. CASE SendLine(c)
  <2>1. inq' \in [Clients -> Seq(Nat)]
    <3>1. PICK n \in 1..MaxLine : inq' = [inq EXCEPT ![c] = [j \in 1..n |-> j]]
      BY <1>2 DEF SendLine
    <3>2. n \in Nat /\ [j \in 1..n |-> j] \in Seq(Nat)
      BY SizesAssumption
    <3>3. QED BY <3>1, <3>2 DEF PortInv, Shape
  <2>2. UNCHANGED <<accepted, handleInfo, sock, recv, port, wpc, task, backlog, conn>>
    BY <1>2 DEF SendLine
  <2>3. Shape'
    BY <2>1, <2>2 DEF PortInv, Shape
  <2>4. QED BY <2>2, <2>3, Elsewhere
<1>3. CASE ReadReply(c)
  <2>1. UNCHANGED <<accepted, handleInfo, sock, recv, port, wpc, task, backlog, conn, inq>>
    BY <1>3 DEF ReadReply
  <2>2. Shape'
    BY <2>1 DEF PortInv, Shape
  <2>3. QED BY <2>1, <2>2, Elsewhere
<1>4. CASE Leave(c)
  <2>1. /\ UNCHANGED <<accepted, handleInfo, sock, recv, port, wpc, task, backlog, inq>>
        /\ conn[c] = "open" /\ conn' = [conn EXCEPT ![c] = IF outq[c] = <<>> THEN "fin" ELSE "rst"]
    BY <1>4 DEF Leave
  <2>2. Shape'
    BY <2>1 DEF PortInv, Shape
  <2>3. QED BY <2>1, <2>2, Elsewhere DEF PortInv, Shape
<1>5. QED BY <1>1, <1>2, <1>3, <1>4 DEF Client

\* A completion goes to the end of the queue: a receive that was posted is in it
\* then and is posted no more, anything else stays where it is.
LEMMA SystemKeeps ==
    ASSUME PortInv, NEW c \in Clients, System(c)
    PROVE  PortInv'
<1> USE DEF main, objects, workers, clients
<1>1. CASE RecvDone(c)
  <2> DEFINE t == Completion(c, "READ", RecvText(c))
  <2>1. /\ c \in recv /\ recv' = recv \ {c} /\ port' = Append(port, t)
        /\ UNCHANGED <<accepted, handleInfo, sock, wpc, task, backlog, conn>>
        /\ inq' = [inq EXCEPT ![c] = SubSeq(@, Len(RecvText(c)) + 1, Len(@))]
    BY <1>1 DEF RecvDone
  <2>2. RecvText(c) \in Seq(Nat) /\ inq' \in [Clients -> Seq(Nat)]
    <3>1. inq[c] \in Seq(Nat) /\ Len(inq[c]) \in Nat /\ BUF_SIZE \in Nat
      BY SizesAssumption DEF PortInv, Shape
    <3>2. Min({BUF_SIZE, Len(inq[c])}) \in 0..Len(inq[c])
      BY <3>1, Smaller, Zenon
    <3>3. RecvText(c) \in Seq(Nat) /\ Len(RecvText(c)) \in Nat
      BY <3>1, <3>2, CutHead, Zenon DEF RecvText
    <3>4. SubSeq(inq[c], Len(RecvText(c)) + 1, Len(inq[c])) \in Seq(Nat)
      BY <3>1, <3>3, Cut
    <3>5. QED BY <2>1, <3>3, <3>4 DEF PortInv, Shape
  <2>3. t \in [of : Clients, rwMode : {"READ", "WRITE"}, data : Seq(Nat)] /\ IsRead(t, c)
        /\ \A d \in Clients : IsRead(t, d) => d = c
    BY <2>2 DEF Completion, IsRead
  <2> HIDE DEF t
  <2>4. /\ port' \in Seq([of : Clients, rwMode : {"READ", "WRITE"}, data : Seq(Nat)])
        /\ DOMAIN port' = DOMAIN port \cup {Len(port) + 1}
        /\ port'[Len(port) + 1] = t /\ Len(port) + 1 \notin DOMAIN port
        /\ \A j \in DOMAIN port : port'[j] = port[j]
    BY <2>1, <2>3, Appended DEF PortInv, Shape
  <2>5. Shape'
    BY <2>1, <2>2, <2>4 DEF PortInv, Shape
  <2>6. \A d \in Clients : InPort(d)' <=> InPort(d) \/ d = c
    BY <2>3, <2>4 DEF InPort
  <2>7. ASSUME NEW d \in Clients PROVE Good(d)'
    <3>1. UNCHANGED <<AtWorker(d), Queued(d)>> /\ \A w \in Workers : Handles(w, d)' <=> Handles(w, d)
      BY <2>1 DEF AtWorker, Handles, Queued, IsRead
    <3>2. Once(d)'
      BY <2>1, <2>3, <2>4, <2>6, <3>1 DEF PortInv, Good, Once, InPort
    <3>3. Live(d)' /\ Heard(d)' /\ Fresh(d)'
      BY <2>1, <2>6, <3>1 DEF PortInv, Good, Live, Heard, Fresh
    <3>4. QED BY <3>2, <3>3 DEF Good
  <2>8. QED BY <2>5, <2>7 DEF PortInv
<1>2. CASE SendDone(c)
  <2> DEFINE t == Completion(c, "WRITE", <<>>)
  <2>1. /\ port' = Append(port, t)
        /\ UNCHANGED <<accepted, handleInfo, sock, recv, wpc, task, backlog, inq>>
        /\ conn' = conn \/ (conn[c] = "fin" /\ \E s \in {"fin", "rst"} : conn' = [conn EXCEPT ![c] = s])
    BY <1>2 DEF SendDone
  <2>2. t \in [of : Clients, rwMode : {"READ", "WRITE"}, data : Seq(Nat)]
        /\ \A d \in Clients : ~IsRead(t, d)
    BY DEF Completion, IsRead
  <2> HIDE DEF t
  <2>3. /\ port' \in Seq([of : Clients, rwMode : {"READ", "WRITE"}, data : Seq(Nat)])
        /\ DOMAIN port' = DOMAIN port \cup {Len(port) + 1}
        /\ port'[Len(port) + 1] = t /\ Len(port) + 1 \notin DOMAIN port
        /\ \A j \in DOMAIN port : port'[j] = port[j]
    BY <2>1, <2>2, Appended DEF PortInv, Shape
  <2>4. /\ conn' \in [Clients -> {"idle", "open", "fin", "rst"}]
        /\ \A d \in Clients : /\ conn[d] = "rst" => conn'[d] = "rst"
                              /\ conn'[d] = "idle" => conn[d] = "idle"
    <3>1. CASE conn' = conn
      BY <3>1 DEF PortInv, Shape
    <3>2. CASE conn' # conn
      <4>1. PICK s \in {"fin", "rst"} : conn' = [conn EXCEPT ![c] = s]
        BY <2>1, <3>2
      <4>2. conn[c] = "fin"
        BY <2>1, <3>2
      <4>3. QED BY <4>1, <4>2 DEF PortInv, Shape
    <3>3. QED BY <3>1, <3>2
  <2>5. Shape' /\ \A d \in Clients : InPort(d)' <=> InPort(d)
    <3>1. Shape'
      BY <2>1, <2>3, <2>4 DEF PortInv, Shape
    <3>2. \A d \in Clients : InPort(d)' <=> InPort(d)
      BY <2>2, <2>3 DEF InPort
    <3>3. QED BY <3>1, <3>2
  <2>6. ASSUME NEW d \in Clients PROVE Good(d)'
    <3>1. UNCHANGED <<AtWorker(d), Queued(d)>> /\ \A w \in Workers : Handles(w, d)' <=> Handles(w, d)
      BY <2>1 DEF AtWorker, Handles, Queued, IsRead
    <3>2. Once(d)'
      BY <2>1, <2>2, <2>3, <2>5, <3>1 DEF PortInv, Good, Once, InPort
    <3>3. Live(d)' /\ Heard(d)' /\ Fresh(d)'
      BY <2>1, <2>4, <2>5, <3>1 DEF PortInv, Good, Live, Heard, Fresh
    <3>4. QED BY <3>2, <3>3 DEF Good
  <2>7. QED BY <2>5, <2>6 DEF PortInv
<1>3. QED BY <1>1, <1>2 DEF System

\* main takes a connection from the queue, which has no receive yet, and posts its
\* first one, unless the connection is known to be reset.
LEMMA MainKeeps == PortInv /\ Main => PortInv'
<1> SUFFICES ASSUME PortInv, Main PROVE PortInv'
  OBVIOUS
<1> USE DEF objects, posted, workers, net, clients
<1>1. CASE Accept
  <2>1. PICK c \in Clients : c = Head(backlog)
    BY <1>1, Taken DEF Accept, PortInv, Shape
  <2>2. /\ c = backlog[1] /\ 1 \in DOMAIN backlog /\ backlog' \in Seq(Clients)
        /\ \A j \in DOMAIN backlog' : j + 1 \in DOMAIN backlog /\ j + 1 # 1 /\ backlog'[j] = backlog[j + 1]
        /\ DOMAIN backlog' \subseteq Int
    BY <1>1, <2>1, Taken DEF Accept, PortInv, Shape
  <2>3. /\ accepted = NoOne /\ accepted' = c
        /\ handleInfo' = [handleInfo EXCEPT ![c] = "live"]
        /\ sock' = [sock EXCEPT ![c] = "open"]
        /\ UNCHANGED <<recv, port, wpc, task, conn, inq>>
    BY <1>1, <2>1 DEF Accept
  <2>4. Shape'
    BY <2>3, <2>2 DEF PortInv, Shape
  <2>5. Queued(c) /\ sock[c] = "none" /\ conn[c] # "idle"
    BY <2>2 DEF PortInv, Good, Fresh, Queued
  <2>6. c \notin recv /\ ~InPort(c) /\ \A w \in Workers : ~Handles(w, c)
    <3>1. c \notin recv /\ ~InPort(c)
      BY <2>2, <2>5 DEF PortInv, Good, Live
    <3>2. ASSUME NEW w \in Workers, Handles(w, c) PROVE FALSE
      BY <2>2, <2>5, <3>2 DEF PortInv, Good, Live
    <3>3. QED BY <3>1, <3>2
  <2>7. ~Queued(c)'
    <3>1. SUFFICES ASSUME NEW n \in DOMAIN backlog', backlog'[n] = c PROVE FALSE
      BY DEF Queued
    <3>2. n + 1 \in DOMAIN backlog /\ n + 1 # 1 /\ backlog[n + 1] = c /\ backlog[1] = c
      BY <2>2, <3>1
    <3>3. QED BY <2>2, <3>2 DEF PortInv, Good, Fresh
  <2>8. ASSUME NEW d \in Clients PROVE Good(d)'
    <3>1. UNCHANGED <<AtWorker(d), InPort(d)>> /\ \A w \in Workers : Handles(w, d)' <=> Handles(w, d)
      BY <2>3 DEF AtWorker, Handles, InPort, IsRead
    <3>2. Once(d)'
      BY <2>3, <3>1 DEF PortInv, Good, Once
    <3>3. Live(d)'
      BY <2>3, <2>6, <3>1 DEF PortInv, Shape, Good, Live
    <3>4. Heard(d)'
      BY <2>3, <3>1, NoOneAssumption DEF PortInv, Shape, Good, Heard
    <3>5. Queued(d)' => Queued(d)
      BY <2>2 DEF Queued
    <3>6. \A j, l \in DOMAIN backlog' : backlog'[j] = d /\ backlog'[l] = d => j = l
      BY <2>2 DEF PortInv, Good, Fresh
    <3>7. CASE d = c
      <4>1. ~AtWorker(c)
        BY <2>6 DEF AtWorker
      <4>2. ~Queued(d)' /\ conn'[d] # "idle" /\ handleInfo'[d] = "live" /\ sock'[d] = "open"
            /\ d \notin recv' /\ ~InPort(d)' /\ ~AtWorker(d)'
        BY <2>3, <2>5, <2>6, <2>7, <3>1, <3>7, <4>1 DEF PortInv, Shape
      <4>3. QED BY <3>2, <3>3, <3>4, <3>6, <4>2 DEF Good, Fresh
    <3>8. CASE d # c
      <4>1. Fresh(d)'
        BY <2>3, <3>1, <3>5, <3>6, <3>8 DEF PortInv, Shape, Good, Fresh
      <4>2. QED BY <3>2, <3>3, <3>4, <4>1 DEF Good
    <3>9. QED BY <3>7, <3>8
  <2>9. QED BY <2>4, <2>8 DEF PortInv
<1>2. CASE AcceptError
  <2>1. UNCHANGED <<accepted, handleInfo, sock, recv, port, wpc, task, backlog, conn, inq>>
    BY <1>2 DEF AcceptError
  <2>2. Shape'
    BY <2>1 DEF PortInv, Shape
  <2>3. QED BY <2>1, <2>2, Elsewhere
<1>3. CASE FirstRecv
  <2>1. /\ accepted # NoOne /\ PostRecv(accepted) /\ accepted' = NoOne
        /\ UNCHANGED <<handleInfo, sock, port, wpc, task, backlog, conn, inq>>
    BY <1>3 DEF FirstRecv
  <2>2. accepted \in Clients
    BY <2>1 DEF PortInv, Shape
  <2>3. /\ recv' \subseteq recv \cup {accepted} /\ recv \subseteq recv'
        /\ accepted \in recv' \/ conn[accepted] = "rst"
    BY <2>1 DEF PostRecv, Fails
  <2>4. Shape'
    BY <2>1, <2>2, <2>3 DEF PortInv, Shape
  <2>5. ASSUME NEW d \in Clients PROVE Good(d)'
    <3>1. UNCHANGED <<AtWorker(d), InPort(d), Queued(d)>> /\ \A w \in Workers : Handles(w, d)' <=> Handles(w, d)
      BY <2>1 DEF AtWorker, Handles, InPort, Queued, IsRead
    <3>2. Once(d)'
      BY <2>1, <2>3, <3>1 DEF PortInv, Good, Once, Fresh
    <3>3. Live(d)'
      BY <2>1, <2>3, <3>1 DEF PortInv, Good, Live, Fresh
    <3>4. Heard(d)'
      BY <2>1, <2>3, <3>1 DEF PortInv, Good, Heard
    <3>5. Fresh(d)'
      BY <2>1, <3>1, NoOneAssumption DEF PortInv, Good, Fresh
    <3>6. QED BY <3>2, <3>3, <3>4, <3>5 DEF Good
  <2>6. QED BY <2>4, <2>5 DEF PortInv
<1>4. QED BY <1>1, <1>2, <1>3 DEF Main

\* Steps of a worker that keep the receive in its hands.
LEMMA SameHands ==
    ASSUME PortInv, Shape',
           UNCHANGED <<accepted, handleInfo, sock, recv, port, backlog, conn>>,
           \A w \in Workers, c \in Clients :
              /\ Handles(w, c)' <=> Handles(w, c)
              /\ Handles(w, c) => (wpc'[w] = "free" <=> wpc[w] = "free")
    PROVE  PortInv'
<1>1. ASSUME NEW c \in Clients PROVE Good(c)'
  <2>1. (InPort(c)' <=> InPort(c)) /\ (Queued(c)' <=> Queued(c)) /\ (AtWorker(c)' <=> AtWorker(c))
    BY DEF InPort, Queued, AtWorker, IsRead
  <2>2. Once(c)'
    BY <2>1 DEF PortInv, Good, Once, IsRead
  <2>3. Live(c)' /\ Heard(c)' /\ Fresh(c)'
    BY <2>1 DEF PortInv, Good, Live, Heard, Fresh
  <2>4. QED BY <2>2, <2>3 DEF Good
<1>2. QED BY <1>1 DEF PortInv

\* A worker carries a receive from the queue to the next one posted, or to the end
\* of its connection; a completion of a send moves nothing.
LEMMA WorkerKeeps ==
    ASSUME PortInv, NEW v \in Workers, Worker(v)
    PROVE  PortInv'
<1> USE DEF main, objects, posted, workers, net, clients
<1>1. CASE GetStatus(v)
  <2>1. /\ wpc[v] = "wait" /\ port # <<>> /\ task' = [task EXCEPT ![v] = port[1]]
        /\ wpc' = [wpc EXCEPT ![v] = "load"] /\ port' = Tail(port)
        /\ port[1] \in [of : Clients, rwMode : {"READ", "WRITE"}, data : Seq(Nat)]
        /\ UNCHANGED <<accepted, handleInfo, sock, recv, backlog, conn, inq>>
    <3>1. port \in Seq([of : Clients, rwMode : {"READ", "WRITE"}, data : Seq(Nat)]) /\ port # <<>>
      BY <1>1 DEF GetStatus, PortInv, Shape
    <3>2. /\ Head(port) = port[1]
          /\ port[1] \in [of : Clients, rwMode : {"READ", "WRITE"}, data : Seq(Nat)]
      BY <3>1, Taken
    <3>3. QED BY <1>1, <3>1, <3>2 DEF GetStatus
  <2>2. /\ 1 \in DOMAIN port /\ port' \in Seq([of : Clients, rwMode : {"READ", "WRITE"}, data : Seq(Nat)])
        /\ \A j \in DOMAIN port' : j + 1 \in DOMAIN port /\ j + 1 # 1 /\ port'[j] = port[j + 1]
        /\ \A j \in DOMAIN port : j = 1 \/ (j - 1 \in DOMAIN port' /\ port'[j - 1] = port[j])
        /\ DOMAIN port' \subseteq Int
    BY <2>1, Taken DEF PortInv, Shape
  <2>3. Shape'
    BY <2>1, <2>2 DEF PortInv, Shape
  <2>4. ASSUME NEW d \in Clients PROVE Good(d)'
    <3>1. \A w \in Workers : Handles(w, d)' <=> IF w = v THEN IsRead(port[1], d) ELSE Handles(w, d)
      BY <2>1 DEF Handles, IsRead, PortInv, Shape
    <3>2. InPort(d) <=> InPort(d)' \/ IsRead(port[1], d)
      BY <2>2 DEF InPort
    <3>3. IsRead(port[1], d) => ~InPort(d)'
      <4>1. SUFFICES ASSUME IsRead(port[1], d), NEW n \in DOMAIN port', IsRead(port'[n], d) PROVE FALSE
        BY DEF InPort, IsRead
      <4>2. n + 1 \in DOMAIN port /\ n + 1 # 1 /\ IsRead(port[n + 1], d)
        BY <2>2, <4>1
      <4>3. QED BY <2>2, <4>1, <4>2 DEF PortInv, Good, Once
    <3>4. AtWorker(d)' <=> AtWorker(d) \/ IsRead(port[1], d)
      <4>1. ~Handles(v, d)
        BY <2>1 DEF Handles
      <4>2. QED BY <3>1, <4>1 DEF AtWorker
    <3>5. \A j, l \in DOMAIN port' : IsRead(port'[j], d) /\ IsRead(port'[l], d) => j = l
      BY <2>2 DEF PortInv, Good, Once
    <3>6. Once(d)'
      <4>1. d \in recv' => ~InPort(d)' /\ ~AtWorker(d)'
        BY <2>1, <3>2, <3>4 DEF PortInv, Good, Once
      <4>2. InPort(d)' => ~AtWorker(d)'
        BY <3>2, <3>3, <3>4 DEF PortInv, Good, Once
      <4>3. ASSUME NEW u \in Workers, NEW w \in Workers, Handles(u, d)', Handles(w, d)' PROVE u = w
        <5>1. IsRead(port[1], d) => \A x \in Workers : ~Handles(x, d)
          BY <3>2 DEF PortInv, Good, Once, AtWorker
        <5>2. QED BY <3>1, <4>3, <5>1 DEF PortInv, Good, Once
      <4>4. QED BY <3>5, <4>1, <4>2, <4>3 DEF Once
    <3>7. Live(d)'
      <4>1. InPort(d) => handleInfo[d] = "live" /\ sock[d] = "open"
        BY DEF PortInv, Good, Live
      <4>2. \A w \in Workers : Handles(w, d)' =>
               handleInfo'[d] = "live" /\ sock'[d] = (IF wpc'[w] = "free" THEN "closed" ELSE "open")
        BY <2>1, <3>1, <3>2, <4>1 DEF PortInv, Shape, Good, Live
      <4>3. QED BY <2>1, <3>2, <4>1, <4>2 DEF PortInv, Good, Live
    <3>8. Heard(d)'
      BY <2>1, <3>2, <3>4 DEF PortInv, Good, Heard
    <3>9. Queued(d)' <=> Queued(d)
      BY <2>1 DEF Queued
    <3>10. Fresh(d)'
      BY <2>1, <3>2, <3>4, <3>9 DEF PortInv, Good, Fresh
    <3>11. QED BY <3>6, <3>7, <3>8, <3>10 DEF Good
  <2>5. QED BY <2>3, <2>4 DEF PortInv
<1>2. CASE Load(v)
  <2>1. /\ wpc[v] = "load" /\ wpc' = [wpc EXCEPT ![v] = Branch(task[v])]
        /\ task' = [task EXCEPT ![v] = IF Branch(task[v]) = "wait" THEN NoTask ELSE task[v]]
        /\ UNCHANGED <<accepted, handleInfo, sock, recv, port, backlog, conn, inq>>
    BY <1>2 DEF Load
  <2>2. /\ Branch(task[v]) \in {"wait", "close", "send"}
        /\ Branch(task[v]) = "wait" <=> task[v].rwMode = "WRITE"
        /\ task[v].rwMode \in {"READ", "WRITE"} /\ task[v].of \in Clients
    BY <2>1 DEF Branch, PortInv, Shape
  <2>3. NoTask \in [of : Clients \cup {NoOne}, rwMode : {"READ", "WRITE"}, data : Seq(Nat)]
    BY DEF NoTask, Completion
  <2>4. Shape'
    BY <2>1, <2>2, <2>3 DEF PortInv, Shape
  <2>5. \A w \in Workers, c \in Clients :
           /\ Handles(w, c)' <=> Handles(w, c)
           /\ Handles(w, c) => (wpc'[w] = "free" <=> wpc[w] = "free")
    BY <2>1, <2>2 DEF Handles, IsRead, PortInv, Shape
  <2>6. QED BY <2>1, <2>4, <2>5, SameHands
<1>3. CASE Send(v)
  <2>1. /\ wpc[v] = "send" /\ wpc' = [wpc EXCEPT ![v] = "recv"]
        /\ task' = [task EXCEPT ![v] = Completion(task[v].of, "READ", <<>>)]
        /\ UNCHANGED <<accepted, handleInfo, sock, recv, port, backlog, conn, inq>>
    BY <1>3 DEF Send
  <2>2. task[v].rwMode = "READ" /\ task[v].of \in Clients
    BY <2>1 DEF PortInv, Shape
  <2>3. Shape'
    BY <2>1, <2>2 DEF PortInv, Shape, Completion
  <2>4. \A w \in Workers, c \in Clients :
           /\ Handles(w, c)' <=> Handles(w, c)
           /\ Handles(w, c) => (wpc'[w] = "free" <=> wpc[w] = "free")
    BY <2>1, <2>2 DEF Handles, IsRead, PortInv, Shape, Completion
  <2>5. QED BY <2>1, <2>3, <2>4, SameHands
<1>4. CASE CloseSocket(v) \/ FreeHandle(v) \/ Recv(v)
  <2>1. PICK c \in Clients : c = task[v].of
    BY <1>4 DEF CloseSocket, FreeHandle, Recv, PortInv, Shape
  <2>2. Handles(v, c)
    BY <1>4, <2>1 DEF CloseSocket, FreeHandle, Recv, PortInv, Shape, Handles, IsRead
  <2>3. /\ c \notin recv /\ ~InPort(c) /\ AtWorker(c) /\ accepted # c /\ ~Queued(c)
        /\ \A w \in Workers : Handles(w, c) => w = v
        /\ handleInfo[c] = "live" /\ sock[c] = (IF wpc[v] = "free" THEN "closed" ELSE "open")
        /\ conn[c] # "idle"
    <3>1. AtWorker(c) /\ Good(c)
      BY <2>2 DEF AtWorker, PortInv
    <3>2. sock[c] # "none"
      BY <2>2, <3>1 DEF Good, Live
    <3>3. QED BY <2>2, <3>1, <3>2 DEF Good, Once, Live, Fresh
  <2>4. ASSUME NEW d \in Clients, d # c PROVE \A w \in Workers : Handles(w, d) => w # v
    BY <2>1, <2>4 DEF Handles, IsRead
  <2>5. NoTask \in [of : Clients \cup {NoOne}, rwMode : {"READ", "WRITE"}, data : Seq(Nat)]
    BY DEF NoTask, Completion
  <2>6. CASE CloseSocket(v)
    <3>1. /\ wpc[v] = "close" /\ sock' = [sock EXCEPT ![c] = "closed"]
          /\ wpc' = [wpc EXCEPT ![v] = "free"]
          /\ UNCHANGED <<accepted, handleInfo, recv, port, task, backlog, conn, inq>>
      BY <2>1, <2>6 DEF CloseSocket
    <3>2. Shape'
      BY <3>1 DEF PortInv, Shape
    <3>3. \A w \in Workers, d \in Clients : Handles(w, d)' <=> Handles(w, d)
      BY <3>1 DEF Handles, IsRead, PortInv, Shape
    <3>4. ASSUME NEW d \in Clients PROVE Good(d)'
      <4>1. (InPort(d)' <=> InPort(d)) /\ (Queued(d)' <=> Queued(d)) /\ (AtWorker(d)' <=> AtWorker(d))
        BY <3>1, <3>3 DEF InPort, Queued, AtWorker, IsRead
      <4>2. Once(d)'
        BY <3>1, <3>3, <4>1 DEF PortInv, Good, Once, IsRead
      <4>3. Live(d)'
        BY <2>3, <2>4, <3>1, <3>3, <4>1 DEF PortInv, Shape, Good, Live
      <4>4. Heard(d)' /\ Fresh(d)'
        BY <2>3, <3>1, <4>1 DEF PortInv, Shape, Good, Heard, Fresh
      <4>5. QED BY <4>2, <4>3, <4>4 DEF Good
    <3>5. QED BY <3>2, <3>4 DEF PortInv
  <2>7. CASE FreeHandle(v)
    <3>1. /\ wpc[v] = "free" /\ handleInfo' = [handleInfo EXCEPT ![c] = "freed"]
          /\ wpc' = [wpc EXCEPT ![v] = "wait"] /\ task' = [task EXCEPT ![v] = NoTask]
          /\ UNCHANGED <<accepted, sock, recv, port, backlog, conn, inq>>
      BY <2>1, <2>7 DEF FreeHandle
    <3>2. Shape'
      BY <2>5, <3>1 DEF PortInv, Shape
    <3>3. \A w \in Workers, d \in Clients : Handles(w, d)' <=> Handles(w, d) /\ w # v
      BY <3>1 DEF Handles, IsRead, PortInv, Shape
    <3>4. ASSUME NEW d \in Clients PROVE Good(d)'
      <4>1. (InPort(d)' <=> InPort(d)) /\ (Queued(d)' <=> Queued(d)) /\ (AtWorker(d)' <=> AtWorker(d) /\ d # c)
        BY <2>3, <2>4, <3>1, <3>3 DEF InPort, Queued, AtWorker, IsRead
      <4>2. Once(d)'
        BY <3>1, <3>3, <4>1 DEF PortInv, Good, Once, IsRead
      <4>3. Live(d)'
        BY <2>3, <2>4, <3>1, <3>3, <4>1 DEF PortInv, Shape, Good, Live
      <4>4. Heard(d)' /\ Fresh(d)'
        BY <2>3, <3>1, <4>1 DEF PortInv, Shape, Good, Heard, Fresh
      <4>5. QED BY <4>2, <4>3, <4>4 DEF Good
    <3>5. QED BY <3>2, <3>4 DEF PortInv
  <2>8. CASE Recv(v)
    <3>1. /\ wpc[v] = "recv" /\ PostRecv(c)
          /\ wpc' = [wpc EXCEPT ![v] = "wait"] /\ task' = [task EXCEPT ![v] = NoTask]
          /\ UNCHANGED <<accepted, handleInfo, sock, port, backlog, conn, inq>>
      BY <2>1, <2>8 DEF Recv
    <3>2. recv' \subseteq recv \cup {c} /\ recv \subseteq recv' /\ (c \in recv' \/ conn[c] = "rst")
      BY <3>1 DEF PostRecv, Fails
    <3>3. Shape'
      BY <2>5, <3>1, <3>2 DEF PortInv, Shape
    <3>4. \A w \in Workers, d \in Clients : Handles(w, d)' <=> Handles(w, d) /\ w # v
      BY <3>1 DEF Handles, IsRead, PortInv, Shape
    <3>5. ASSUME NEW d \in Clients PROVE Good(d)'
      <4>1. (InPort(d)' <=> InPort(d)) /\ (Queued(d)' <=> Queued(d)) /\ (AtWorker(d)' <=> AtWorker(d) /\ d # c)
        BY <2>3, <2>4, <3>1, <3>4 DEF InPort, Queued, AtWorker, IsRead
      <4>2. Once(d)'
        BY <2>3, <3>1, <3>2, <3>4, <4>1 DEF PortInv, Good, Once, IsRead
      <4>3. Live(d)'
        BY <2>3, <2>4, <3>1, <3>2, <3>4, <4>1 DEF PortInv, Shape, Good, Live
      <4>4. Heard(d)' /\ Fresh(d)'
        BY <2>3, <3>1, <3>2, <4>1 DEF PortInv, Shape, Good, Heard, Fresh
      <4>5. QED BY <4>2, <4>3, <4>4 DEF Good
    <3>6. QED BY <3>3, <3>5 DEF PortInv
  <2>9. QED BY <1>4, <2>6, <2>7, <2>8
<1>5. QED BY <1>1, <1>2, <1>3, <1>4 DEF Worker

\* Every step keeps the invariant.
LEMMA PortNext == PortInv /\ [Next]_vars => PortInv'
<1> SUFFICES ASSUME PortInv, [Next]_vars PROVE PortInv'
  OBVIOUS
<1>1. CASE Main
  BY <1>1, MainKeeps
<1>2. ASSUME NEW w \in Workers, Worker(w) PROVE PortInv'
  BY <1>2, WorkerKeeps
<1>3. ASSUME NEW c \in Clients, System(c) PROVE PortInv'
  BY <1>3, SystemKeeps
<1>4. ASSUME NEW c \in Clients, Client(c) PROVE PortInv'
  BY <1>4, ClientKeeps
<1>5. CASE UNCHANGED vars
  <2>1. /\ UNCHANGED <<accepted, handleInfo, sock, recv, port, wpc, task, backlog>>
        /\ UNCHANGED <<conn, inq>>
    BY <1>5 DEF vars, main, objects, posted, workers, net
  <2>2. Shape'
    BY <2>1 DEF PortInv, Shape
  <2>3. QED BY <2>1, <2>2, Elsewhere
<1>6. QED BY <1>1, <1>2, <1>3, <1>4, <1>5 DEF Next

-----------------------------------------------------------------------------
(* What it means for the number of receives.                               *)

\* A set without two members has none or one.
LEMMA CountOfOne ==
    ASSUME NEW S, \A x, y \in S : x = y
    PROVE  Cardinality(S) = (IF S = {} THEN 0 ELSE 1)
<1>1. CASE S = {}
  BY <1>1, FS_EmptySet
<1>2. CASE S # {}
  <2>1. PICK x \in S : TRUE
    BY <1>2
  <2>2. S = {x}
    BY <2>1
  <2>3. QED BY <1>2, <2>2, FS_Singleton
<1>3. QED BY <1>1, <1>2

\* With one place at most, the sum of the three numbers says whether there is one.
LEMMA CountReceives ==
    ASSUME PortInv, NEW c \in Clients
    PROVE  Receives(c) = IF c \in recv \/ InPort(c) \/ AtWorker(c) THEN 1 ELSE 0
<1>1. Once(c)
  BY DEF PortInv, Good
<1>2. Cardinality(recv \cap {c}) = IF c \in recv THEN 1 ELSE 0
  <2>1. \A x, y \in recv \cap {c} : x = y
    OBVIOUS
  <2>2. QED BY <2>1, CountOfOne
<1>3. Cardinality(QueuedReads(c)) = IF InPort(c) THEN 1 ELSE 0
  <2>1. \A j, l \in QueuedReads(c) : j = l
    BY <1>1 DEF Once, QueuedReads
  <2>2. QueuedReads(c) # {} <=> InPort(c)
    BY DEF QueuedReads, InPort
  <2>3. QED BY <2>1, <2>2, CountOfOne
<1>4. Cardinality(HandledReads(c)) = IF AtWorker(c) THEN 1 ELSE 0
  <2>1. \A v, w \in HandledReads(c) : v = w
    BY <1>1 DEF Once, HandledReads, Handles
  <2>2. HandledReads(c) # {} <=> AtWorker(c)
    BY DEF HandledReads, AtWorker, Handles
  <2>3. QED BY <2>1, <2>2, CountOfOne
<1>5. QED BY <1>1, <1>2, <1>3, <1>4 DEF Receives, Once

\* At most one place, and Heard says that there is one.
LEMMA PortReceive == PortInv => OneReceive
<1> SUFFICES ASSUME PortInv, NEW c \in Clients
             PROVE  /\ Receives(c) <= 1
                    /\ sock[c] = "open" /\ accepted # c => Receives(c) = 1 \/ conn[c] = "rst"
  BY DEF OneReceive
<1>1. Receives(c) = IF c \in recv \/ InPort(c) \/ AtWorker(c) THEN 1 ELSE 0
  BY CountReceives
<1>2. Heard(c)
  BY DEF PortInv, Good
<1>3. QED BY <1>1, <1>2 DEF Heard

\* In each of its three places the receive refers to what is live.
LEMMA PortFreed == PortInv => FreedNotUsed
<1> SUFFICES ASSUME PortInv, NEW c \in Clients, Receives(c) > 0
             PROVE  /\ handleInfo[c] = "live"
                    /\ sock[c] = "closed" => \E w \in HandledReads(c) : wpc[w] = "free"
  BY DEF FreedNotUsed
<1>1. c \in recv \/ InPort(c) \/ AtWorker(c)
  BY CountReceives
<1>2. Live(c)
  BY DEF PortInv, Good
<1>3. CASE c \in recv \/ InPort(c)
  BY <1>2, <1>3 DEF Live
<1>4. CASE AtWorker(c)
  <2>1. PICK w \in Workers : Handles(w, c)
    BY <1>4 DEF AtWorker
  <2>2. w \in HandledReads(c)
    BY <2>1 DEF Handles, HandledReads
  <2>3. handleInfo[c] = "live" /\ sock[c] = (IF wpc[w] = "free" THEN "closed" ELSE "open")
    BY <1>2, <2>1 DEF Live
  <2>4. QED BY <2>2, <2>3
<1>5. QED BY <1>1, <1>3, <1>4

\* For any numbers of clients and workers and any sizes: a connection has one
\* receive, posted, in the port or with a worker, so that two workers never
\* echo or end the same connection, and none stays unheard but after a reset.
THEOREM ReceiveCorrect == Spec => []OneReceive
<1>1. QED BY PortInit, PortNext, PortReceive, PTL DEF Spec

\* For any numbers of clients and workers and any sizes: a completed receive finds
\* its handleInfo live and its socket open, although completions of sends may
\* refer to a handleInfo that was freed.
THEOREM FreedCorrect == Spec => []FreedNotUsed
<1>1. QED BY PortInit, PortNext, PortFreed, PTL DEF Spec

-----------------------------------------------------------------------------
(* The servers with events: hSockArr and hEventArr.                        *)

\* The types it rests on.
NotiShape ==
    /\ hSockArr \in [AN!Indices -> AN!Sockets \cup {NoOne}]
    /\ hEventArr \in [AN!Indices -> AN!Sockets \cup {NoOne}]
    /\ numOfClntSock \in 1..Cardinality(Clients) + 1 /\ i \in Nat
    /\ conn \in [Clients -> {"idle", "open", "fin", "rst"}] /\ backlog \in Seq(Clients)
    /\ recorded \in [AN!Sockets -> SUBSET {"FD_ACCEPT", "FD_READ", "FD_CLOSE", "error"}]
    /\ closed \subseteq Clients

Awaits(c) == \E n \in DOMAIN backlog : backlog[n] = c

\* The listening socket is the first; the others are clients, each once, which have
\* been accepted and not closed, and each with its event.
Paired ==
    /\ hSockArr[0] = AN!hServSock
    /\ \A n \in AN!Filled : hSockArr[n] = hEventArr[n] /\ hSockArr[n] \notin closed
    /\ \A n \in AN!Filled : n # 0 => hSockArr[n] \in Clients
    /\ \A m, n \in AN!Filled : hSockArr[m] = hSockArr[n] => m = n

\* A client comes to the listen queue once, and from there to the array.
Comes(c) ==
    /\ conn[c] = "idle" \/ Awaits(c) => c \notin closed /\ \A n \in AN!Filled : hSockArr[n] # c
    /\ conn[c] = "idle" => ~Awaits(c)
    /\ \A m, n \in DOMAIN backlog : backlog[m] = c /\ backlog[n] = c => m = n

\* Only the listening socket has connections, and only another an end.
Reports ==
    /\ \A c \in Clients : "FD_ACCEPT" \notin recorded[c]
    /\ "FD_CLOSE" \notin recorded[AN!hServSock]
    /\ "FD_ACCEPT" \in recorded[AN!hServSock] => backlog # <<>>

\* What was enumerated is of the socket at i, and a connection that was reported
\* is there until it is accepted.
Enumerated ==
    /\ apc \in {"accept", "read", "close"} => i < numOfClntSock
    /\ apc \in {"accept", "read", "close"} /\ "FD_CLOSE" \in netEvents => i # 0
    /\ apc = "accept" /\ "FD_ACCEPT" \in netEvents =>
          backlog # <<>> /\ "FD_ACCEPT" \notin recorded[AN!hServSock]

NotiInv == NotiShape /\ Paired /\ (\A c \in Clients : Comes(c)) /\ Reports /\ Enumerated

\* Of the other machines the arrays stay as they are.
Unused == /\ hSockArr = [n \in AN!Indices |-> IF n = 0 THEN AN!hServSock ELSE NoOne]
          /\ hEventArr = hSockArr /\ numOfClntSock = 1 /\ closed = {}

PairsInv == IF machine = "noti" THEN NotiInv ELSE Unused

\* The instances count as the module does.
LEMMA SameCounts == \A S : AN!Cardinality(S) = Cardinality(S) /\ WC!Cardinality(S) = Cardinality(S)
BY DEF AN!Cardinality, WC!Cardinality, Cardinality

\* Of the clients, too.
LEMMA SameCount ==
    /\ AN!Cardinality(Clients) = Cardinality(Clients) /\ WC!Cardinality(Clients) = Cardinality(Clients)
    /\ Cardinality(Clients) \in Nat
BY SameCounts, FS_CardinalityType, ClientsAssumption

\* Where the arrays have entries.
LEMMA ArrayIndices == AN!Indices = 0..Cardinality(Clients) + 1 /\ Cardinality(Clients) \in Nat
BY SameCount DEF AN!Indices

\* Everything is unused at the start, or a server with its listening socket.
LEMMA PairsInit == OneInit => PairsInv
<1> SUFFICES ASSUME OneInit PROVE PairsInv
  OBVIOUS
<1>1. AN!Init
  BY DEF OneInit
<1>2. Cardinality(Clients) \in Nat
  BY SameCount
<1>3. 0 \in AN!Indices /\ AN!Filled = {0}
  BY <1>1, ArrayIndices DEF AN!Init, AN!Filled
<1>4. Unused
  BY <1>1 DEF AN!Init, Unused
<1>5. NotiShape
  <2>1. 1 \in 1..Cardinality(Clients) + 1
    BY <1>2
  <2>2. [n \in AN!Indices |-> IF n = 0 THEN AN!hServSock ELSE NoOne]
            \in [AN!Indices -> AN!Sockets \cup {NoOne}]
    BY DEF AN!Sockets
  <2>3. QED BY <1>1, <1>4, <2>1, <2>2 DEF AN!Init, NotiShape, Unused
<1>6. Paired
  BY <1>1, <1>3, <1>4 DEF Paired, Unused
<1>7. ASSUME NEW c \in Clients PROVE Comes(c)
  BY <1>1, <1>3, <1>4, ClientsAssumption DEF AN!Init, Comes, Awaits, Unused
<1>8. Reports /\ Enumerated
  BY <1>1 DEF AN!Init, Reports, Enumerated, AN!Sockets
<1>9. QED BY <1>4, <1>5, <1>6, <1>7, <1>8 DEF PairsInv, NotiInv

\* Steps that leave the arrays, the listen queue and what is reported of connections.
LEMMA ArraysStay ==
    ASSUME NotiInv, UNCHANGED <<hSockArr, hEventArr, numOfClntSock, closed, backlog>>,
           NotiShape', Reports', Enumerated',
           \A c \in Clients : conn'[c] = "idle" => conn[c] = "idle"
    PROVE  NotiInv'
<1>1. AN!Filled' = AN!Filled
  BY DEF AN!Filled
<1>2. Paired'
  BY <1>1 DEF NotiInv, Paired
<1>3. ASSUME NEW c \in Clients PROVE Comes(c)'
  BY <1>1 DEF NotiInv, Comes, Awaits
<1>4. QED BY <1>2, <1>3 DEF NotiInv

\* Clients, and what Windows records of data and of ends.
LEMMA NotiClient ==
    ASSUME NotiInv, NEW c \in Clients, AN!System(c) \/ AN!Client(c)
    PROVE  NotiInv'
<1> USE DEF AN!arrays, AN!thread, AN!events, AN!net, AN!clients
<1>0. c \in AN!Sockets /\ c # AN!hServSock /\ AN!hServSock \in AN!Sockets
  BY ClientsAssumption DEF AN!Sockets
<1>1. CASE AN!DataArrives(c) \/ AN!EndArrives(c)
  <2>1. PICK what \in {"FD_READ", "FD_CLOSE", "error"} :
            recorded' = [recorded EXCEPT ![c] = @ \cup {what}]
    BY <1>1 DEF AN!DataArrives, AN!EndArrives, AN!End, AN!Record
  <2>2. UNCHANGED <<hSockArr, hEventArr, numOfClntSock, closed, backlog, conn, apc, i, netEvents>>
    BY <1>1 DEF AN!DataArrives, AN!EndArrives
  <2>3. NotiShape'
    BY <1>0, <2>1, <2>2 DEF NotiInv, NotiShape
  <2>4. Reports'
    BY <1>0, <2>1, <2>2 DEF NotiInv, NotiShape, Reports, AN!Sockets
  <2>5. Enumerated'
    BY <1>0, <2>1, <2>2 DEF NotiInv, NotiShape, Enumerated
  <2>6. QED BY <2>2, <2>3, <2>4, <2>5, ArraysStay
<1>2. CASE AN!SendLine(c) \/ AN!ReadReply(c) \/ AN!Leave(c)
  <2>1. UNCHANGED <<hSockArr, hEventArr, numOfClntSock, closed, backlog, apc, i, netEvents, recorded>>
    BY <1>2 DEF AN!SendLine, AN!ReadReply, AN!Leave
  <2>2. /\ conn' \in [Clients -> {"idle", "open", "fin", "rst"}]
        /\ \A d \in Clients : conn'[d] = "idle" => conn[d] = "idle"
    BY <1>2 DEF AN!SendLine, AN!ReadReply, AN!Leave, NotiInv, NotiShape
  <2>3. NotiShape' /\ Reports' /\ Enumerated'
    BY <2>1, <2>2 DEF NotiInv, NotiShape, Reports, Enumerated
  <2>4. QED BY <2>1, <2>2, <2>3, ArraysStay
<1>3. CASE AN!Connect(c)
  <2>1. /\ conn[c] = "idle" /\ conn' = [conn EXCEPT ![c] = "open"] /\ backlog' = Append(backlog, c)
        /\ UNCHANGED <<hSockArr, hEventArr, numOfClntSock, closed, apc, i, netEvents>>
    BY <1>3 DEF AN!Connect
  <2>2. IF backlog = <<>>
        THEN recorded' = [recorded EXCEPT ![AN!hServSock] = @ \cup {"FD_ACCEPT"}]
        ELSE recorded' = recorded
    BY <1>3 DEF AN!Connect, AN!Record
  <2>3. /\ backlog' \in Seq(Clients) /\ DOMAIN backlog' = DOMAIN backlog \cup {Len(backlog) + 1}
        /\ backlog'[Len(backlog) + 1] = c /\ Len(backlog) + 1 \notin DOMAIN backlog
        /\ \A n \in DOMAIN backlog : backlog'[n] = backlog[n]
    BY <2>1, Appended DEF NotiInv, NotiShape
  <2>4. backlog' # <<>>
    BY <2>1, <2>3
  <2>5. AN!Filled' = AN!Filled
    BY <2>1 DEF AN!Filled
  <2>6. NotiShape'
    BY <1>0, <2>1, <2>2, <2>3 DEF NotiInv, NotiShape
  <2>7. Paired'
    BY <2>1, <2>5 DEF NotiInv, Paired
  <2>8. ASSUME NEW d \in Clients PROVE Comes(d)'
    <3>1. (Awaits(d)' <=> Awaits(d) \/ d = c) /\ conn[c] = "idle" /\ Comes(d) /\ Comes(c)
      BY <2>1, <2>3 DEF Awaits, NotiInv
    <3>2. conn'[d] = (IF d = c THEN "open" ELSE conn[d])
      BY <2>1 DEF NotiInv, NotiShape
    <3>3. \A m, n \in DOMAIN backlog' : backlog'[m] = d /\ backlog'[n] = d => m = n
      BY <2>3, <3>1 DEF Comes, Awaits
    <3>4. QED BY <2>1, <2>5, <3>1, <3>2, <3>3 DEF Comes
  <2>9. Reports'
    <3>1. \A s \in AN!Sockets : recorded'[s] = recorded[s]
                               \/ (s = AN!hServSock /\ recorded'[s] = recorded[s] \cup {"FD_ACCEPT"})
      BY <1>0, <2>2 DEF NotiInv, NotiShape
    <3>2. \A d \in Clients : d \in AN!Sockets /\ d # AN!hServSock
      BY ClientsAssumption DEF AN!Sockets
    <3>3. QED BY <1>0, <2>4, <3>1, <3>2 DEF NotiInv, Reports
  <2>10. Enumerated'
    BY <1>0, <2>1, <2>2, <2>4 DEF NotiInv, NotiShape, Enumerated
  <2>11. QED BY <2>6, <2>7, <2>8, <2>9, <2>10 DEF NotiInv
<1>4. QED BY <1>1, <1>2, <1>3 DEF AN!System, AN!Client

\* A sequence of different clients in 1..n is no longer than there are clients.
LEMMA FewClients ==
    ASSUME NEW n \in Nat, NEW f, \A m \in 1..n : f[m] \in Clients,
           \A l, m \in 1..n : f[l] = f[m] => l = m
    PROVE  n <= Cardinality(Clients)
<1> DEFINE g == [m \in 1..n |-> f[m]]
<1>1. g \in Injection(1..n, Clients)
  BY DEF Injection, IsInjective
<1>2. Cardinality(1..n) = n
  BY FS_Interval
<1>3. QED BY <1>1, <1>2, FS_Injection, ClientsAssumption

\* CompressSockets and CompressEvents: what is behind idx moves one place forward.
LEMMA Compressed ==
    ASSUME NEW arr \in [AN!Indices -> AN!Sockets \cup {NoOne}], NEW idx \in Nat, NEW total \in Nat,
           total \in AN!Indices
    PROVE  /\ AN!Compress(arr, idx, total) \in [AN!Indices -> AN!Sockets \cup {NoOne}]
           /\ \A n \in 0..total - 1 : AN!Compress(arr, idx, total)[n]
                                          = IF n < idx THEN arr[n] ELSE arr[n + 1]
<1>1. Cardinality(Clients) \in Nat
  BY ArrayIndices
<1>2. \A n \in AN!Indices : n \in Nat
  BY ArrayIndices
<1>3. \A n \in 0..total - 1 : n \in AN!Indices /\ n + 1 \in AN!Indices
  BY ArrayIndices
<1>4. \A n \in idx..total - 1 : n + 1 \in AN!Indices
  BY <1>3
<1>5. AN!Compress(arr, idx, total) \in [AN!Indices -> AN!Sockets \cup {NoOne}]
  BY <1>4 DEF AN!Compress
<1>6. ASSUME NEW n \in 0..total - 1
      PROVE  AN!Compress(arr, idx, total)[n] = IF n < idx THEN arr[n] ELSE arr[n + 1]
  BY <1>2, <1>3 DEF AN!Compress
<1>7. QED BY <1>5, <1>6

\* A connection is reported and enumerated before it is accepted, and the socket
\* that is removed is the one at the index of both arrays.
LEMMA NotiServer == NotiInv /\ AN!Server => NotiInv'
<1> SUFFICES ASSUME NotiInv, AN!Server PROVE NotiInv'
  OBVIOUS
<1> USE DEF AN!arrays, AN!thread, AN!events, AN!net, AN!clients
<1>0. /\ AN!hServSock \in AN!Sockets /\ AN!hServSock \notin Clients
      /\ Cardinality(Clients) \in Nat /\ Clients \subseteq AN!Sockets
  BY ClientsAssumption, ArrayIndices DEF AN!Sockets
<1>a. AN!Filled \subseteq AN!Indices /\ 0 \in AN!Filled /\ AN!Filled \subseteq Nat
  BY ArrayIndices DEF NotiInv, NotiShape, AN!Filled
<1>1. CASE AN!Wait \/ AN!Skip
  <2>1. /\ UNCHANGED <<hSockArr, hEventArr, numOfClntSock, closed, backlog, conn, netEvents, recorded>>
        /\ i' \in Nat /\ apc' \in {"wait", "scan"}
    BY <1>1, <1>a DEF AN!Wait, AN!Skip, NotiInv, NotiShape
  <2>2. NotiShape' /\ Reports' /\ Enumerated'
    BY <2>1 DEF NotiInv, NotiShape, Reports, Enumerated
  <2>3. QED BY <2>1, <2>2, ArraysStay
<1>2. CASE AN!Enumerate
  <2>1. /\ UNCHANGED <<hSockArr, hEventArr, numOfClntSock, closed, backlog, conn, i>>
        /\ i < numOfClntSock /\ netEvents' = recorded[hSockArr[i]]
        /\ recorded' = [recorded EXCEPT ![hSockArr[i]] = {}] /\ apc' = "accept"
    BY <1>2 DEF AN!Enumerate
  <2>2. i \in AN!Filled /\ hSockArr[i] \in AN!Sockets /\ (i = 0 <=> hSockArr[i] = AN!hServSock)
    BY <1>0, <2>1 DEF NotiInv, NotiShape, Paired, AN!Filled
  <2>3. NotiShape'
    BY <2>1, <2>2 DEF NotiInv, NotiShape
  <2>4. Reports'
    BY <1>0, <2>1, <2>2 DEF NotiInv, NotiShape, Reports
  <2>5. i # 0 => hSockArr[i] \in Clients
    BY <2>2 DEF NotiInv, Paired
  <2>6. Enumerated'
    BY <1>0, <2>1, <2>2, <2>5 DEF NotiInv, NotiShape, Reports, Enumerated
  <2>7. QED BY <2>1, <2>3, <2>4, <2>6, ArraysStay
<1>3. CASE AN!AcceptError
  <2>1. /\ UNCHANGED <<hSockArr, hEventArr, numOfClntSock, closed, backlog, conn, i, netEvents, recorded>>
        /\ apc' = "ended"
    BY <1>3 DEF AN!AcceptError
  <2>2. NotiShape' /\ Reports' /\ Enumerated'
    BY <2>1 DEF NotiInv, NotiShape, Reports, Enumerated
  <2>3. QED BY <2>1, <2>2, ArraysStay
<1>4. CASE AN!Receive
  <2>1. /\ UNCHANGED <<hSockArr, hEventArr, numOfClntSock, closed, backlog, i, netEvents, recorded>>
        /\ apc = "read" /\ apc' = "close"
    BY <1>4 DEF AN!Receive
  <2>2. conn' = conn
        \/ \E reset \in SUBSET {r \in Clients : conn[r] = "fin"} :
              conn' = [r \in Clients |-> IF r \in reset THEN "rst" ELSE conn[r]]
    <3>1. CASE "FD_READ" \notin netEvents
      BY <1>4, <3>1 DEF AN!Receive
    <3>2. CASE "FD_READ" \in netEvents
      <4>1. PICK reset \in SUBSET {r \in AN!Receivers(hSockArr[i]) \ closed : conn[r] = "fin"} :
               conn' = [r \in Clients |-> IF r \in reset THEN "rst" ELSE conn[r]]
        BY <1>4, <3>2 DEF AN!Receive
      <4>2. conn' = [r \in Clients |-> IF r \in reset \cap Clients THEN "rst" ELSE conn[r]]
        BY <4>1
      <4>3. QED BY <4>1, <4>2
    <3>3. QED BY <3>1, <3>2
  <2>3. /\ conn' \in [Clients -> {"idle", "open", "fin", "rst"}]
        /\ \A d \in Clients : conn'[d] = "idle" => conn[d] = "idle"
    BY <2>2 DEF NotiInv, NotiShape
  <2>4. NotiShape' /\ Reports' /\ Enumerated'
    BY <2>1, <2>3 DEF NotiInv, NotiShape, Reports, Enumerated
  <2>5. QED BY <2>1, <2>3, <2>4, ArraysStay
<1>5. CASE AN!Accept /\ "FD_ACCEPT" \notin netEvents
  <2>1. /\ UNCHANGED <<hSockArr, hEventArr, numOfClntSock, closed, backlog, conn, i, netEvents, recorded>>
        /\ apc = "accept" /\ apc' = "read"
    BY <1>5 DEF AN!Accept
  <2>2. NotiShape' /\ Reports' /\ Enumerated'
    BY <2>1 DEF NotiInv, NotiShape, Reports, Enumerated
  <2>3. QED BY <2>1, <2>2, ArraysStay
<1>6. CASE AN!Accept /\ "FD_ACCEPT" \in netEvents
  <2>1. apc = "accept" /\ backlog # <<>> /\ "FD_ACCEPT" \notin recorded[AN!hServSock]
    BY <1>6 DEF AN!Accept, NotiInv, Enumerated
  <2>2. PICK c \in Clients : c = Head(backlog)
    BY <2>1, Taken DEF NotiInv, NotiShape
  <2>3. /\ c = backlog[1] /\ 1 \in DOMAIN backlog /\ Tail(backlog) \in Seq(Clients)
        /\ \A n \in DOMAIN Tail(backlog) :
              n + 1 \in DOMAIN backlog /\ n + 1 # 1 /\ Tail(backlog)[n] = backlog[n + 1]
        /\ DOMAIN Tail(backlog) \subseteq Int
    BY <2>1, <2>2, Taken DEF NotiInv, NotiShape
  <2>4. /\ hEventArr' = [hEventArr EXCEPT ![numOfClntSock] = c]
        /\ hSockArr' = [hSockArr EXCEPT ![numOfClntSock] = c]
        /\ numOfClntSock' = numOfClntSock + 1 /\ backlog' = Tail(backlog) /\ apc' = "read"
        /\ UNCHANGED <<i, netEvents, closed, conn>>
    BY <1>6, <2>2 DEF AN!Accept
  <2>5. recorded' = IF Len(backlog) > 1
                    THEN [recorded EXCEPT ![AN!hServSock] = @ \cup {"FD_ACCEPT"}] ELSE recorded
    BY <1>6, <2>2 DEF AN!Accept, AN!Record
  <2>6. Awaits(c) /\ c \notin closed /\ conn[c] # "idle" /\ \A n \in AN!Filled : hSockArr[n] # c
    BY <2>3 DEF Awaits, NotiInv, Comes
  <2>7. numOfClntSock < Cardinality(Clients) + 1
    <3> DEFINE f == [n \in 1..numOfClntSock |-> IF n < numOfClntSock THEN hSockArr[n] ELSE c]
    <3>1. numOfClntSock \in Nat /\ \A n \in 1..numOfClntSock : n < numOfClntSock => n \in AN!Filled /\ n # 0
      BY DEF NotiInv, NotiShape, AN!Filled
    <3>2. \A n \in 1..numOfClntSock : f[n] \in Clients
      BY <3>1 DEF NotiInv, Paired
    <3>3. \A m, n \in 1..numOfClntSock : f[m] = f[n] => m = n
      BY <2>6, <3>1 DEF NotiInv, Paired
    <3> HIDE DEF f
    <3>4. numOfClntSock <= Cardinality(Clients)
      BY <3>1, <3>2, <3>3, FewClients
    <3>5. QED BY <3>1, <3>4, ArrayIndices
  <2>8. /\ numOfClntSock \in AN!Indices /\ AN!Filled' = AN!Filled \cup {numOfClntSock}
        /\ numOfClntSock \notin AN!Filled /\ numOfClntSock # 0
    BY <1>0, <2>4, <2>7, ArrayIndices DEF NotiInv, NotiShape, AN!Filled
  <2>9. NotiShape'
    <3>1. hSockArr' \in [AN!Indices -> AN!Sockets \cup {NoOne}]
          /\ hEventArr' \in [AN!Indices -> AN!Sockets \cup {NoOne}]
      BY <1>0, <2>4 DEF NotiInv, NotiShape
    <3>2. numOfClntSock' \in 1..Cardinality(Clients) + 1
      BY <1>0, <2>4, <2>7 DEF NotiInv, NotiShape
    <3>3. recorded' \in [AN!Sockets -> SUBSET {"FD_ACCEPT", "FD_READ", "FD_CLOSE", "error"}]
      BY <1>0, <2>5 DEF NotiInv, NotiShape
    <3>4. QED BY <2>3, <2>4, <3>1, <3>2, <3>3 DEF NotiInv, NotiShape
  <2>10. \A n \in AN!Filled' : hSockArr'[n] = (IF n = numOfClntSock THEN c ELSE hSockArr[n])
                            /\ hEventArr'[n] = (IF n = numOfClntSock THEN c ELSE hEventArr[n])
    BY <1>a, <2>4, <2>8 DEF NotiInv, NotiShape
  <2>11. Paired'
    <3>1. hSockArr'[0] = AN!hServSock
      BY <1>a, <2>8, <2>10 DEF NotiInv, Paired
    <3>2. \A n \in AN!Filled' : hSockArr'[n] = hEventArr'[n] /\ hSockArr'[n] \notin closed'
      BY <2>4, <2>6, <2>8, <2>10 DEF NotiInv, Paired
    <3>3. \A n \in AN!Filled' : n # 0 => hSockArr'[n] \in Clients
      BY <2>8, <2>10 DEF NotiInv, Paired
    <3>4. \A m, n \in AN!Filled' : hSockArr'[m] = hSockArr'[n] => m = n
      BY <2>6, <2>8, <2>10 DEF NotiInv, Paired
    <3>5. QED BY <3>1, <3>2, <3>3, <3>4 DEF Paired
  <2>12. ASSUME NEW d \in Clients PROVE Comes(d)'
    <3>1. Awaits(d)' => Awaits(d) /\ d # c
      <4>1. SUFFICES ASSUME NEW n \in DOMAIN backlog', backlog'[n] = d PROVE Awaits(d) /\ d # c
        BY DEF Awaits
      <4>2. n + 1 \in DOMAIN backlog /\ n + 1 # 1 /\ backlog[n + 1] = d
        BY <2>3, <2>4, <4>1
      <4>3. QED BY <2>3, <4>2 DEF Awaits, NotiInv, Comes
    <3>2. \A m, n \in DOMAIN backlog' : backlog'[m] = d /\ backlog'[n] = d => m = n
      BY <2>3, <2>4 DEF NotiInv, Comes
    <3>3. QED BY <2>4, <2>6, <2>8, <2>10, <3>1, <3>2 DEF NotiInv, Comes
  <2>13. Len(backlog) > 1 => backlog' # <<>>
    <3>1. backlog \in Seq(Clients) /\ backlog # <<>>
      BY <2>1 DEF NotiInv, NotiShape
    <3>2. Len(Tail(backlog)) = Len(backlog) - 1 /\ Len(<<>>) = 0 /\ Len(backlog) \in Nat
      BY <3>1
    <3>3. Len(backlog) > 1 => Len(Tail(backlog)) # 0
      <4> DEFINE l == Len(backlog)
                 r == Len(Tail(backlog))
      <4>1. l \in Nat /\ r = l - 1
        BY <3>2
      <4> HIDE DEF l, r
      <4>2. l > 1 => r # 0
        BY <4>1
      <4>3. QED BY <4>2 DEF l, r
    <3>4. QED BY <2>4, <3>2, <3>3, Zenon
  <2>14. Reports'
    BY <1>0, <2>1, <2>5, <2>13 DEF NotiInv, NotiShape, Reports
  <2>15. Enumerated'
    BY <1>6, <2>1, <2>4 DEF NotiInv, NotiShape, Enumerated
  <2>16. QED BY <2>9, <2>11, <2>12, <2>14, <2>15 DEF NotiInv
<1>7. CASE AN!Close /\ ("error" \in netEvents \/ "FD_CLOSE" \notin netEvents)
  <2>1. /\ UNCHANGED <<hSockArr, hEventArr, numOfClntSock, closed, backlog, conn, recorded>>
        /\ i' \in Nat /\ apc' \in {"wait", "scan"}
    BY <1>7 DEF AN!Close, NotiInv, NotiShape
  <2>2. NotiShape' /\ Reports' /\ Enumerated'
    BY <2>1 DEF NotiInv, NotiShape, Reports, Enumerated
  <2>3. QED BY <2>1, <2>2, ArraysStay
<1>8. CASE AN!Close /\ "error" \notin netEvents /\ "FD_CLOSE" \in netEvents
  <2> DEFINE total == numOfClntSock - 1
  <2>1. /\ apc = "close" /\ closed' = closed \cup {hSockArr[i]} /\ numOfClntSock' = total
        /\ hSockArr' = AN!Compress(hSockArr, i, total) /\ hEventArr' = AN!Compress(hEventArr, i, total)
        /\ i' = i + 1 /\ apc' = "scan" /\ UNCHANGED <<recorded, backlog, conn>>
    BY <1>8 DEF AN!Close, AN!CompressSockets, AN!CompressEvents
  <2>2. i \in AN!Filled /\ i # 0 /\ hSockArr[i] \in Clients
    BY <1>8, <2>1 DEF NotiInv, NotiShape, Enumerated, Paired, AN!Filled
  <2>3. /\ total \in Nat \ {0} /\ total \in AN!Indices /\ total <= Cardinality(Clients)
        /\ AN!Filled = 0..total /\ AN!Filled' = 0..total - 1 /\ i \in 1..total
    BY <1>0, <2>1, <2>2, ArrayIndices DEF NotiInv, NotiShape, AN!Filled
  <2> HIDE DEF total
  <2>4. /\ hSockArr' \in [AN!Indices -> AN!Sockets \cup {NoOne}]
        /\ hEventArr' \in [AN!Indices -> AN!Sockets \cup {NoOne}]
        /\ \A n \in AN!Filled' : hSockArr'[n] = IF n < i THEN hSockArr[n] ELSE hSockArr[n + 1]
        /\ \A n \in AN!Filled' : hEventArr'[n] = IF n < i THEN hEventArr[n] ELSE hEventArr[n + 1]
    <3>1. /\ hSockArr \in [AN!Indices -> AN!Sockets \cup {NoOne}]
          /\ hEventArr \in [AN!Indices -> AN!Sockets \cup {NoOne}]
      BY DEF NotiInv, NotiShape
    <3>2. /\ hSockArr' \in [AN!Indices -> AN!Sockets \cup {NoOne}]
          /\ \A n \in 0..total - 1 : hSockArr'[n] = IF n < i THEN hSockArr[n] ELSE hSockArr[n + 1]
      BY <2>1, <2>3, <3>1, Compressed
    <3>3. /\ hEventArr' \in [AN!Indices -> AN!Sockets \cup {NoOne}]
          /\ \A n \in 0..total - 1 : hEventArr'[n] = IF n < i THEN hEventArr[n] ELSE hEventArr[n + 1]
      BY <2>1, <2>3, <3>1, Compressed
    <3>4. QED BY <2>3, <3>2, <3>3
  <2>5. NotiShape'
    BY <1>0, <2>1, <2>2, <2>3, <2>4 DEF NotiInv, NotiShape
  <2>6. \A n \in AN!Filled' : \E m \in AN!Filled : /\ m = (IF n < i THEN n ELSE n + 1) /\ m # i
                                    /\ hSockArr'[n] = hSockArr[m] /\ hEventArr'[n] = hEventArr[m]
    BY <2>3, <2>4
  <2>7. Paired'
    <3>1. hSockArr'[0] = AN!hServSock
      BY <2>3, <2>4 DEF NotiInv, Paired
    <3>2. \A n \in AN!Filled' : hSockArr'[n] = hEventArr'[n] /\ hSockArr'[n] \notin closed'
      BY <2>1, <2>2, <2>6 DEF NotiInv, Paired
    <3>3. \A n \in AN!Filled' : n # 0 => hSockArr'[n] \in Clients
      BY <2>3, <2>6 DEF NotiInv, Paired
    <3>4. ASSUME NEW m \in AN!Filled', NEW n \in AN!Filled', hSockArr'[m] = hSockArr'[n] PROVE m = n
      <4>1. (IF m < i THEN m ELSE m + 1) = (IF n < i THEN n ELSE n + 1)
        BY <2>6, <3>4 DEF NotiInv, Paired
      <4>2. QED BY <2>3, <4>1
    <3>5. QED BY <3>1, <3>2, <3>3, <3>4 DEF Paired
  <2>8. ASSUME NEW d \in Clients PROVE Comes(d)'
    BY <2>1, <2>2, <2>6 DEF NotiInv, Comes, Awaits
  <2>9. Reports' /\ Enumerated'
    BY <2>1 DEF NotiInv, Reports, Enumerated
  <2>10. QED BY <2>5, <2>7, <2>8, <2>9 DEF NotiInv
<1>9. QED BY <1>1, <1>2, <1>3, <1>4, <1>5, <1>6, <1>7, <1>8 DEF AN!Server

\* Every step of the four machines keeps it.
LEMMA PairsNext == PairsInv /\ [OneNext]_allVars => PairsInv'
<1> SUFFICES ASSUME PairsInv, [OneNext]_allVars PROVE PairsInv'
  OBVIOUS
<1>1. CASE Noti(AN!Next)
  <2>1. NotiInv /\ AN!Next /\ UNCHANGED machine /\ machine = "noti"
    BY <1>1 DEF Noti, PairsInv
  <2>2. NotiInv'
    BY <2>1, NotiServer, NotiClient DEF AN!Next
  <2>3. QED BY <2>1, <2>2 DEF PairsInv
<1>2. CASE Port(Next) \/ Routine(RouNext) \/ Chat(WC!Next)
  <2>1. UNCHANGED <<machine, notiOnly>> /\ machine # "noti"
    BY <1>2 DEF Port, Routine, Chat
  <2>2. QED BY <2>1 DEF PairsInv, Unused, notiOnly
<1>3. CASE UNCHANGED allVars
  <2>1. UNCHANGED <<machine, service, hSockArr, hEventArr, numOfClntSock, apc, i, netEvents>>
    BY <1>3 DEF allVars, notiOnly
  <2>2. UNCHANGED <<recorded, closed, backlog, conn>>
    BY <1>3 DEF allVars, notiOnly, vars, net
  <2>3. AN!Filled' = AN!Filled
    BY <2>1 DEF AN!Filled
  <2>4. NotiInv => NotiInv'
    BY <2>1, <2>2, <2>3 DEF NotiInv, NotiShape, Paired, Comes, Awaits, Reports, Enumerated
  <2>5. QED BY <2>1, <2>2, <2>4 DEF PairsInv, Unused
<1>4. QED BY <1>1, <1>2, <1>3 DEF OneNext

\* The invariant says it of the server with events, and of the others at the start.
LEMMA PairsFollow == PairsInv => PairsExact
<1> SUFFICES ASSUME PairsInv PROVE PairsExact
  OBVIOUS
<1>1. CASE machine = "noti"
  <2>1. 0 \in AN!Filled
    BY <1>1 DEF PairsInv, NotiInv, NotiShape, AN!Filled
  <2>2. QED BY <1>1, <2>1 DEF PairsInv, NotiInv, Paired, PairsExact, AN!PairsExact
<1>2. CASE machine # "noti"
  <2>1. AN!Filled = {0} /\ 0 \in AN!Indices
    BY <1>2, ArrayIndices DEF PairsInv, Unused, AN!Filled
  <2>2. QED BY <1>2, <2>1 DEF PairsInv, Unused, PairsExact, AN!PairsExact
<1>3. QED BY <1>1, <1>2

\* For any number of clients: while the arrays of the servers with events are
\* compacted under the scan, a socket and its event stay at one index, each once,
\* the listening one among them, and no closed one is kept.
THEOREM PairsAreExact == OneSpec => []PairsExact
<1>1. QED BY PairsInit, PairsNext, PairsFollow, PTL DEF OneSpec

-----------------------------------------------------------------------------
(* The server with completion routines: its one operation.                 *)

PostedSend(c) == sends[c] # <<>>
InQueue(c)    == \E n \in DOMAIN port : port[n].of = c
Operates(c)   == c \in recv \/ PostedSend(c) \/ InQueue(c)

\* The operation of c: a receive or a send that is posted, or a completion of one.
OneOf(c) ==
    /\ Len(sends[c]) <= 1
    /\ c \in recv => ~PostedSend(c) /\ ~InQueue(c)
    /\ PostedSend(c) => ~InQueue(c)
    /\ \A m, n \in DOMAIN port : port[m].of = c /\ port[n].of = c => m = n

\* What it refers to is there, and an open connection has one.
Served(c) ==
    /\ Operates(c) => handleInfo[c] = "live" /\ sock[c] = "open"
    /\ sock[c] = "open" => Operates(c) \/ conn[c] = "rst"

\* A connection comes to the listen queue once.
Arrives(c) ==
    /\ conn[c] = "idle" => ~Awaits(c)
    /\ conn[c] = "idle" \/ Awaits(c) => sock[c] = "none"
    /\ \A m, n \in DOMAIN backlog : backlog[m] = c /\ backlog[n] = c => m = n

\* The thread has no part of the port server's; no operation is larger than the buffer.
RouShape ==
    /\ TypeOK /\ len \in [Clients -> 1..BUF_SIZE]
    /\ \A w \in Workers : wpc[w] = "wait"
    /\ \A n \in DOMAIN port : port[n].of \in Clients /\ Len(port[n].data) <= BUF_SIZE

RouInv == RouShape /\ \A c \in Clients : OneOf(c) /\ Served(c) /\ Arrives(c)

\* Of the two servers with events and of the chat servers, nothing is used.
Idle == recv = {} /\ port = <<>> /\ \A w \in Workers : wpc[w] = "wait"

\* PortInv, with the types of the whole.
PortFull == /\ TypeOK /\ PortInv
            /\ \A n \in DOMAIN port : port[n].of \in Clients /\ Len(port[n].data) <= BUF_SIZE

ReadInv == /\ machine = "port" => PortFull
           /\ machine = "routine" => RouInv
           /\ machine \notin {"port", "routine"} => Idle

-----------------------------------------------------------------------------
(* Types of what the two echo servers share.                               *)

NetTypes ==
    /\ backlog \in Seq(Clients) /\ conn \in [Clients -> {"idle", "open", "fin", "rst"}]
    /\ inq \in [Clients -> Lines] /\ outq \in [Clients -> Lines] /\ message \in [Clients -> Lines]
    /\ str_len \in [Clients -> 0..MaxLine] /\ lines \in [Clients -> 0..MaxLines]
CallTypes ==
    /\ up \in BOOLEAN /\ accepted \in Clients \cup {NoOne}
    /\ handleInfo \in [Clients -> {"none", "live", "freed"}]
    /\ sock \in [Clients -> {"none", "open", "closed"}]
    /\ recv \subseteq Clients /\ sends \in [Clients -> Seq(Lines)] /\ port \in Seq(Completions)
WorkerTypes ==
    /\ wpc \in [Workers -> {"wait", "load", "close", "free", "send", "recv"}]
    /\ task \in [Workers -> Completions] /\ \A w \in Workers : Len(task[w].data) <= BUF_SIZE

\* The type invariant in three parts.
LEMMA TypeParts == /\ TypeOK <=> NetTypes /\ CallTypes /\ WorkerTypes
                   /\ TypeOK' <=> NetTypes' /\ CallTypes' /\ WorkerTypes'
BY DEF TypeOK, NetTypes, CallTypes, WorkerTypes

\* Parts of lines, and lines put together, are lines.
LEMMA LineParts ==
    /\ \A s \in Lines, m \in Nat : SubSeq(s, m + 1, Len(s)) \in Lines
    /\ \A s \in Lines : \A n \in 0..Len(s) : SubSeq(s, 1, n) \in Lines /\ Len(SubSeq(s, 1, n)) = n
    /\ \A s, t \in Lines : s \o t \in Lines
    /\ \A n \in 1..MaxLine : [m \in 1..n |-> m] \in Lines
    /\ <<>> \in Lines
BY SizesAssumption DEF Lines

\* What a completion is made of.
LEMMA CompletionTypes ==
    /\ \A c \in Clients \cup {NoOne}, m \in {"READ", "WRITE"}, t \in Lines :
          /\ Completion(c, m, t) \in Completions
          /\ Completion(c, m, t).of = c /\ Completion(c, m, t).rwMode = m /\ Completion(c, m, t).data = t
    /\ NoTask \in Completions /\ NoTask.data = <<>> /\ Len(NoTask.data) = 0
<1>1. <<>> \in Lines /\ Len(<<>>) = 0
  BY DEF Lines
<1>2. QED BY <1>1 DEF Completion, Completions, NoTask

\* A client moves text from its line to the connection and from there to its message.
LEMMA TypeClient ==
    ASSUME TypeOK, NEW c \in Clients, Client(c)
    PROVE  TypeOK'
<1> USE DEF main, objects, posted, workers, net, clients
<1>0. NetTypes /\ CallTypes /\ WorkerTypes
  BY TypeParts
<1>1. CallTypes' /\ WorkerTypes'
  BY <1>0 DEF Client, Connect, SendLine, ReadReply, Leave, CallTypes, WorkerTypes
<1>2. NetTypes'
  <2>1. CASE Connect(c)
    BY <1>0, <2>1 DEF Connect, NetTypes
  <2>2. CASE SendLine(c)
    <3>1. PICK n \in 1..MaxLine : /\ str_len' = [str_len EXCEPT ![c] = n]
                                  /\ inq' = [inq EXCEPT ![c] = [m \in 1..n |-> m]]
      BY <2>2 DEF SendLine
    <3>2. [m \in 1..n |-> m] \in Lines /\ <<>> \in Lines /\ n \in 0..MaxLine
      BY LineParts, SizesAssumption
    <3>3. lines' \in [Clients -> 0..MaxLines]
      BY <1>0, <2>2, SizesAssumption DEF SendLine, NetTypes
    <3>4. QED BY <1>0, <2>2, <3>1, <3>2, <3>3 DEF SendLine, NetTypes
  <2>3. CASE ReadReply(c)
    <3>1. message[c] \o outq[c] \in Lines /\ <<>> \in Lines
      BY <1>0, LineParts DEF NetTypes
    <3>2. QED BY <1>0, <2>3, <3>1 DEF ReadReply, NetTypes
  <2>4. CASE Leave(c)
    BY <1>0, <2>4, LineParts DEF Leave, NetTypes
  <2>5. QED BY <2>1, <2>2, <2>3, <2>4 DEF Client
<1>3. QED BY <1>1, <1>2, TypeParts

\* What a receive of at most n units takes and leaves.
LEMMA Received ==
    ASSUME NEW s \in Lines, NEW n \in Nat
    PROVE  /\ Min({n, Len(s)}) \in 0..Len(s) /\ Min({n, Len(s)}) <= n
           /\ SubSeq(s, 1, Min({n, Len(s)})) \in Lines
           /\ Len(SubSeq(s, 1, Min({n, Len(s)}))) = Min({n, Len(s)})
           /\ SubSeq(s, Min({n, Len(s)}) + 1, Len(s)) \in Lines
<1>1. Len(s) \in Nat
  BY DEF Lines
<1>2. /\ Min({n, Len(s)}) \in 0..Len(s) /\ Min({n, Len(s)}) <= n
      /\ Min({n, Len(s)}) \in Nat
  <2>1. \A a, b \in Nat : Min({a, b}) \in {a, b} /\ Min({a, b}) <= a /\ Min({a, b}) <= b
    BY DEF Min
  <2>2. QED BY <1>1, <2>1
<1>3. QED BY <1>2, LineParts

\* A send that ends: its text is on its way, or the connection is no longer open.
LEMMA SendDoneParts ==
    ASSUME TypeOK, NEW c \in Clients, SendDone(c)
    PROVE  /\ sends[c] # <<>> /\ sends' = [sends EXCEPT ![c] = Tail(@)]
           /\ port' = Append(port, Completion(c, "WRITE", <<>>))
           /\ UNCHANGED <<up, accepted, handleInfo, sock, recv, wpc, task, backlog, inq, clients>>
           /\ conn' \in [Clients -> {"idle", "open", "fin", "rst"}]
           /\ \A d \in Clients : /\ d # c => conn'[d] = conn[d]
                                 /\ conn[d] = "rst" => conn'[d] = "rst"
                                 /\ conn'[d] = "idle" <=> conn[d] = "idle"
                                 /\ conn'[d] = "open" <=> conn[d] = "open"
           /\ IF conn[c] = "open" THEN outq' = [outq EXCEPT ![c] = @ \o Head(sends[c])]
              ELSE outq' = outq
           /\ TypeOK'
<1> USE DEF main, objects, workers, clients
<1>0. NetTypes /\ CallTypes /\ WorkerTypes
  BY TypeParts
<1>1. /\ sends[c] # <<>> /\ sends' = [sends EXCEPT ![c] = Tail(@)]
      /\ port' = Append(port, Completion(c, "WRITE", <<>>))
      /\ UNCHANGED <<up, accepted, handleInfo, sock, recv, wpc, task, backlog, inq,
                     str_len, message, lines>>
  BY DEF SendDone
<1>2. /\ conn' \in [Clients -> {"idle", "open", "fin", "rst"}]
      /\ \A d \in Clients : /\ d # c => conn'[d] = conn[d]
                            /\ conn[d] = "rst" => conn'[d] = "rst"
                            /\ conn'[d] = "idle" <=> conn[d] = "idle"
                            /\ conn'[d] = "open" <=> conn[d] = "open"
  <2>1. CASE conn' = conn
    BY <1>0, <2>1 DEF NetTypes
  <2>2. CASE conn' # conn
    <3>1. PICK s \in {"fin", "rst"} : conn' = [conn EXCEPT ![c] = s]
      BY <2>2 DEF SendDone
    <3>2. conn[c] = "fin"
      BY <2>2 DEF SendDone
    <3>3. QED BY <1>0, <3>1, <3>2 DEF NetTypes
  <2>3. QED BY <2>1, <2>2
<1>3. IF conn[c] = "open" THEN outq' = [outq EXCEPT ![c] = @ \o Head(sends[c])]
      ELSE outq' = outq
  BY DEF SendDone
<1>4. Head(sends[c]) \in Lines /\ Tail(sends[c]) \in Seq(Lines)
  BY <1>0, <1>1, Taken DEF CallTypes
<1>5. outq[c] \o Head(sends[c]) \in Lines
  BY <1>0, <1>4, LineParts DEF NetTypes
<1>6. outq' \in [Clients -> Lines]
  BY <1>0, <1>3, <1>5 DEF NetTypes
<1>7. Completion(c, "WRITE", <<>>) \in Completions
  BY CompletionTypes, LineParts
<1>8. port' \in Seq(Completions)
  BY <1>0, <1>1, <1>7, Appended DEF CallTypes
<1>9. sends' \in [Clients -> Seq(Lines)]
  BY <1>0, <1>1, <1>4 DEF CallTypes
<1>10. TypeOK'
  BY <1>0, <1>1, <1>2, <1>6, <1>8, <1>9, TypeParts DEF NetTypes, CallTypes, WorkerTypes
<1>11. QED BY <1>1, <1>2, <1>3, <1>10

\* The steps of the completion-port server keep the types: a worker works for a client,
\* and takes no more at once than a receive did.
LEMMA TypePort == PortFull /\ Next => TypeOK' /\ \A n \in DOMAIN port' :
                                      port'[n].of \in Clients /\ Len(port'[n].data) <= BUF_SIZE
<1> SUFFICES ASSUME PortFull, Next
             PROVE  TypeOK' /\ \A n \in DOMAIN port' :
                                  port'[n].of \in Clients /\ Len(port'[n].data) <= BUF_SIZE
  OBVIOUS
<1> USE DEF main, objects, posted, workers, net, clients
<1>0. /\ TypeOK /\ NetTypes /\ CallTypes /\ WorkerTypes /\ Shape
      /\ \A n \in DOMAIN port : port[n].of \in Clients /\ Len(port[n].data) <= BUF_SIZE
  BY TypeParts DEF PortFull, PortInv
<1>1. CASE Main
  <2>1. NetTypes'
    <3>1. backlog # <<>> => Tail(backlog) \in Seq(Clients)
      BY <1>0, Taken DEF NetTypes
    <3>2. QED BY <1>0, <1>1, <3>1 DEF Main, Accept, AcceptError, FirstRecv, NetTypes
  <2>2. CallTypes'
    <3>1. backlog # <<>> => Head(backlog) \in Clients
      BY <1>0, Taken DEF NetTypes
    <3>2. CASE Accept
      BY <1>0, <3>1, <3>2 DEF Accept, CallTypes
    <3>3. CASE AcceptError
      BY <1>0, <3>3 DEF AcceptError, CallTypes
    <3>4. CASE FirstRecv
      BY <1>0, <3>4 DEF FirstRecv, PostRecv, CallTypes
    <3>5. QED BY <1>1, <3>2, <3>3, <3>4 DEF Main
  <2>3. UNCHANGED <<port, wpc, task>>
    BY <1>1 DEF Main, Accept, AcceptError, FirstRecv
  <2>4. WorkerTypes'
    BY <1>0, <2>3 DEF WorkerTypes
  <2>5. QED BY <1>0, <2>1, <2>2, <2>3, <2>4, TypeParts
<1>2. ASSUME NEW w \in Workers, Worker(w)
      PROVE  TypeOK' /\ \A n \in DOMAIN port' : port'[n].of \in Clients /\ Len(port'[n].data) <= BUF_SIZE
  <2>0. NetTypes' /\ up' \in BOOLEAN /\ accepted' \in Clients \cup {NoOne}
    BY <1>0, <1>2 DEF Worker, GetStatus, Load, CloseSocket, FreeHandle, Send, Recv, NetTypes, CallTypes
  <2>1. CASE GetStatus(w)
    <3>1. port # <<>> /\ task' = [task EXCEPT ![w] = Head(port)] /\ port' = Tail(port)
          /\ wpc' = [wpc EXCEPT ![w] = "load"] /\ UNCHANGED <<handleInfo, sock, recv, sends>>
      BY <2>1 DEF GetStatus
    <3>2. Head(port) \in Completions /\ Tail(port) \in Seq(Completions) /\ Head(port) = port[1]
          /\ 1 \in DOMAIN port
          /\ \A n \in DOMAIN Tail(port) : n + 1 \in DOMAIN port /\ Tail(port)[n] = port[n + 1]
      BY <1>0, <3>1, Taken DEF CallTypes
    <3>3. WorkerTypes'
      BY <1>0, <3>1, <3>2 DEF WorkerTypes
    <3>4. CallTypes'
      BY <1>0, <2>0, <3>1, <3>2 DEF CallTypes
    <3>5. QED BY <1>0, <2>0, <3>1, <3>2, <3>3, <3>4, TypeParts
  <2>2. CASE Load(w) \/ CloseSocket(w) \/ FreeHandle(w) \/ Send(w) \/ Recv(w)
    <3>1. wpc[w] # "wait" => task[w].of \in Clients
      BY <1>0 DEF Shape
    <3>2. wpc[w] # "wait"
      BY <2>2 DEF Load, CloseSocket, FreeHandle, Send, Recv
    <3>3. UNCHANGED port /\ task[w] \in Completions /\ task[w].data \in Lines
      BY <1>0, <2>2 DEF Load, CloseSocket, FreeHandle, Send, Recv, WorkerTypes, Completions
    <3>4. CallTypes'
      <4>1. sends' \in [Clients -> Seq(Lines)]
        <5>1. sends[task[w].of] \in Seq(Lines)
          BY <1>0, <3>1, <3>2 DEF CallTypes
        <5>2. Append(sends[task[w].of], task[w].data) \in Seq(Lines)
          BY <3>3, <5>1, Appended
        <5>3. QED BY <1>0, <2>2, <5>2 DEF Load, CloseSocket, FreeHandle, Send, Recv, CallTypes
      <4>2. recv' \subseteq Clients
        BY <1>0, <2>2, <3>1, <3>2 DEF Load, CloseSocket, FreeHandle, Send, Recv, PostRecv, CallTypes
      <4>3. handleInfo' \in [Clients -> {"none", "live", "freed"}]
        BY <1>0, <2>2 DEF Load, CloseSocket, FreeHandle, Send, Recv, CallTypes
      <4>4. sock' \in [Clients -> {"none", "open", "closed"}]
        BY <1>0, <2>2 DEF Load, CloseSocket, FreeHandle, Send, Recv, CallTypes
      <4>5. QED BY <1>0, <2>0, <3>3, <4>1, <4>2, <4>3, <4>4 DEF CallTypes
    <3>5. WorkerTypes'
      <4>1. wpc' \in [Workers -> {"wait", "load", "close", "free", "send", "recv"}]
        BY <1>0, <2>2 DEF Load, Branch, CloseSocket, FreeHandle, Send, Recv, WorkerTypes
      <4>2. \E t \in Completions : task' = [task EXCEPT ![w] = t] /\ Len(t.data) <= BUF_SIZE
        <5>1. task[w] \in Completions /\ Len(task[w].data) <= BUF_SIZE /\ task = [task EXCEPT ![w] = task[w]]
          BY <1>0 DEF WorkerTypes
        <5>2. NoTask \in Completions /\ Len(NoTask.data) <= BUF_SIZE
          BY CompletionTypes, SizesAssumption
        <5>3. Completion(task[w].of, "READ", <<>>) \in Completions
              /\ Len(Completion(task[w].of, "READ", <<>>).data) <= BUF_SIZE
          <6>1. <<>> \in Lines /\ Len(<<>>) = 0
            BY LineParts
          <6>2. QED BY <3>1, <3>2, <6>1, CompletionTypes, SizesAssumption
        <5>4. task' \in {[task EXCEPT ![w] = task[w]], [task EXCEPT ![w] = NoTask],
                         [task EXCEPT ![w] = Completion(task[w].of, "READ", <<>>)]}
          BY <2>2, <5>1 DEF Load, CloseSocket, FreeHandle, Send, Recv
        <5>5. QED BY <5>1, <5>2, <5>3, <5>4
      <4>3. QED BY <1>0, <4>1, <4>2 DEF WorkerTypes
    <3>6. QED BY <1>0, <2>0, <3>3, <3>4, <3>5, TypeParts
  <2>3. QED BY <1>2, <2>1, <2>2 DEF Worker
<1>3. ASSUME NEW c \in Clients, System(c)
      PROVE  TypeOK' /\ \A n \in DOMAIN port' : port'[n].of \in Clients /\ Len(port'[n].data) <= BUF_SIZE
  <2>1. CASE RecvDone(c)
    <3>1. /\ recv' = recv \ {c} /\ port' = Append(port, Completion(c, "READ", RecvText(c)))
          /\ inq' = [inq EXCEPT ![c] = SubSeq(@, Len(RecvText(c)) + 1, Len(@))]
          /\ UNCHANGED <<up, accepted, handleInfo, sock, sends, wpc, task, backlog, conn, outq>>
          /\ UNCHANGED <<str_len, message, lines>>
      BY <2>1 DEF RecvDone
    <3>2. inq[c] \in Lines /\ BUF_SIZE \in Nat
      BY <1>0, SizesAssumption DEF NetTypes
    <3>3. /\ RecvText(c) \in Lines /\ Len(RecvText(c)) <= BUF_SIZE
          /\ SubSeq(inq[c], Len(RecvText(c)) + 1, Len(inq[c])) \in Lines
      BY <3>2, Received, Zenon DEF RecvText
    <3>4. NetTypes'
      BY <1>0, <3>1, <3>3 DEF NetTypes
    <3>5. Completion(c, "READ", RecvText(c)) \in Completions
          /\ Completion(c, "READ", RecvText(c)).of = c
          /\ Len(Completion(c, "READ", RecvText(c)).data) <= BUF_SIZE
      BY <3>3, CompletionTypes
    <3>6. /\ port' \in Seq(Completions)
          /\ \A n \in DOMAIN port' : port'[n].of \in Clients /\ Len(port'[n].data) <= BUF_SIZE
      <4>1. /\ port' \in Seq(Completions) /\ DOMAIN port' = DOMAIN port \cup {Len(port) + 1}
            /\ port'[Len(port) + 1] = Completion(c, "READ", RecvText(c))
            /\ \A n \in DOMAIN port : port'[n] = port[n]
        BY <1>0, <3>1, <3>5, Appended DEF CallTypes
      <4>2. QED BY <1>0, <3>5, <4>1
    <3>7. CallTypes' /\ WorkerTypes'
      BY <1>0, <3>1, <3>6 DEF CallTypes, WorkerTypes
    <3>8. QED BY <3>4, <3>6, <3>7, TypeParts
  <2>2. CASE SendDone(c)
    <3>1. port' = Append(port, Completion(c, "WRITE", <<>>)) /\ TypeOK'
      BY <1>0, <2>2, SendDoneParts
    <3>2. Completion(c, "WRITE", <<>>) \in Completions
          /\ Completion(c, "WRITE", <<>>).of = c
          /\ Len(Completion(c, "WRITE", <<>>).data) <= BUF_SIZE
      <4>1. <<>> \in Lines /\ Len(<<>>) = 0
        BY LineParts
      <4>2. QED BY <4>1, CompletionTypes, SizesAssumption
    <3>3. /\ DOMAIN port' = DOMAIN port \cup {Len(port) + 1}
          /\ port'[Len(port) + 1] = Completion(c, "WRITE", <<>>)
          /\ \A n \in DOMAIN port : port'[n] = port[n]
      BY <1>0, <3>1, <3>2, Appended DEF CallTypes
    <3>4. QED BY <1>0, <3>1, <3>2, <3>3
  <2>3. QED BY <1>3, <2>1, <2>2 DEF System
<1>4. ASSUME NEW c \in Clients, Client(c)
      PROVE  TypeOK' /\ \A n \in DOMAIN port' : port'[n].of \in Clients /\ Len(port'[n].data) <= BUF_SIZE
  <2>1. UNCHANGED port
    BY <1>4 DEF Client, Connect, SendLine, ReadReply, Leave
  <2>2. QED BY <1>0, <1>4, <2>1, TypeClient
<1>5. QED BY <1>1, <1>2, <1>3, <1>4 DEF Next

\* A sequence with one entry has no tail.
LEMMA OneLong ==
    ASSUME NEW S, NEW s \in Seq(S), s # <<>>, Len(s) <= 1
    PROVE  Len(s) = 1 /\ Tail(s) = <<>>
<1> DEFINE l == Len(s)
<1>1. l \in Nat /\ l # 0 /\ l <= 1
  BY EmptySeq
<1> HIDE DEF l
<1>2. l = 1
  BY <1>1
<1> USE DEF l
<1>3. Tail(s) \in Seq(S) /\ Len(Tail(s)) = 0
  BY <1>2, HeadTailProperties
<1>4. QED BY <1>2, <1>3, EmptySeq

\* Nothing is posted at the start.
LEMMA ReadInit == OneInit => ReadInv
<1> SUFFICES ASSUME OneInit PROVE ReadInv
  OBVIOUS
<1>1. Init /\ len = [c \in Clients |-> BUF_SIZE]
  BY DEF OneInit, RouInit
<1>2. TypeOK
  <2>1. <<>> \in Lines /\ 0 \in 0..MaxLine /\ 0 \in 0..MaxLines
    BY SizesAssumption DEF Lines
  <2>2. NetTypes /\ CallTypes
    BY <1>1, <2>1 DEF Init, NetTypes, CallTypes
  <2>3. WorkerTypes
    BY <1>1, CompletionTypes, SizesAssumption DEF Init, WorkerTypes
  <2>4. QED BY <2>2, <2>3, TypeParts
<1>3. PortInv
  BY <1>1, PortInit
<1>4. PortFull
  BY <1>1, <1>2, <1>3 DEF Init, PortFull
<1>5. RouInv
  <2>1. RouShape
    BY <1>1, <1>2, SizesAssumption DEF Init, RouShape
  <2>2. ASSUME NEW c \in Clients PROVE OneOf(c) /\ Served(c) /\ Arrives(c)
    BY <1>1 DEF Init, OneOf, Served, Arrives, PostedSend, InQueue, Operates, Awaits
  <2>3. QED BY <2>1, <2>2 DEF RouInv
<1>6. Idle
  BY <1>1 DEF Init, Idle
<1>7. QED BY <1>4, <1>5, <1>6 DEF ReadInv

\* Steps that touch no operation of d: what is said of d stays.
LEMMA RouOthers ==
    ASSUME NEW d \in Clients, OneOf(d), Served(d), Arrives(d),
           sends'[d] = sends[d], d \in recv' <=> d \in recv, InQueue(d)' <=> InQueue(d),
           \A m, n \in DOMAIN port' : port'[m].of = d /\ port'[n].of = d => m = n,
           handleInfo'[d] = handleInfo[d], sock'[d] = sock[d], backlog' = backlog,
           conn[d] = "rst" => conn'[d] = "rst", conn'[d] = "idle" => conn[d] = "idle"
    PROVE  (OneOf(d) /\ Served(d) /\ Arrives(d))'
BY DEF OneOf, Served, Arrives, PostedSend, Operates, Awaits

\* The client joins the listen queue once, and moves text otherwise.
LEMMA RouClientKeeps ==
    ASSUME RouInv, NEW c \in Clients, RouClient(c)
    PROVE  RouInv'
<1> USE DEF main, objects, posted, workers, net, clients
<1>0. TypeOK /\ NetTypes /\ Client(c) /\ UNCHANGED len
  BY TypeParts DEF RouInv, RouShape, RouClient
<1>1. UNCHANGED <<handleInfo, sock, recv, sends, port, wpc>>
  BY <1>0 DEF Client, Connect, SendLine, ReadReply, Leave
<1>2. TypeOK'
  BY <1>0, TypeClient
<1>3. RouShape'
  BY <1>0, <1>1, <1>2 DEF RouInv, RouShape
<1>4. ASSUME NEW d \in Clients PROVE (OneOf(d) /\ Served(d) /\ Arrives(d))'
  <2>0. OneOf(d) /\ Served(d) /\ Arrives(d)
    BY DEF RouInv
  <2>1. CASE Connect(c)
    <3>1. conn[c] = "idle" /\ conn' = [conn EXCEPT ![c] = "open"] /\ backlog' = Append(backlog, c)
      BY <2>1 DEF Connect
    <3>2. /\ backlog' \in Seq(Clients) /\ DOMAIN backlog' = DOMAIN backlog \cup {Len(backlog) + 1}
          /\ backlog'[Len(backlog) + 1] = c /\ Len(backlog) + 1 \notin DOMAIN backlog
          /\ \A n \in DOMAIN backlog : backlog'[n] = backlog[n]
      BY <1>0, <3>1, Appended DEF NetTypes
    <3>3. /\ Awaits(d)' <=> Awaits(d) \/ d = c
          /\ conn'[d] = (IF d = c THEN "open" ELSE conn[d])
      BY <1>0, <3>1, <3>2 DEF Awaits, NetTypes
    <3>4. OneOf(d)' /\ Served(d)'
      BY <1>1, <2>0, <3>1, <3>3 DEF OneOf, Served, PostedSend, Operates, InQueue
    <3>5. \A m, n \in DOMAIN backlog' : backlog'[m] = d /\ backlog'[n] = d => m = n
      BY <2>0, <3>1, <3>2 DEF Arrives, Awaits
    <3>6. Arrives(d)'
      BY <1>1, <2>0, <3>1, <3>3, <3>5 DEF Arrives
    <3>7. QED BY <3>4, <3>6
  <2>2. CASE SendLine(c) \/ ReadReply(c) \/ Leave(c)
    <3>1. backlog' = backlog /\ (conn[d] = "rst" => conn'[d] = "rst") /\ (conn'[d] = "idle" => conn[d] = "idle")
      BY <1>0, <2>2 DEF SendLine, ReadReply, Leave, NetTypes
    <3>2. \A m, n \in DOMAIN port' : port'[m].of = d /\ port'[n].of = d => m = n
      BY <1>1, <2>0 DEF OneOf
    <3>3. InQueue(d)' <=> InQueue(d)
      BY <1>1 DEF InQueue
    <3>4. QED BY <1>1, <2>0, <3>1, <3>2, <3>3, RouOthers
  <2>3. QED BY <1>0, <2>1, <2>2 DEF Client
<1>5. QED BY <1>3, <1>4 DEF RouInv

\* What was posted is queued: the operation changes its place.
LEMMA RouSystemKeeps ==
    ASSUME RouInv, NEW c \in Clients, RouSystem(c)
    PROVE  RouInv'
<1> USE DEF main, objects, workers, clients
<1>0. /\ TypeOK /\ NetTypes /\ CallTypes /\ WorkerTypes /\ OneOf(c) /\ Served(c)
      /\ len \in [Clients -> 1..BUF_SIZE]
      /\ \A n \in DOMAIN port : port[n].of \in Clients /\ Len(port[n].data) <= BUF_SIZE
  BY TypeParts DEF RouInv, RouShape
<1>1. \E t \in Completions :
         /\ t.of = c /\ Len(t.data) <= BUF_SIZE /\ port' = Append(port, t) /\ TypeOK'
         /\ \/ c \in recv /\ recv' = recv \ {c} /\ UNCHANGED <<sends, conn>>
            \/ PostedSend(c) /\ sends' = [sends EXCEPT ![c] = Tail(@)] /\ recv' = recv
         /\ UNCHANGED <<handleInfo, sock, len, wpc, backlog>>
         /\ \A d \in Clients : /\ conn[d] = "rst" => conn'[d] = "rst"
                               /\ conn'[d] = "idle" => conn[d] = "idle"
  <2>1. CASE RouRecvDone(c)
    <3> DEFINE n == Min({len[c], Len(inq[c])})
               t == Completion(c, "READ", SubSeq(inq[c], 1, n))
    <3>1. /\ c \in recv /\ recv' = recv \ {c} /\ port' = Append(port, t)
          /\ inq' = [inq EXCEPT ![c] = SubSeq(@, n + 1, Len(@))]
          /\ UNCHANGED <<up, accepted, handleInfo, sock, sends, len, wpc, task, backlog, conn, outq>>
          /\ UNCHANGED <<str_len, message, lines>>
      BY <2>1 DEF RouRecvDone
    <3>2. inq[c] \in Lines /\ len[c] \in Nat /\ len[c] <= BUF_SIZE /\ BUF_SIZE \in Nat
      BY <1>0, SizesAssumption DEF NetTypes
    <3>3. /\ SubSeq(inq[c], 1, n) \in Lines /\ Len(SubSeq(inq[c], 1, n)) = n
          /\ n \in 0..Len(inq[c]) /\ n <= len[c]
          /\ SubSeq(inq[c], n + 1, Len(inq[c])) \in Lines
      BY <3>2, Received, Zenon
    <3> HIDE DEF n
    <3>4. t \in Completions /\ t.of = c /\ t.data = SubSeq(inq[c], 1, n)
      <4>1. c \in Clients \cup {NoOne} /\ "READ" \in {"READ", "WRITE"}
        OBVIOUS
      <4>2. \A x \in Lines : /\ Completion(c, "READ", x) \in Completions
                            /\ Completion(c, "READ", x).of = c /\ Completion(c, "READ", x).data = x
        BY <4>1, CompletionTypes
      <4>3. QED BY <3>3, <4>2
    <3>5. n <= BUF_SIZE
      <4>1. Len(inq[c]) \in Nat
        BY <3>2 DEF Lines
      <4>2. QED BY <3>2, <3>3, <4>1
    <3>6. Len(t.data) <= BUF_SIZE
      BY <3>3, <3>4, <3>5
    <3> HIDE DEF t
    <3>7. port' \in Seq(Completions)
      BY <1>0, <3>1, <3>4, Appended DEF CallTypes
    <3>8. TypeOK'
      BY <1>0, <3>1, <3>3, <3>7, TypeParts DEF NetTypes, CallTypes, WorkerTypes
    <3>9. QED BY <3>1, <3>4, <3>6, <3>8
  <2>2. CASE SendDone(c) /\ UNCHANGED len
    <3>1. <<>> \in Lines /\ Len(<<>>) = 0
      BY LineParts
    <3>2. /\ Completion(c, "WRITE", <<>>) \in Completions /\ Completion(c, "WRITE", <<>>).of = c
          /\ Len(Completion(c, "WRITE", <<>>).data) <= BUF_SIZE
      BY <3>1, CompletionTypes, SizesAssumption
    <3>3. /\ sends[c] # <<>> /\ sends' = [sends EXCEPT ![c] = Tail(@)]
          /\ port' = Append(port, Completion(c, "WRITE", <<>>)) /\ TypeOK'
          /\ UNCHANGED <<handleInfo, sock, recv, wpc, backlog>>
          /\ \A d \in Clients : /\ conn[d] = "rst" => conn'[d] = "rst"
                                /\ conn'[d] = "idle" => conn[d] = "idle"
      BY <1>0, <2>2, SendDoneParts
    <3>4. QED BY <2>2, <3>2, <3>3 DEF PostedSend
  <2>3. QED BY <2>1, <2>2 DEF RouSystem
<1>2. PICK t \in Completions :
         /\ t.of = c /\ Len(t.data) <= BUF_SIZE /\ port' = Append(port, t) /\ TypeOK'
         /\ \/ c \in recv /\ recv' = recv \ {c} /\ UNCHANGED <<sends, conn>>
            \/ PostedSend(c) /\ sends' = [sends EXCEPT ![c] = Tail(@)] /\ recv' = recv
         /\ UNCHANGED <<handleInfo, sock, len, wpc, backlog>>
         /\ \A d \in Clients : /\ conn[d] = "rst" => conn'[d] = "rst"
                               /\ conn'[d] = "idle" => conn[d] = "idle"
  BY <1>1
<1>3. /\ DOMAIN port' = DOMAIN port \cup {Len(port) + 1}
      /\ port'[Len(port) + 1] = t /\ Len(port) + 1 \notin DOMAIN port
      /\ \A n \in DOMAIN port : port'[n] = port[n]
  BY <1>0, <1>2, Appended DEF CallTypes
<1>4. RouShape'
  BY <1>0, <1>2, <1>3 DEF RouInv, RouShape
<1>5. ~InQueue(c) /\ InQueue(c)' /\ \A d \in Clients : d # c => (InQueue(d)' <=> InQueue(d))
  <2>1. ~InQueue(c)
    BY <1>0, <1>2 DEF OneOf
  <2>2. InQueue(c)'
    BY <1>2, <1>3 DEF InQueue
  <2>3. ASSUME NEW d \in Clients, d # c PROVE InQueue(d)' <=> InQueue(d)
    BY <1>2, <1>3, <2>3 DEF InQueue
  <2>4. QED BY <2>1, <2>2, <2>3
<1>6. c \notin recv' /\ ~PostedSend(c)' /\ Len(sends'[c]) <= 1
  <2>1. CASE c \in recv /\ recv' = recv \ {c} /\ UNCHANGED <<sends, conn>>
    BY <1>0, <2>1 DEF OneOf, PostedSend
  <2>2. CASE PostedSend(c) /\ sends' = [sends EXCEPT ![c] = Tail(@)] /\ recv' = recv
    <3>1. c \notin recv /\ sends[c] \in Seq(Lines) /\ sends[c] # <<>> /\ Len(sends[c]) <= 1
      BY <1>0, <2>2 DEF OneOf, PostedSend, CallTypes
    <3>2. Tail(sends[c]) = <<>>
      BY <3>1, OneLong
    <3>3. sends'[c] = <<>> /\ Len(<<>>) = 0
      BY <1>0, <2>2, <3>2 DEF CallTypes
    <3>4. QED BY <2>2, <3>1, <3>3 DEF PostedSend
  <2>3. QED BY <1>2, <2>1, <2>2
<1>7. ASSUME NEW d \in Clients PROVE (OneOf(d) /\ Served(d) /\ Arrives(d))'
  <2>0. OneOf(d) /\ Served(d) /\ Arrives(d)
    BY DEF RouInv
  <2>1. CASE d # c
    <3>1. sends'[d] = sends[d] /\ (d \in recv' <=> d \in recv)
      BY <1>0, <1>2, <2>1 DEF CallTypes
    <3>2. \A m, n \in DOMAIN port' : port'[m].of = d /\ port'[n].of = d => m = n
      BY <1>2, <1>3, <2>0, <2>1 DEF OneOf
    <3>3. QED BY <1>2, <1>5, <2>0, <2>1, <3>1, <3>2, RouOthers
  <2>2. CASE d = c
    <3>1. \A m, n \in DOMAIN port' : port'[m].of = c /\ port'[n].of = c => m = n
      BY <1>3, <1>5 DEF InQueue
    <3>2. OneOf(c)'
      BY <1>5, <1>6, <3>1 DEF OneOf
    <3>3. Operates(c) /\ Operates(c)'
      BY <1>2, <1>5 DEF Operates
    <3>4. Served(c)'
      BY <1>0, <1>2, <3>3 DEF Served
    <3>5. Arrives(c)'
      BY <1>2, <2>0, <2>2 DEF Arrives, Awaits
    <3>6. QED BY <2>2, <3>2, <3>4, <3>5
  <2>3. QED BY <2>1, <2>2
<1>8. QED BY <1>4, <1>7 DEF RouInv

\* The thread: a connection that is accepted gets its receive; a routine posts the
\* operation that follows the one it was called for, or none after the end.
LEMMA RouServerKeeps == RouInv /\ RouServer => RouInv'
<1> SUFFICES ASSUME RouInv, RouServer PROVE RouInv'
  OBVIOUS
<1> USE DEF main, objects, posted, workers, net, clients
<1>0. /\ TypeOK /\ NetTypes /\ CallTypes /\ WorkerTypes /\ len \in [Clients -> 1..BUF_SIZE]
      /\ \A n \in DOMAIN port : port[n].of \in Clients /\ Len(port[n].data) <= BUF_SIZE
      /\ \A d \in Clients : OneOf(d) /\ Served(d) /\ Arrives(d)
  BY TypeParts DEF RouInv, RouShape
<1>1. CASE AcceptError /\ UNCHANGED len
  <2>1. up' \in BOOLEAN /\ UNCHANGED <<accepted, handleInfo, sock, recv, sends, port, wpc, task, len>>
        /\ UNCHANGED <<backlog, conn, inq, outq, str_len, message, lines>>
    BY <1>1 DEF AcceptError
  <2>2. TypeOK'
    BY <1>0, <2>1, TypeParts DEF NetTypes, CallTypes, WorkerTypes
  <2>3. RouShape'
    BY <2>1, <2>2 DEF RouInv, RouShape
  <2>4. QED BY <2>1, <2>3 DEF RouInv, OneOf, Served, Arrives, PostedSend, Operates, InQueue, Awaits
<1>2. CASE RouAccept
  <2>1. PICK c \in Clients : c = Head(backlog)
    BY <1>0, <1>2, Taken DEF RouAccept, NetTypes
  <2>2. /\ c = backlog[1] /\ 1 \in DOMAIN backlog /\ backlog' \in Seq(Clients)
        /\ \A n \in DOMAIN backlog' : n + 1 \in DOMAIN backlog /\ n + 1 # 1 /\ backlog'[n] = backlog[n + 1]
        /\ DOMAIN backlog' \subseteq Int
    BY <1>0, <1>2, <2>1, Taken DEF RouAccept, NetTypes
  <2>3. /\ handleInfo' = [handleInfo EXCEPT ![c] = "live"]
        /\ sock' = [sock EXCEPT ![c] = "open"] /\ len' = [len EXCEPT ![c] = BUF_SIZE]
        /\ PostRecv(c) /\ UNCHANGED <<up, accepted, sends, port, wpc, task, conn, inq, outq>>
        /\ UNCHANGED <<str_len, message, lines>>
    BY <1>2, <2>1 DEF RouAccept
  <2>4. recv' \in {recv, recv \cup {c}} /\ (c \in recv' \/ conn[c] = "rst")
    BY <2>3 DEF PostRecv, Fails
  <2>5. TypeOK'
    <3>1. CallTypes'
      BY <1>0, <2>3, <2>4 DEF CallTypes
    <3>2. QED BY <1>0, <2>2, <2>3, <3>1, TypeParts DEF NetTypes, WorkerTypes
  <2>6. RouShape'
    <3>1. len' \in [Clients -> 1..BUF_SIZE]
      BY <1>0, <2>3, SizesAssumption
    <3>2. QED BY <1>0, <2>3, <2>5, <3>1 DEF RouInv, RouShape
  <2>7. Awaits(c) /\ sock[c] = "none" /\ conn[c] # "idle" /\ ~Operates(c)
    BY <1>0, <2>2 DEF Awaits, Arrives, Served
  <2>8. ~Awaits(c)'
    <3>1. SUFFICES ASSUME NEW n \in DOMAIN backlog', backlog'[n] = c PROVE FALSE
      BY DEF Awaits
    <3>2. n + 1 \in DOMAIN backlog /\ n + 1 # 1 /\ backlog[n + 1] = c /\ backlog[1] = c
      BY <2>2, <3>1
    <3>3. QED BY <1>0, <2>2, <3>2 DEF Arrives
  <2>9. ASSUME NEW d \in Clients PROVE (OneOf(d) /\ Served(d) /\ Arrives(d))'
    <3>1. (PostedSend(d)' <=> PostedSend(d)) /\ (InQueue(d)' <=> InQueue(d))
      BY <2>3 DEF PostedSend, InQueue
    <3>2. OneOf(d)'
      BY <1>0, <2>3, <2>4, <2>7, <3>1 DEF OneOf, Operates
    <3>3. \A m, n \in DOMAIN backlog' : backlog'[m] = d /\ backlog'[n] = d => m = n
      BY <1>0, <2>2 DEF Arrives
    <3>4. Awaits(d)' => Awaits(d)
      BY <2>2 DEF Awaits
    <3>5. CASE d = c
      BY <1>0, <2>3, <2>4, <2>7, <2>8, <3>1, <3>2, <3>3, <3>5 DEF Served, Arrives, Operates, CallTypes
    <3>6. CASE d # c
      <4>1. handleInfo'[d] = handleInfo[d] /\ sock'[d] = sock[d] /\ (d \in recv' <=> d \in recv)
        BY <1>0, <2>3, <2>4, <3>6 DEF CallTypes
      <4>2. QED BY <1>0, <2>3, <3>1, <3>2, <3>3, <3>4, <4>1 DEF Served, Arrives, Operates
    <3>7. QED BY <3>5, <3>6
  <2>10. QED BY <2>6, <2>9 DEF RouInv
<1>3. CASE SleepEx
  <2>1. /\ port # <<>> /\ port' = Tail(port)
        /\ IF Head(port).rwMode = "READ" THEN ReadCompRoutine(Head(port).of, Head(port).data)
           ELSE WriteCompRoutine(Head(port).of)
        /\ UNCHANGED <<up, accepted, wpc, task, backlog, conn, inq, outq, str_len, message, lines>>
    BY <1>3 DEF SleepEx
  <2>2. /\ Head(port) = port[1] /\ 1 \in DOMAIN port /\ Tail(port) \in Seq(Completions)
        /\ Head(port) \in Completions
        /\ \A n \in DOMAIN Tail(port) : n + 1 \in DOMAIN port /\ n + 1 # 1 /\ Tail(port)[n] = port[n + 1]
        /\ \A n \in DOMAIN port : n = 1 \/ (n - 1 \in DOMAIN Tail(port) /\ Tail(port)[n - 1] = port[n])
        /\ DOMAIN Tail(port) \subseteq Int
    BY <1>0, <2>1, Taken DEF CallTypes
  <2>3. PICK c \in Clients : c = Head(port).of
    BY <1>0, <2>2
  <2>4. PICK data \in Lines : data = Head(port).data
    BY <2>2 DEF Completions
  <2>5. Len(data) <= BUF_SIZE
    BY <1>0, <2>2, <2>4
  <2>6. InQueue(c) /\ c \notin recv /\ ~PostedSend(c) /\ handleInfo[c] = "live" /\ sock[c] = "open"
        /\ conn[c] # "idle"
    <3>1. InQueue(c)
      BY <2>2, <2>3 DEF InQueue
    <3>2. c \notin recv /\ ~PostedSend(c)
      BY <1>0, <3>1 DEF OneOf
    <3>3. handleInfo[c] = "live" /\ sock[c] = "open"
      BY <1>0, <3>1 DEF Served, Operates
    <3>4. conn[c] # "idle"
      BY <1>0, <3>3 DEF Arrives
    <3>5. QED BY <3>1, <3>2, <3>3, <3>4
  <2>7. ~InQueue(c)' /\ \A d \in Clients : d # c => (InQueue(d)' <=> InQueue(d))
    <3>1. ~InQueue(c)'
      <4>1. SUFFICES ASSUME NEW n \in DOMAIN port', port'[n].of = c PROVE FALSE
        BY DEF InQueue
      <4>2. n + 1 \in DOMAIN port /\ n + 1 # 1 /\ port[n + 1].of = c /\ port[1].of = c
        BY <2>1, <2>2, <2>3, <4>1
      <4>3. QED BY <1>0, <2>2, <4>2 DEF OneOf
    <3>2. ASSUME NEW d \in Clients, d # c PROVE InQueue(d)' <=> InQueue(d)
      <4>1. InQueue(d)' => InQueue(d)
        BY <2>1, <2>2 DEF InQueue
      <4>2. ASSUME NEW n \in DOMAIN port, port[n].of = d PROVE InQueue(d)'
        <5>1. n # 1
          BY <2>2, <2>3, <3>2, <4>2
        <5>2. n - 1 \in DOMAIN port' /\ port'[n - 1].of = d
          BY <2>1, <2>2, <4>2, <5>1
        <5>3. QED BY <5>2 DEF InQueue
      <4>3. QED BY <4>1, <4>2 DEF InQueue
    <3>3. QED BY <3>1, <3>2
  <2>8. /\ \/ /\ sends' = sends /\ recv' \in {recv, recv \cup {c}} /\ (c \in recv' \/ conn[c] = "rst")
              /\ UNCHANGED <<handleInfo, sock>>
           \/ /\ sends' = [sends EXCEPT ![c] = Append(@, data)] /\ recv' = recv
              /\ UNCHANGED <<handleInfo, sock>>
           \/ /\ conn[c] = "rst" /\ UNCHANGED <<sends, recv, handleInfo, sock>>
           \/ /\ sock' = [sock EXCEPT ![c] = "closed"] /\ handleInfo' = [handleInfo EXCEPT ![c] = "freed"]
              /\ UNCHANGED <<sends, recv>>
        /\ len' = len \/ (data # <<>> /\ len' = [len EXCEPT ![c] = Len(data)])
    BY <2>1, <2>3, <2>4 DEF ReadCompRoutine, WriteCompRoutine, PostRecv, Fails
  <2>9. TypeOK'
    <3>1. sends[c] \in Seq(Lines) /\ Append(sends[c], data) \in Seq(Lines)
      BY <1>0, Appended DEF CallTypes
    <3>2. CallTypes'
      <4>1. sends' \in [Clients -> Seq(Lines)] /\ recv' \subseteq Clients
        BY <1>0, <2>8, <3>1 DEF CallTypes
      <4>2. /\ handleInfo' \in [Clients -> {"none", "live", "freed"}]
            /\ sock' \in [Clients -> {"none", "open", "closed"}]
        BY <1>0, <2>8 DEF CallTypes
      <4>3. QED BY <1>0, <2>1, <2>2, <4>1, <4>2 DEF CallTypes
    <3>3. QED BY <1>0, <2>1, <3>2, TypeParts DEF NetTypes, WorkerTypes
  <2>10. RouShape'
    <3>1. data # <<>> => Len(data) \in 1..BUF_SIZE
      <4>1. data # <<>> => Len(data) \in Nat /\ Len(data) # 0
        BY DEF Lines
      <4>2. QED BY <2>5, <4>1, SizesAssumption
    <3>2. len' \in [Clients -> 1..BUF_SIZE]
      BY <1>0, <2>8, <3>1
    <3>3. \A n \in DOMAIN port' : port'[n].of \in Clients /\ Len(port'[n].data) <= BUF_SIZE
      BY <1>0, <2>1, <2>2
    <3>4. QED BY <2>1, <2>9, <3>2, <3>3 DEF RouInv, RouShape
  <2>11. ASSUME NEW d \in Clients PROVE (OneOf(d) /\ Served(d) /\ Arrives(d))'
    <3>1. \A m, n \in DOMAIN port' : port'[m].of = d /\ port'[n].of = d => m = n
      BY <1>0, <2>1, <2>2 DEF OneOf
    <3>2. CASE d # c
      <4>1. /\ sends'[d] = sends[d] /\ (d \in recv' <=> d \in recv)
            /\ handleInfo'[d] = handleInfo[d] /\ sock'[d] = sock[d]
        BY <1>0, <2>8, <3>2 DEF CallTypes
      <4>2. QED BY <1>0, <2>1, <2>7, <3>1, <3>2, <4>1, RouOthers
    <3>3. CASE d = c
      <4>1. Arrives(c)'
        BY <1>0, <2>1, <2>6 DEF Arrives, Awaits
      <4>2. Len(sends[c]) = 0
        BY <1>0, <2>6 DEF PostedSend, CallTypes
      <4>3. CASE sends' = sends
        <5>1. ~PostedSend(c)' /\ Len(sends'[c]) <= 1
          BY <2>6, <4>2, <4>3 DEF PostedSend
        <5>2. OneOf(c)'
          BY <2>7, <3>1, <3>3, <5>1 DEF OneOf
        <5>3. Served(c)'
          <6>1. CASE UNCHANGED <<handleInfo, sock>>
            <7>1. sock' # [sock EXCEPT ![c] = "closed"]
              BY <1>0, <2>6, <6>1 DEF CallTypes
            <7>2. c \in recv' \/ conn[c] = "rst"
              <8>1. Append(sends[c], data) # sends[c] /\ sends[c] \in Seq(Lines)
                BY <1>0, <4>2 DEF CallTypes
              <8>2. sends' # [sends EXCEPT ![c] = Append(@, data)]
                BY <1>0, <4>3, <8>1 DEF CallTypes
              <8>3. QED BY <2>8, <7>1, <8>2
            <7>3. QED BY <2>1, <2>6, <6>1, <7>2 DEF Served, Operates
          <6>2. CASE recv' = recv /\ sock' = [sock EXCEPT ![c] = "closed"]
            BY <1>0, <2>6, <2>7, <5>1, <6>2 DEF Served, Operates, CallTypes
          <6>3. CASE sends' # sends
            BY <4>3, <6>3
          <6>4. QED BY <2>8, <6>1, <6>2, <6>3
        <5>4. QED BY <3>3, <4>1, <5>2, <5>3
      <4>4. CASE /\ sends' = [sends EXCEPT ![c] = Append(@, data)] /\ recv' = recv
                 /\ UNCHANGED <<handleInfo, sock>>
        <5>1. Append(sends[c], data) \in Seq(Lines) /\ Len(Append(sends[c], data)) = 1
          BY <1>0, <4>2 DEF CallTypes
        <5>2. sends'[c] = Append(sends[c], data)
          BY <1>0, <4>4 DEF CallTypes
        <5>3. PostedSend(c)' /\ Len(sends'[c]) <= 1
          BY <5>1, <5>2 DEF PostedSend
        <5>4. OneOf(c)' /\ Served(c)'
          BY <2>6, <2>7, <3>1, <3>3, <4>4, <5>3 DEF OneOf, Served, Operates
        <5>5. QED BY <3>3, <4>1, <5>4
      <4>5. QED BY <2>8, <4>3, <4>4
    <3>4. QED BY <3>2, <3>3
  <2>12. QED BY <2>10, <2>11 DEF RouInv
<1>4. QED BY <1>1, <1>2, <1>3 DEF RouServer

\* Every step of the four machines keeps it.
LEMMA ReadNext == ReadInv /\ [OneNext]_allVars => ReadInv'
<1> SUFFICES ASSUME ReadInv, [OneNext]_allVars PROVE ReadInv'
  OBVIOUS
<1>1. CASE Port(Next)
  <2>1. machine = "port" /\ machine' = machine /\ Next /\ PortFull
    BY <1>1 DEF Port, ReadInv
  <2>2. PortFull'
    BY <2>1, TypePort, PortNext DEF PortFull
  <2>3. QED BY <2>1, <2>2 DEF ReadInv
<1>2. CASE Routine(RouNext)
  <2>1. machine = "routine" /\ machine' = machine /\ RouNext /\ RouInv
    BY <1>2 DEF Routine, ReadInv
  <2>2. RouInv'
    BY <2>1, RouServerKeeps, RouSystemKeeps, RouClientKeeps DEF RouNext
  <2>3. QED BY <2>1, <2>2 DEF ReadInv
<1>3. CASE Noti(AN!Next) \/ Chat(WC!Next)
  <2>1. machine \notin {"port", "routine"} /\ UNCHANGED <<machine, recv, port, wpc>>
    BY <1>3 DEF Noti, Chat, portOnly, posted, workers
  <2>2. QED BY <2>1 DEF ReadInv, Idle
<1>4. CASE UNCHANGED allVars
  <2>1. /\ UNCHANGED <<machine, len, vars, up, accepted, handleInfo, sock, recv, sends, port, wpc, task>>
        /\ UNCHANGED <<backlog, conn, inq, outq, str_len, message, lines>>
    BY <1>4 DEF allVars, vars, main, objects, posted, workers, net, clients
  <2>2. TypeOK => TypeOK'
    BY <2>1, TypeParts DEF NetTypes, CallTypes, WorkerTypes
  <2>3. PortFull => PortFull'
    BY <2>1, <2>2, PortNext DEF PortFull
  <2>4. RouInv => RouInv'
    BY <2>1, <2>2 DEF RouInv, RouShape, OneOf, Served, Arrives, PostedSend, InQueue, Operates, Awaits
  <2>5. QED BY <2>1, <2>3, <2>4 DEF ReadInv, Idle
<1>5. QED BY <1>1, <1>2, <1>3, <1>4 DEF OneNext

\* With one place at most, the sum of the three numbers says whether there is one.
LEMMA CountOperations ==
    ASSUME RouInv, NEW c \in Clients
    PROVE  Operations(c) = IF Operates(c) THEN 1 ELSE 0
<1>1. OneOf(c) /\ sends[c] \in Seq(Lines)
  BY TypeParts DEF RouInv, RouShape, CallTypes
<1>2. Cardinality(recv \cap {c}) = IF c \in recv THEN 1 ELSE 0
  <2>1. \A x, y \in recv \cap {c} : x = y
    OBVIOUS
  <2>2. QED BY <2>1, CountOfOne
<1>3. Len(sends[c]) = IF PostedSend(c) THEN 1 ELSE 0
  <2>1. CASE PostedSend(c)
    BY <1>1, <2>1, OneLong DEF PostedSend, OneOf
  <2>2. CASE ~PostedSend(c)
    <3>1. sends[c] = <<>> /\ Len(<<>>) = 0
      BY <2>2 DEF PostedSend
    <3>2. QED BY <2>2, <3>1
  <2>3. QED BY <2>1, <2>2
<1>4. Cardinality({n \in DOMAIN port : port[n].of = c}) = IF InQueue(c) THEN 1 ELSE 0
  <2>1. \A m, n \in {n \in DOMAIN port : port[n].of = c} : m = n
    BY <1>1 DEF OneOf
  <2>2. {n \in DOMAIN port : port[n].of = c} # {} <=> InQueue(c)
    BY DEF InQueue
  <2>3. QED BY <2>1, <2>2, CountOfOne
<1>5. QED BY <1>1, <1>2, <1>3, <1>4 DEF Operations, Operates, OneOf

\* The invariant says of each server what it promises.
LEMMA ReadFollow == ReadInv => OneRead /\ FreedNotUsed
<1> SUFFICES ASSUME ReadInv PROVE OneRead /\ FreedNotUsed
  OBVIOUS
<1>1. CASE machine = "port"
  BY <1>1, PortReceive, PortFreed DEF ReadInv, PortFull, OneRead
<1>2. CASE machine = "routine"
  <2>1. RouInv /\ TypeOK /\ len \in [Clients -> 1..BUF_SIZE]
    BY <1>2 DEF ReadInv, RouInv, RouShape
  <2>2. ASSUME NEW c \in Clients
        PROVE  /\ Operations(c) <= 1 /\ (Operations(c) = 1 => handleInfo[c] = "live")
               /\ (sock[c] = "open" => Operations(c) = 1 \/ conn[c] = "rst")
               /\ len[c] \in 1..BUF_SIZE
    BY <2>1, CountOperations DEF RouInv, Served
  <2>3. OneOperation
    BY <2>2 DEF OneOperation
  <2>4. ASSUME NEW c \in Clients, Receives(c) > 0
        PROVE  handleInfo[c] = "live" /\ sock[c] = "open"
    <3>1. HandledReads(c) = {}
      BY <2>1 DEF RouInv, RouShape, HandledReads
    <3>2. ~(recv \cap {c} = {} /\ QueuedReads(c) = {})
      <4>1. SUFFICES ASSUME recv \cap {c} = {}, QueuedReads(c) = {} PROVE FALSE
        OBVIOUS
      <4>2. Receives(c) = 0
        BY <3>1, <4>1, FS_EmptySet DEF Receives
      <4>3. QED BY <2>4, <4>2
    <3>3. c \in recv \/ InQueue(c)
      BY <3>2 DEF QueuedReads, InQueue, IsRead
    <3>4. QED BY <2>1, <3>3 DEF RouInv, Served, Operates
  <2>5. FreedNotUsed
    BY <2>4 DEF FreedNotUsed
  <2>6. QED BY <1>2, <2>1, <2>3, <2>5 DEF OneRead
<1>3. CASE machine \notin {"port", "routine"}
  <2>1. ASSUME NEW c \in Clients PROVE Receives(c) = 0
    <3>1. recv = {} /\ DOMAIN port = {} /\ \A w \in Workers : wpc[w] = "wait"
      BY <1>3 DEF ReadInv, Idle
    <3>2. recv \cap {c} = {} /\ QueuedReads(c) = {} /\ HandledReads(c) = {}
      BY <3>1 DEF QueuedReads, HandledReads
    <3>3. QED BY <3>2, FS_EmptySet DEF Receives
  <2>2. QED BY <1>3, <2>1 DEF OneRead, Echoing, FreedNotUsed
<1>4. QED BY <1>1, <1>2, <1>3

\* For any numbers of clients and workers and any sizes: a connection of the
\* completion-port server has one receive, and one of the server with completion
\* routines one operation, posted or completed, as long as it is open and not reset.
THEOREM ReadIsOne == OneSpec => []OneRead
<1>1. QED BY ReadInit, ReadNext, ReadFollow, PTL DEF OneSpec

\* For both: a completed receive finds its handleInfo live and its socket open.
THEOREM FreedIsNotUsed == OneSpec => []FreedNotUsed
<1>1. QED BY ReadInit, ReadNext, ReadFollow, PTL DEF OneSpec

-----------------------------------------------------------------------------
(* The text of a line: in the message, on its way back, in a send, with a  *)
(* worker, in the queue, or unread.                                        *)

\* The text that the entries in S hold, of which there is one at most.
PickText(S, f) == IF S = {} THEN <<>> ELSE f[CHOOSE e \in S : TRUE].data

ReadsIn(p, c) == {n \in DOMAIN p : IsRead(p[n], c)}
QText(p, c)   == PickText(ReadsIn(p, c), p)
WText(c)      == PickText(HandledReads(c), task)

Joint(m, o, s, w, q, u) == m \o o \o (s \o w \o q) \o u
Upto(n) == [j \in 1..n |-> j]

\* The line of c, whole and in order.
InOrder(c) == Joint(message[c], outq[c], FlattenSeq(sends[c]), WText(c), QText(port, c), inq[c])
                  = Upto(str_len[c])
TextsOk ==
    /\ \A c \in Clients : conn[c] \in {"idle", "open"} => InOrder(c)
    /\ \A w \in Workers : wpc[w] \in {"close", "free", "recv"} => task[w].data = <<>>
LineInv == Echoing => TextsOk

\* What it says is EchoIntact.
LEMMA HeldParts == \A c \in Clients :
    message[c] \o outq[c] \o Held(c) \o inq[c] =
        Joint(message[c], outq[c], FlattenSeq(sends[c]), WText(c), QText(port, c), inq[c])
BY DEF Held, Joint, WText, QText, PickText, ReadsIn, QueuedReads

\* Joining texts is associative.
Associates(x, y, z) == (x \o y) \o z = x \o (y \o z)
LEMMA LinesAssociate == \A x, y, z \in Lines : Associates(x, y, z)
BY DEF Lines, Associates

\* Text that moves from one part to the next leaves the whole as it is.
ToMessage(m, o, s, w, q, u)   == Joint(m, o, s, w, q, u) = Joint(m \o o, <<>>, s, w, q, u)
ToReturn(m, o, t, s, w, q, u) == Joint(m, o, t \o s, w, q, u) = Joint(m, o \o t, s, w, q, u)
ToSends(m, o, s, t, u)        == Joint(m, o, s, t, <<>>, u) = Joint(m, o, s \o t, <<>>, <<>>, u)
ToWorker(m, o, s, t, u)       == Joint(m, o, s, <<>>, t, u) = Joint(m, o, s, t, <<>>, u)
ToQueue(m, o, s, w, t, u)     == Joint(m, o, s, w, <<>>, t \o u) = Joint(m, o, s, w, t, u)
LEMMA JointMoves ==
    ASSUME NEW m \in Lines, NEW o \in Lines, NEW s \in Lines, NEW t \in Lines, NEW u \in Lines
    PROVE  /\ ToWorker(m, o, s, t, u) /\ ToSends(m, o, s, t, u)
           /\ \A w, q \in Lines : ToReturn(m, o, t, s, w, q, u) /\ ToMessage(m, o, s, w, q, u)
           /\ \A w \in Lines : ToQueue(m, o, s, w, t, u)
<1>1. \A x, y \in Lines : x \o y \in Lines
  BY LineParts
<1>2. \A x, y, z \in Lines : Associates(x, y, z)
  BY LinesAssociate
<1>3. <<>> \in Lines /\ \A x \in Lines : x \o <<>> = x /\ <<>> \o x = x
  BY DEF Lines
<1>4. Joint(m, o, s, <<>>, t, u) = Joint(m, o, s, t, <<>>, u)
  <2>1. s \o <<>> \o t = s \o t \o <<>>
    BY <1>1, <1>3
  <2>2. QED BY <2>1 DEF Joint
<1>5. Joint(m, o, s, t, <<>>, u) = Joint(m, o, s \o t, <<>>, <<>>, u)
  <2>1. s \o t \o <<>> = (s \o t) \o <<>> \o <<>>
    BY <1>1, <1>3
  <2>2. QED BY <2>1 DEF Joint
<1>6. ASSUME NEW w \in Lines, NEW q \in Lines
      PROVE  Joint(m, o, t \o s, w, q, u) = Joint(m, o \o t, s, w, q, u)
  <2>1. s \o w \in Lines /\ s \o w \o q \in Lines /\ m \o o \in Lines
    BY <1>1
  <2>2. Associates(t, s, w) /\ Associates(t, s \o w, q)
    BY <1>2, <2>1
  <2>3. Associates(m \o o, t, s \o w \o q) /\ Associates(m, o, t)
    BY <1>2, <2>1
  <2>4. QED BY <2>2, <2>3, Zenon DEF Joint, Associates
<1>7. ASSUME NEW w \in Lines
      PROVE  Joint(m, o, s, w, <<>>, t \o u) = Joint(m, o, s, w, t, u)
  <2>1. s \o w \o <<>> = s \o w /\ s \o w \in Lines /\ m \o o \in Lines
    BY <1>1, <1>3
  <2>2. (m \o o) \o (s \o w) \in Lines
    BY <1>1, <2>1
  <2>3. Associates((m \o o) \o (s \o w), t, u) /\ Associates(m \o o, s \o w, t)
    BY <1>2, <2>1, <2>2
  <2>4. QED BY <2>1, <2>3, Zenon DEF Joint, Associates
<1>8. ASSUME NEW w \in Lines, NEW q \in Lines
      PROVE  Joint(m, o, s, w, q, u) = Joint(m \o o, <<>>, s, w, q, u)
  <2>1. (m \o o) \o <<>> = m \o o
    BY <1>1, <1>3
  <2>2. QED BY <2>1, Zenon DEF Joint
<1>9. QED BY <1>4, <1>5, <1>6, <1>7, <1>8 DEF ToMessage, ToReturn, ToSends, ToWorker, ToQueue

Spent(o, s, w, q, u) == o = <<>> /\ s = <<>> /\ w = <<>> /\ q = <<>> /\ u = <<>>

\* When the message is as long as the line, everything else is empty.
LEMMA JointWhole ==
    ASSUME NEW m \in Lines, NEW o \in Lines, NEW s \in Lines, NEW w \in Lines, NEW q \in Lines,
           NEW u \in Lines, NEW n \in Nat, Joint(m, o, s, w, q, u) = Upto(n), ~(Len(m) < n)
    PROVE  Spent(o, s, w, q, u)
<1>1. \A x, y \in Lines : x \o y \in Lines /\ Len(x \o y) = Len(x) + Len(y)
  BY DEF Lines
<1>2. \A x \in Lines : Len(x) \in Nat /\ (Len(x) = 0 => x = <<>>)
  BY DEF Lines
<1>3. Len(Upto(n)) = n
  BY DEF Upto
<1>4. Len(Joint(m, o, s, w, q, u)) = Len(m) + Len(o) + (Len(s) + Len(w) + Len(q)) + Len(u)
  <2>1. m \o o \in Lines /\ Len(m \o o) = Len(m) + Len(o)
    BY <1>1
  <2>2. s \o w \in Lines /\ Len(s \o w) = Len(s) + Len(w)
    BY <1>1
  <2>3. s \o w \o q \in Lines /\ Len(s \o w \o q) = Len(s) + Len(w) + Len(q)
    BY <1>1, <2>2
  <2>4. m \o o \o (s \o w \o q) \in Lines
        /\ Len(m \o o \o (s \o w \o q)) = Len(m) + Len(o) + (Len(s) + Len(w) + Len(q))
    BY <1>1, <2>1, <2>3
  <2>5. QED BY <1>1, <2>4 DEF Joint
<1>5. Len(o) = 0 /\ Len(s) = 0 /\ Len(w) = 0 /\ Len(q) = 0 /\ Len(u) = 0
  <2>1. Len(m) \in Nat /\ Len(o) \in Nat /\ Len(s) \in Nat /\ Len(w) \in Nat /\ Len(q) \in Nat /\ Len(u) \in Nat
    BY <1>2
  <2>2. Len(m) + Len(o) + (Len(s) + Len(w) + Len(q)) + Len(u) = n
    BY <1>3, <1>4
  <2>3. QED BY <2>1, <2>2
<1>6. QED BY <1>2, <1>5 DEF Spent

\* One entry or none.
LEMMA Picked ==
    /\ \A f : PickText({}, f) = <<>>
    /\ \A e, f : PickText({e}, f) = f[e].data
    /\ \A S, f, g : (\A e \in S : f[e].data = g[e].data) => PickText(S, f) = PickText(S, g)
<1>1. \A f : PickText({}, f) = <<>>
  BY DEF PickText
<1>2. ASSUME NEW e, NEW f PROVE PickText({e}, f) = f[e].data
  <2>1. (CHOOSE x \in {e} : TRUE) = e
    OBVIOUS
  <2>2. QED BY <2>1 DEF PickText
<1>3. ASSUME NEW S, NEW f, NEW g, \A e \in S : f[e].data = g[e].data
      PROVE  PickText(S, f) = PickText(S, g)
  <2>1. CASE S = {}
    BY <2>1 DEF PickText
  <2>2. CASE S # {}
    <3>1. (CHOOSE x \in S : TRUE) \in S
      BY <2>2
    <3>2. QED BY <1>3, <2>2, <3>1 DEF PickText
  <2>3. QED BY <2>1, <2>2
<1>4. QED BY <1>1, <1>2, <1>3

\* A completion at the end of the queue, and one taken from its head.
LEMMA QueueAppend ==
    ASSUME NEW p \in Seq(Completions), NEW e \in Completions, NEW c
    PROVE  /\ ~IsRead(e, c) => QText(Append(p, e), c) = QText(p, c)
           /\ IsRead(e, c) /\ ReadsIn(p, c) = {} =>
                 QText(Append(p, e), c) = e.data /\ QText(p, c) = <<>>
<1> DEFINE r == Append(p, e)
           L == Len(p) + 1
<1>1. DOMAIN r = DOMAIN p \cup {L} /\ r[L] = e /\ L \notin DOMAIN p /\ \A j \in DOMAIN p : r[j] = p[j]
  BY Appended
<1> HIDE DEF r, L
<1>2. CASE ~IsRead(e, c)
  <2>1. ReadsIn(r, c) = ReadsIn(p, c)
    BY <1>1, <1>2 DEF ReadsIn
  <2>2. \A j \in ReadsIn(p, c) : r[j].data = p[j].data
    BY <1>1 DEF ReadsIn
  <2>3. PickText(ReadsIn(p, c), r) = PickText(ReadsIn(p, c), p)
    BY <2>2, Picked
  <2>4. QED BY <1>2, <2>1, <2>3 DEF r, QText
<1>3. CASE IsRead(e, c) /\ ReadsIn(p, c) = {}
  <2>1. ReadsIn(r, c) = {L}
    BY <1>1, <1>3 DEF ReadsIn
  <2>2. QText(r, c) = e.data
    BY <1>1, <2>1, Picked, Zenon DEF QText
  <2>3. QText(p, c) = <<>>
    BY <1>3, Picked, Zenon DEF QText
  <2>4. QED BY <1>3, <2>2, <2>3 DEF r
<1>4. QED BY <1>2, <1>3

\* The head of the queue goes, and with it the text of its connection.
LEMMA QueueTail ==
    ASSUME NEW p \in Seq(Completions), p # <<>>, NEW c, \A m, n \in ReadsIn(p, c) : m = n
    PROVE  /\ ~IsRead(Head(p), c) => QText(Tail(p), c) = QText(p, c)
           /\ IsRead(Head(p), c) => QText(p, c) = Head(p).data /\ QText(Tail(p), c) = <<>>
<1> DEFINE r == Tail(p)
<1>1. /\ Head(p) = p[1] /\ 1 \in DOMAIN p
      /\ \A j \in DOMAIN r : j + 1 \in DOMAIN p /\ j + 1 # 1 /\ r[j] = p[j + 1]
      /\ \A j \in DOMAIN p : j = 1 \/ (j - 1 \in DOMAIN r /\ r[j - 1] = p[j])
      /\ DOMAIN r \subseteq Int /\ DOMAIN p \subseteq Int
  BY Taken
<1> HIDE DEF r
<1>2. CASE IsRead(Head(p), c)
  <2>1. ReadsIn(p, c) = {1}
    BY <1>1, <1>2 DEF ReadsIn
  <2>2. ASSUME NEW j \in ReadsIn(r, c) PROVE FALSE
    <3>1. j + 1 \in ReadsIn(p, c) /\ j + 1 # 1
      BY <1>1, <2>2 DEF ReadsIn
    <3>2. QED BY <2>1, <3>1
  <2>3. ReadsIn(r, c) = {}
    BY <2>2
  <2>4. QText(p, c) = p[1].data /\ QText(r, c) = <<>>
    BY <2>1, <2>3, Picked, Zenon DEF QText
  <2>5. QED BY <1>1, <1>2, <2>4 DEF r
<1>3. CASE ~IsRead(Head(p), c)
  <2>1. CASE ReadsIn(p, c) = {}
    <3>1. ReadsIn(r, c) = {}
      BY <1>1, <2>1 DEF ReadsIn
    <3>2. QText(p, c) = <<>> /\ QText(r, c) = <<>>
      BY <2>1, <3>1, Picked, Zenon DEF QText
    <3>3. QED BY <1>3, <3>2 DEF r
  <2>2. CASE ReadsIn(p, c) # {}
    <3>1. PICK j \in ReadsIn(p, c) : TRUE
      BY <2>2
    <3>2. ReadsIn(p, c) = {j}
      BY <3>1
    <3>3. j \in Int /\ j # 1 /\ j - 1 \in DOMAIN r /\ r[j - 1] = p[j] /\ IsRead(p[j], c)
      BY <1>1, <1>3, <3>1 DEF ReadsIn
    <3>4. ASSUME NEW l \in ReadsIn(r, c) PROVE l = j - 1
      <4>1. l + 1 \in ReadsIn(p, c) /\ l \in Int
        BY <1>1, <3>4 DEF ReadsIn
      <4>2. l + 1 = j
        BY <3>2, <4>1
      <4>3. QED BY <4>1, <4>2
    <3>5. ReadsIn(r, c) = {j - 1}
      BY <3>3, <3>4 DEF ReadsIn
    <3>6. PICK l : l = j - 1
      OBVIOUS
    <3>7. QText(r, c) = r[l].data /\ QText(p, c) = p[j].data
      BY <3>2, <3>5, <3>6, Picked, Zenon DEF QText
    <3>8. r[l] = p[j]
      BY <3>3, <3>6, Zenon
    <3>9. QED BY <1>3, <3>7, <3>8 DEF r
  <2>3. QED BY <2>1, <2>2
<1>4. QED BY <1>2, <1>3

\* The parts are texts.
LEMMA PartTypes ==
    ASSUME TypeOK, NEW c \in Clients
    PROVE  /\ message[c] \in Lines /\ outq[c] \in Lines /\ FlattenSeq(sends[c]) \in Lines
           /\ WText(c) \in Lines /\ QText(port, c) \in Lines /\ inq[c] \in Lines
           /\ str_len[c] \in Nat
<1>0. NetTypes /\ CallTypes /\ WorkerTypes
  BY TypeParts
<1>1. message[c] \in Lines /\ outq[c] \in Lines /\ inq[c] \in Lines
  BY <1>0 DEF NetTypes
<1>2. str_len[c] \in Nat
  BY <1>0, SizesAssumption DEF NetTypes
<1>3. FlattenSeq(sends[c]) \in Lines
  <2>1. sends[c] \in Seq(Seq(1..MaxLine))
    BY <1>0 DEF CallTypes, Lines
  <2>2. FlattenSeq(sends[c]) \in Seq(1..MaxLine)
    BY <2>1, FlattenType
  <2>3. QED BY <2>2 DEF Lines
<1>4. \A S, f : (\A e \in S : f[e] \in Completions) => PickText(S, f) \in Lines
  <2>1. ASSUME NEW S, NEW f, \A e \in S : f[e] \in Completions PROVE PickText(S, f) \in Lines
    <3>1. CASE S = {}
      BY <3>1, LineParts DEF PickText
    <3>2. CASE S # {}
      <4>1. PICK e \in S : e = CHOOSE x \in S : TRUE
        BY <3>2
      <4>2. f[e].data \in Lines
        BY <2>1 DEF Completions
      <4>3. QED BY <3>2, <4>1, <4>2 DEF PickText
    <3>3. QED BY <3>1, <3>2
  <2>2. QED BY <2>1
<1>5. WText(c) \in Lines
  <2>1. \A w \in HandledReads(c) : task[w] \in Completions
    BY <1>0 DEF WorkerTypes, HandledReads
  <2>2. QED BY <1>4, <2>1 DEF WText
<1>6. QText(port, c) \in Lines
  <2>1. \A n \in ReadsIn(port, c) : port[n] \in Completions
    BY <1>0 DEF CallTypes, ReadsIn
  <2>2. QED BY <1>4, <2>1 DEF QText
<1>7. QED BY <1>1, <1>2, <1>3, <1>5, <1>6

-----------------------------------------------------------------------------
(* Steps of the clients and the connections.                               *)

\* Whose parts stay as they are.
LEMMA OrderKept ==
    ASSUME NEW d \in Clients, InOrder(d),
           message'[d] = message[d], outq'[d] = outq[d], sends'[d] = sends[d],
           inq'[d] = inq[d], str_len'[d] = str_len[d],
           WText(d)' = WText(d), QText(port, d)' = QText(port, d)
    PROVE  InOrder(d)'
BY DEF InOrder

\* What no worker touches.
LEMMA WorkersKept ==
    ASSUME UNCHANGED <<wpc, task>>
    PROVE  \A d \in Clients : WText(d)' = WText(d)
BY DEF WText, HandledReads, IsRead

\* A client starts a line when the one before is back, or reads some of it.
LEMMA TextClient ==
    ASSUME TypeOK, TextsOk, NEW c \in Clients, Client(c)
    PROVE  TextsOk'
<1> USE DEF main, objects, posted, workers, net, clients
<1>0. NetTypes /\ CallTypes /\ WorkerTypes
  BY TypeParts
<1>1. UNCHANGED <<sends, port, wpc, task>>
  BY DEF Client, Connect, SendLine, ReadReply, Leave
<1>2. \A w \in Workers : wpc'[w] \in {"close", "free", "recv"} => task'[w].data = <<>>
  BY <1>1 DEF TextsOk
<1>3. \A d \in Clients : WText(d)' = WText(d) /\ QText(port, d)' = QText(port, d)
  BY <1>1, WorkersKept
<1>4. ASSUME NEW d \in Clients, conn'[d] \in {"idle", "open"} PROVE InOrder(d)'
  <2>1. CASE Connect(c)
    <3>1. conn[d] \in {"idle", "open"} /\ UNCHANGED <<message, outq, inq, str_len>>
      BY <1>0, <1>4, <2>1 DEF Connect, NetTypes
    <3>2. QED BY <1>1, <1>3, <3>1, OrderKept DEF TextsOk
  <2>2. CASE SendLine(c)
    <3>1. PICK n \in 1..MaxLine : str_len' = [str_len EXCEPT ![c] = n]
                                  /\ inq' = [inq EXCEPT ![c] = Upto(n)]
      BY <2>2 DEF SendLine, Upto
    <3>2. /\ conn' = conn /\ outq' = outq /\ message' = [message EXCEPT ![c] = <<>>]
          /\ conn[c] = "open" /\ ~(Len(message[c]) < str_len[c])
      BY <2>2 DEF SendLine, Waiting
    <3>3. InOrder(d)
      BY <1>4, <3>2 DEF TextsOk
    <3>4. CASE d # c
      <4>1. message'[d] = message[d] /\ inq'[d] = inq[d] /\ str_len'[d] = str_len[d]
        BY <1>0, <3>1, <3>2, <3>4 DEF NetTypes
      <4>2. QED BY <1>1, <1>3, <3>2, <3>3, <4>1, OrderKept
    <3>5. CASE d = c
      <4>1. outq[c] = <<>> /\ FlattenSeq(sends[c]) = <<>> /\ WText(c) = <<>> /\ QText(port, c) = <<>>
        <5>1. /\ message[c] \in Lines /\ outq[c] \in Lines /\ FlattenSeq(sends[c]) \in Lines
              /\ WText(c) \in Lines /\ QText(port, c) \in Lines /\ inq[c] \in Lines
              /\ str_len[c] \in Nat
          BY PartTypes
        <5>2. Joint(message[c], outq[c], FlattenSeq(sends[c]), WText(c), QText(port, c), inq[c])
                = Upto(str_len[c])
          BY <3>3, <3>5 DEF InOrder
        <5>3. Spent(outq[c], FlattenSeq(sends[c]), WText(c), QText(port, c), inq[c])
          BY <3>2, <5>1, <5>2, JointWhole
        <5>4. QED BY <5>3 DEF Spent
      <4>2. message'[c] = <<>> /\ inq'[c] = Upto(n) /\ str_len'[c] = n
        BY <1>0, <3>1, <3>2 DEF NetTypes
      <4>3. Joint(<<>>, <<>>, <<>>, <<>>, <<>>, Upto(n)) = Upto(n)
        <5>1. Upto(n) \in Lines
          BY LineParts DEF Upto
        <5>2. \A x \in Lines : <<>> \o x = x
          BY DEF Lines
        <5>3. <<>> \o <<>> = <<>>
          OBVIOUS
        <5>4. QED BY <5>1, <5>2, <5>3 DEF Joint
      <4>4. QED BY <1>1, <1>3, <3>2, <3>5, <4>1, <4>2, <4>3 DEF InOrder
    <3>6. QED BY <3>4, <3>5
  <2>3. CASE ReadReply(c)
    <3>1. /\ UNCHANGED <<conn, inq, str_len>> /\ message' = [message EXCEPT ![c] = @ \o outq[c]]
          /\ outq' = [outq EXCEPT ![c] = <<>>]
      BY <2>3 DEF ReadReply
    <3>2. InOrder(d)
      BY <1>4, <3>1 DEF TextsOk
    <3>3. CASE d # c
      <4>1. message'[d] = message[d] /\ outq'[d] = outq[d]
        BY <1>0, <3>1, <3>3 DEF NetTypes
      <4>2. QED BY <1>1, <1>3, <3>1, <3>2, <4>1, OrderKept
    <3>4. CASE d = c
      <4>1. message'[c] = message[c] \o outq[c] /\ outq'[c] = <<>>
        BY <1>0, <3>1 DEF NetTypes
      <4>2. Joint(message[c], outq[c], FlattenSeq(sends[c]), WText(c), QText(port, c), inq[c])
              = Joint(message[c] \o outq[c], <<>>, FlattenSeq(sends[c]), WText(c), QText(port, c), inq[c])
        <5>1. /\ message[c] \in Lines /\ outq[c] \in Lines /\ FlattenSeq(sends[c]) \in Lines
              /\ WText(c) \in Lines /\ QText(port, c) \in Lines /\ inq[c] \in Lines
          BY PartTypes
        <5>2. ToMessage(message[c], outq[c], FlattenSeq(sends[c]), WText(c), QText(port, c), inq[c])
          BY <5>1, JointMoves
        <5>3. QED BY <5>2 DEF ToMessage
      <4>3. QED BY <1>1, <1>3, <3>1, <3>2, <3>4, <4>1, <4>2 DEF InOrder
    <3>5. QED BY <3>3, <3>4
  <2>4. CASE Leave(c)
    <3>1. /\ conn[c] = "open" /\ conn' = [conn EXCEPT ![c] = IF outq[c] = <<>> THEN "fin" ELSE "rst"]
          /\ outq' = [outq EXCEPT ![c] = <<>>] /\ UNCHANGED <<inq, str_len, message>>
      BY <2>4 DEF Leave
    <3>2. d # c /\ conn'[d] = conn[d] /\ outq'[d] = outq[d]
      BY <1>0, <1>4, <3>1 DEF NetTypes
    <3>3. QED BY <1>1, <1>3, <1>4, <3>1, <3>2, OrderKept DEF TextsOk
  <2>5. QED BY <2>1, <2>2, <2>3, <2>4 DEF Client
<1>5. QED BY <1>2, <1>4 DEF TextsOk

\* A send that ends brings its text on the way back, if the connection is open.
LEMMA TextSent ==
    ASSUME TypeOK, TextsOk, NEW c \in Clients, SendDone(c)
    PROVE  TextsOk'
<1> USE DEF clients
<1>0. NetTypes /\ CallTypes /\ WorkerTypes
  BY TypeParts
<1>1. /\ sends[c] # <<>> /\ sends' = [sends EXCEPT ![c] = Tail(@)]
      /\ port' = Append(port, Completion(c, "WRITE", <<>>))
      /\ UNCHANGED <<wpc, task, inq, str_len, message>>
      /\ \A d \in Clients : /\ conn'[d] = "idle" <=> conn[d] = "idle"
                            /\ conn'[d] = "open" <=> conn[d] = "open"
      /\ IF conn[c] = "open" THEN outq' = [outq EXCEPT ![c] = @ \o Head(sends[c])]
         ELSE outq' = outq
  BY SendDoneParts
<1>2. \A w \in Workers : wpc'[w] \in {"close", "free", "recv"} => task'[w].data = <<>>
  BY <1>1 DEF TextsOk
<1>3. ASSUME NEW d \in Clients PROVE WText(d)' = WText(d) /\ QText(port, d)' = QText(port, d)
  <2>1. /\ Completion(c, "WRITE", <<>>) \in Completions
        /\ ~IsRead(Completion(c, "WRITE", <<>>), d)
    BY CompletionTypes, LineParts DEF IsRead
  <2>2. QText(port', d) = QText(port, d)
    BY <1>0, <1>1, <2>1, QueueAppend DEF CallTypes
  <2>3. QED BY <1>1, <2>2, WorkersKept
<1>4. ASSUME NEW d \in Clients, conn'[d] \in {"idle", "open"} PROVE InOrder(d)'
  <2>1. conn[d] \in {"idle", "open"} /\ InOrder(d)
    BY <1>1, <1>4 DEF TextsOk
  <2>2. CASE d # c
    <3>1. sends'[d] = sends[d] /\ outq'[d] = outq[d]
      BY <1>0, <1>1, <2>2 DEF NetTypes, CallTypes
    <3>2. QED BY <1>1, <1>3, <2>1, <3>1, OrderKept
  <2>3. CASE d = c /\ conn[c] = "open"
    <3>1. sends'[c] = Tail(sends[c]) /\ outq'[c] = outq[c] \o Head(sends[c])
      BY <1>0, <1>1, <2>3 DEF NetTypes, CallTypes
    <3>2. /\ FlattenSeq(sends[c]) = Head(sends[c]) \o FlattenSeq(Tail(sends[c]))
          /\ Head(sends[c]) \in Lines /\ FlattenSeq(Tail(sends[c])) \in Lines
      <4>1. sends[c] \in Seq(Seq(1..MaxLine)) /\ sends[c] # <<>>
        BY <1>0, <1>1 DEF CallTypes, Lines
      <4>2. FlattenSeq(sends[c]) = Head(sends[c]) \o FlattenSeq(Tail(sends[c]))
        BY <4>1, FlattenTail
      <4>3. Head(sends[c]) \in Seq(1..MaxLine) /\ Tail(sends[c]) \in Seq(Seq(1..MaxLine))
        BY <4>1, Taken
      <4>4. FlattenSeq(Tail(sends[c])) \in Seq(1..MaxLine)
        BY <4>3, FlattenType
      <4>5. QED BY <4>2, <4>3, <4>4 DEF Lines
    <3>3. Joint(message[c], outq[c], FlattenSeq(sends[c]), WText(c), QText(port, c), inq[c])
            = Joint(message[c], outq[c] \o Head(sends[c]), FlattenSeq(Tail(sends[c])), WText(c),
                    QText(port, c), inq[c])
      <4>1. /\ message[c] \in Lines /\ outq[c] \in Lines /\ WText(c) \in Lines
            /\ QText(port, c) \in Lines /\ inq[c] \in Lines
        BY PartTypes
      <4>2. ToReturn(message[c], outq[c], Head(sends[c]), FlattenSeq(Tail(sends[c])), WText(c),
                     QText(port, c), inq[c])
        BY <3>2, <4>1, JointMoves
      <4>3. QED BY <3>2, <4>2 DEF ToReturn
    <3>4. QED BY <1>1, <1>3, <2>1, <2>3, <3>1, <3>3 DEF InOrder
  <2>4. conn[c] # "idle"
    BY DEF SendDone
  <2>5. QED BY <2>1, <2>2, <2>3, <2>4
<1>5. QED BY <1>2, <1>4 DEF TextsOk

-----------------------------------------------------------------------------
(* Steps of the servers.                                                   *)

\* Steps that touch no text.
LEMMA TextKept ==
    ASSUME TextsOk, UNCHANGED <<message, outq, sends, inq, str_len, wpc, task, port, conn>>
    PROVE  TextsOk'
<1>1. \A d \in Clients : WText(d)' = WText(d) /\ QText(port, d)' = QText(port, d)
  BY WorkersKept
<1>2. ASSUME NEW d \in Clients, conn'[d] \in {"idle", "open"} PROVE InOrder(d)'
  BY <1>1, <1>2, OrderKept DEF TextsOk
<1>3. QED BY <1>2 DEF TextsOk

\* A receive that ends takes text from the connection into the queue.
LEMMA TextReceived ==
    ASSUME TypeOK, TextsOk, NEW c \in Clients, NEW n \in 0..Len(inq[c]), ReadsIn(port, c) = {},
           port' = Append(port, Completion(c, "READ", SubSeq(inq[c], 1, n))),
           inq' = [inq EXCEPT ![c] = SubSeq(@, n + 1, Len(@))],
           UNCHANGED <<message, outq, sends, str_len, wpc, task, conn>>
    PROVE  TextsOk'
<1>0. NetTypes /\ CallTypes /\ WorkerTypes
  BY TypeParts
<1>1. PICK e : e = Completion(c, "READ", SubSeq(inq[c], 1, n))
  OBVIOUS
<1>2. /\ SubSeq(inq[c], 1, n) \in Lines /\ SubSeq(inq[c], n + 1, Len(inq[c])) \in Lines
      /\ SubSeq(inq[c], 1, n) \o SubSeq(inq[c], n + 1, Len(inq[c])) = inq[c]
  <2>1. inq[c] \in Seq(1..MaxLine)
    BY <1>0 DEF NetTypes, Lines
  <2>2. SubSeq(inq[c], 1, n) \o SubSeq(inq[c], n + 1, Len(inq[c])) = inq[c]
    <3>1. CASE n = 0
      <4>1. SubSeq(inq[c], 1, 0) = <<>> /\ SubSeq(inq[c], 1, Len(inq[c])) = inq[c]
        BY <2>1
      <4>2. <<>> \o inq[c] = inq[c]
        BY <2>1
      <4>3. QED BY <3>1, <4>1, <4>2
    <3>2. CASE n \in 1..Len(inq[c])
      BY <2>1, <3>2, CutParts
    <3>3. n = 0 \/ n \in 1..Len(inq[c])
      BY <2>1
    <3>4. QED BY <3>1, <3>2, <3>3, Zenon
  <2>3. n \in Nat /\ inq[c] \in Lines
    BY <2>1 DEF Lines
  <2>4. QED BY <2>2, <2>3, LineParts
<1>3. e \in Completions /\ e.of = c /\ e.rwMode = "READ" /\ e.data = SubSeq(inq[c], 1, n)
  <2>1. PICK t \in Lines : t = SubSeq(inq[c], 1, n)
    BY <1>2
  <2>2. e = Completion(c, "READ", t)
    BY <1>1, <2>1
  <2>3. /\ Completion(c, "READ", t) \in Completions /\ Completion(c, "READ", t).of = c
        /\ Completion(c, "READ", t).rwMode = "READ" /\ Completion(c, "READ", t).data = t
    BY CompletionTypes
  <2>4. QED BY <2>1, <2>2, <2>3, Zenon
<1>4. ASSUME NEW d \in Clients, conn'[d] \in {"idle", "open"} PROVE InOrder(d)'
  <2>1. InOrder(d) /\ WText(d)' = WText(d)
    BY <1>4, WorkersKept DEF TextsOk
  <2>2. CASE d # c
    <3>1. ~IsRead(e, d)
      BY <1>3, <2>2 DEF IsRead
    <3>2. QText(port', d) = QText(port, d)
      BY <1>0, <1>1, <1>3, <3>1, QueueAppend DEF CallTypes
    <3>3. inq'[d] = inq[d]
      BY <1>0, <2>2 DEF NetTypes
    <3>4. QED BY <2>1, <3>2, <3>3, OrderKept
  <2>3. CASE d = c
    <3>1. IsRead(e, c)
      BY <1>3 DEF IsRead
    <3>2. QText(port', c) = SubSeq(inq[c], 1, n) /\ QText(port, c) = <<>>
      BY <1>0, <1>1, <1>3, <3>1, QueueAppend DEF CallTypes
    <3>3. inq'[c] = SubSeq(inq[c], n + 1, Len(inq[c]))
      BY <1>0 DEF NetTypes
    <3>4. message[c] \in Lines /\ outq[c] \in Lines /\ FlattenSeq(sends[c]) \in Lines /\ WText(c) \in Lines
      BY PartTypes
    <3>5. ToQueue(message[c], outq[c], FlattenSeq(sends[c]), WText(c), SubSeq(inq[c], 1, n),
                  SubSeq(inq[c], n + 1, Len(inq[c])))
      BY <1>2, <3>4, JointMoves
    <3>6. Joint(message[c], outq[c], FlattenSeq(sends[c]), WText(c), <<>>, inq[c])
            = Joint(message[c], outq[c], FlattenSeq(sends[c]), WText(c), QText(port', c), inq'[c])
      BY <1>2, <3>2, <3>3, <3>5 DEF ToQueue
    <3>7. QED BY <2>1, <2>3, <3>2, <3>6 DEF InOrder
  <2>4. QED BY <2>2, <2>3
<1>5. QED BY <1>4 DEF TextsOk

\* Main touches no text.
LEMMA TextMain == TextsOk /\ Main => TextsOk'
<1> SUFFICES ASSUME TextsOk, Main PROVE TextsOk'
  OBVIOUS
<1>1. UNCHANGED <<message, outq, sends, inq, str_len, wpc, task, port, conn>>
  BY DEF Main, Accept, AcceptError, FirstRecv, posted, workers, net, clients
<1>2. QED BY <1>1, TextKept

\* What the connections of the port server do.
LEMMA TextSystem ==
    ASSUME PortFull, TextsOk, NEW c \in Clients, System(c)
    PROVE  TextsOk'
<1>0. TypeOK /\ PortInv
  BY DEF PortFull
<1>1. CASE RecvDone(c)
  <2>1. /\ c \in recv /\ port' = Append(port, Completion(c, "READ", RecvText(c)))
        /\ inq' = [inq EXCEPT ![c] = SubSeq(@, Len(RecvText(c)) + 1, Len(@))]
        /\ UNCHANGED <<message, outq, sends, str_len, wpc, task, conn>>
    BY <1>1 DEF RecvDone, workers, clients
  <2>2. PICK n \in 0..Len(inq[c]) : n = Min({BUF_SIZE, Len(inq[c])}) /\ Len(SubSeq(inq[c], 1, n)) = n
    <3>1. inq[c] \in Lines /\ BUF_SIZE \in Nat
      BY <1>0, PartTypes, SizesAssumption
    <3>2. QED BY <3>1, Received
  <2>3. RecvText(c) = SubSeq(inq[c], 1, n) /\ Len(RecvText(c)) = n
    BY <2>2 DEF RecvText
  <2>4. ReadsIn(port, c) = {}
    BY <1>0, <2>1 DEF PortInv, Good, Once, InPort, ReadsIn
  <2>5. QED BY <1>0, <2>1, <2>3, <2>4, TextReceived
<1>2. CASE SendDone(c)
  BY <1>0, <1>2, TextSent
<1>3. QED BY <1>1, <1>2 DEF System

\* The text in the hands of workers when one of them changes.
LEMMA HandsKept ==
    ASSUME NEW v \in Workers, NEW d \in Clients,
           \A w \in Workers : w # v => wpc'[w] = wpc[w] /\ task'[w] = task[w],
           v \in HandledReads(d)' <=> v \in HandledReads(d),
           v \in HandledReads(d) => task'[v].data = task[v].data
    PROVE  WText(d)' = WText(d)
<1>1. HandledReads(d)' = HandledReads(d)
  BY DEF HandledReads, IsRead
<1>2. \A w \in HandledReads(d) : task'[w].data = task[w].data
  BY DEF HandledReads
<1>3. PickText(HandledReads(d), task') = PickText(HandledReads(d), task)
  BY <1>2, Picked
<1>4. QED BY <1>1, <1>3 DEF WText

\* A worker takes text from the queue, and puts it into a send.
LEMMA TextWorker ==
    ASSUME PortFull, TextsOk, NEW v \in Workers, Worker(v)
    PROVE  TextsOk'
<1> USE DEF main, objects, posted, workers, net, clients
<1>0. /\ TypeOK /\ NetTypes /\ CallTypes /\ WorkerTypes /\ Shape
      /\ \A d \in Clients : Once(d)
  BY TypeParts DEF PortFull, PortInv, Good
<1>1. UNCHANGED <<message, outq, inq, str_len, conn>>
  BY DEF Worker, GetStatus, Load, CloseSocket, FreeHandle, Send, Recv
<1>2. /\ \A w \in Workers : w # v => wpc'[w] = wpc[w] /\ task'[w] = task[w]
      /\ wpc' \in [Workers -> {"wait", "load", "close", "free", "send", "recv"}]
  BY <1>0 DEF Worker, GetStatus, Load, CloseSocket, FreeHandle, Send, Recv, Branch, WorkerTypes
<1>3. \A d \in Clients : v \in HandledReads(d) => HandledReads(d) = {v}
  BY <1>0 DEF Once, Handles, HandledReads
<1>4. ASSUME NEW d \in Clients, conn'[d] \in {"idle", "open"} PROVE InOrder(d)
  BY <1>1, <1>4 DEF TextsOk
<1>5. \A w \in Workers : w # v /\ wpc'[w] \in {"close", "free", "recv"} => task'[w].data = <<>>
  BY <1>2 DEF TextsOk
<1>6. CASE GetStatus(v)
  <2>1. /\ wpc[v] = "wait" /\ port # <<>> /\ port' = Tail(port) /\ sends' = sends
        /\ wpc'[v] = "load" /\ task'[v] = Head(port)
    BY <1>0, <1>6 DEF GetStatus, WorkerTypes
  <2>2. /\ Head(port) \in Completions /\ Head(port) = port[1] /\ 1 \in DOMAIN port
    BY <1>0, <2>1, Taken DEF CallTypes
  <2>3. ASSUME NEW d \in Clients, conn'[d] \in {"idle", "open"} PROVE InOrder(d)'
    <3>1. \A m, n \in ReadsIn(port, d) : m = n
      BY <1>0 DEF Once, ReadsIn
    <3>2. v \notin HandledReads(d)
      BY <2>1 DEF HandledReads
    <3>3. CASE ~IsRead(Head(port), d)
      <4>1. v \notin HandledReads(d)'
        BY <2>1, <3>3 DEF HandledReads, IsRead
      <4>2. WText(d)' = WText(d)
        BY <1>2, <3>2, <4>1, HandsKept
      <4>3. QText(port', d) = QText(port, d)
        BY <1>0, <2>1, <3>1, <3>3, QueueTail DEF CallTypes
      <4>4. QED BY <1>1, <1>4, <2>1, <2>3, <4>2, <4>3, OrderKept
    <3>4. CASE IsRead(Head(port), d)
      <4>1. HandledReads(d) = {}
        BY <1>0, <2>2, <3>4 DEF Once, InPort, AtWorker, Handles, HandledReads
      <4>2. HandledReads(d)' = {v}
        <5>1. v \in HandledReads(d)'
          BY <2>1, <3>4 DEF HandledReads, IsRead
        <5>2. \A w \in HandledReads(d)' : w = v
          BY <1>2, <4>1 DEF HandledReads, IsRead
        <5>3. QED BY <5>1, <5>2
      <4>3. WText(d) = <<>> /\ WText(d)' = Head(port).data
        <5>1. PickText({}, task) = <<>> /\ PickText({v}, task') = task'[v].data
          BY Picked
        <5>2. QED BY <2>1, <4>1, <4>2, <5>1 DEF WText
      <4>4. QText(port, d) = Head(port).data /\ QText(port', d) = <<>>
        BY <1>0, <2>1, <3>1, <3>4, QueueTail DEF CallTypes
      <4>5. message[d] \in Lines /\ outq[d] \in Lines /\ FlattenSeq(sends[d]) \in Lines /\ inq[d] \in Lines
        BY <1>0, PartTypes
      <4>6. Head(port).data \in Lines
        BY <2>2 DEF Completions
      <4>7. ToWorker(message[d], outq[d], FlattenSeq(sends[d]), Head(port).data, inq[d])
        BY <4>5, <4>6, JointMoves
      <4>8. QED BY <1>1, <1>4, <2>1, <2>3, <4>3, <4>4, <4>7 DEF InOrder, ToWorker
    <3>5. QED BY <3>3, <3>4
  <2>4. QED BY <1>5, <2>1, <2>3 DEF TextsOk
<1>7. CASE Load(v) \/ CloseSocket(v)
  <2>1. /\ wpc[v] \in {"load", "close"} /\ UNCHANGED <<port, sends>>
        /\ IF wpc[v] = "load"
           THEN /\ wpc'[v] = Branch(task[v])
                /\ task'[v] = IF Branch(task[v]) = "wait" THEN NoTask ELSE task[v]
           ELSE wpc'[v] = "free" /\ task'[v] = task[v]
    BY <1>0, <1>7 DEF Load, CloseSocket, WorkerTypes
  <2>2. wpc'[v] \in {"close", "free", "recv"} => task'[v].data = <<>>
    BY <2>1 DEF Branch, TextsOk
  <2>3. ASSUME NEW d \in Clients, conn'[d] \in {"idle", "open"} PROVE InOrder(d)'
    <3>1. /\ v \in HandledReads(d)' <=> v \in HandledReads(d)
          /\ v \in HandledReads(d) => task'[v].data = task[v].data
      BY <2>1, CompletionTypes DEF Branch, HandledReads, IsRead
    <3>2. WText(d)' = WText(d)
      BY <1>2, <3>1, HandsKept
    <3>3. QED BY <1>1, <1>4, <2>1, <2>3, <3>2, OrderKept
  <2>4. QED BY <1>5, <2>2, <2>3 DEF TextsOk
<1>8. CASE FreeHandle(v) \/ Recv(v)
  <2>1. wpc[v] \in {"free", "recv"} /\ UNCHANGED <<port, sends>> /\ wpc'[v] = "wait"
    BY <1>0, <1>8 DEF FreeHandle, Recv, WorkerTypes
  <2>2. ASSUME NEW d \in Clients, conn'[d] \in {"idle", "open"} PROVE InOrder(d)'
    <3>1. v \notin HandledReads(d)'
      BY <2>1 DEF HandledReads
    <3>2. v \notin HandledReads(d) => WText(d)' = WText(d)
      BY <1>2, <3>1, HandsKept
    <3>3. ASSUME v \in HandledReads(d) PROVE WText(d)' = WText(d)
      <4>1. HandledReads(d) = {v} /\ task[v].data = <<>>
        BY <1>3, <2>1, <3>3 DEF TextsOk
      <4>2. HandledReads(d)' = {}
        BY <1>2, <3>1, <4>1 DEF HandledReads, IsRead
      <4>3. WText(d) = <<>> /\ WText(d)' = <<>>
        BY <4>1, <4>2, Picked DEF WText
      <4>4. QED BY <4>3
    <3>4. WText(d)' = WText(d)
      BY <3>2, <3>3
    <3>5. QED BY <1>1, <1>4, <2>1, <2>2, <3>4, OrderKept
  <2>3. QED BY <1>5, <2>1, <2>2 DEF TextsOk
<1>9. CASE Send(v)
  <2>1. PICK c \in Clients : c = task[v].of
    BY <1>0, <1>9 DEF Send, Shape
  <2>2. /\ wpc[v] = "send" /\ port' = port /\ wpc'[v] = "recv"
        /\ task'[v] = Completion(c, "READ", <<>>)
        /\ sends' = IF conn[c] = "rst" THEN sends ELSE [sends EXCEPT ![c] = Append(@, task[v].data)]
    BY <1>0, <1>9, <2>1 DEF Send, WorkerTypes
  <2>3. /\ task'[v].of = c /\ task'[v].rwMode = "READ" /\ task'[v].data = <<>>
        /\ task[v].rwMode = "READ" /\ task[v].data \in Lines
    <3>1. task'[v].of = c /\ task'[v].rwMode = "READ" /\ task'[v].data = <<>>
      BY <2>2, CompletionTypes, LineParts
    <3>2. task[v].rwMode = "READ" /\ task[v].data \in Lines
      BY <1>0, <2>2 DEF Shape, WorkerTypes, Completions
    <3>3. QED BY <3>1, <3>2
  <2>4. ASSUME NEW d \in Clients, conn'[d] \in {"idle", "open"} PROVE InOrder(d)'
    <3>1. CASE d # c
      <4>1. v \notin HandledReads(d) /\ v \notin HandledReads(d)'
        BY <2>1, <2>3, <3>1 DEF HandledReads, IsRead
      <4>2. WText(d)' = WText(d)
        BY <1>2, <4>1, HandsKept
      <4>3. sends'[d] = sends[d]
        BY <1>0, <2>2, <3>1 DEF CallTypes
      <4>4. QED BY <1>1, <1>4, <2>2, <2>4, <4>2, <4>3, OrderKept
    <3>2. CASE d = c
      <4>1. HandledReads(d) = {v} /\ HandledReads(d)' = {v}
        <5>1. v \in HandledReads(d) /\ v \in HandledReads(d)'
          BY <2>1, <2>2, <2>3, <3>2 DEF HandledReads, IsRead
        <5>2. HandledReads(d) = {v}
          BY <1>3, <5>1
        <5>3. \A w \in HandledReads(d)' : w = v
          BY <1>2, <5>2 DEF HandledReads, IsRead
        <5>4. QED BY <5>1, <5>2, <5>3
      <4>2. WText(d) = task[v].data /\ WText(d)' = <<>>
        BY <2>3, <4>1, Picked DEF WText
      <4>3. sends'[d] = Append(sends[d], task[v].data)
        BY <1>0, <1>1, <2>2, <2>4, <3>2 DEF CallTypes
      <4>4. FlattenSeq(sends'[d]) = FlattenSeq(sends[d]) \o task[v].data
        <5>1. sends[d] \in Seq(Seq(1..MaxLine)) /\ task[v].data \in Seq(1..MaxLine)
          BY <1>0, <2>3 DEF CallTypes, Lines
        <5>2. QED BY <4>3, <5>1, FlattenAppend
      <4>5. /\ message[d] \in Lines /\ outq[d] \in Lines /\ FlattenSeq(sends[d]) \in Lines
            /\ QText(port, d) \in Lines /\ inq[d] \in Lines
        BY <1>0, PartTypes
      <4>6. QText(port, d) = <<>> /\ QText(port', d) = <<>>
        <5>1. ReadsIn(port, d) = {}
          BY <1>0, <4>1 DEF Once, InPort, AtWorker, Handles, HandledReads, ReadsIn
        <5>2. QED BY <2>2, <5>1, Picked DEF QText
      <4>7. ToSends(message[d], outq[d], FlattenSeq(sends[d]), task[v].data, inq[d])
        BY <2>3, <4>5, JointMoves
      <4>8. QED BY <1>1, <1>4, <2>4, <4>2, <4>4, <4>6, <4>7 DEF InOrder, ToSends
    <3>3. QED BY <3>1, <3>2
  <2>5. QED BY <1>5, <2>3, <2>4 DEF TextsOk
<1>10. QED BY <1>6, <1>7, <1>8, <1>9 DEF Worker

\* The steps of the port server.
LEMMA TextPort == PortFull /\ TextsOk /\ Next => TextsOk'
<1> SUFFICES ASSUME PortFull, TextsOk, Next PROVE TextsOk'
  OBVIOUS
<1>1. TypeOK
  BY DEF PortFull
<1>2. QED BY <1>1, TextMain, TextWorker, TextSystem, TextClient DEF Next

\* A routine turns the text of a receive into a send; no worker holds any.
LEMMA TextRoutine ==
    ASSUME RouInv, TextsOk, SleepEx
    PROVE  TextsOk'
<1> USE DEF main, workers, net, clients, objects
<1>0. /\ TypeOK /\ NetTypes /\ CallTypes /\ WorkerTypes
      /\ \A d \in Clients : OneOf(d)
  BY TypeParts DEF RouInv, RouShape
<1>1. /\ port # <<>> /\ port' = Tail(port)
      /\ UNCHANGED <<message, outq, inq, str_len, conn, wpc, task>>
      /\ IF Head(port).rwMode = "READ" THEN ReadCompRoutine(Head(port).of, Head(port).data)
         ELSE WriteCompRoutine(Head(port).of)
  BY DEF SleepEx
<1>2. Head(port) \in Completions /\ Head(port) = port[1] /\ 1 \in DOMAIN port
  BY <1>0, <1>1, Taken DEF CallTypes
<1>3. PICK data \in Lines : data = Head(port).data
  BY <1>2 DEF Completions
<1>4. /\ sends' = sends \/ sends' = [sends EXCEPT ![Head(port).of] = Append(@, data)]
      /\ Head(port).rwMode # "READ" => sends' = sends
      /\ Head(port).rwMode = "READ" => \/ data = <<>> /\ sends' = sends
                                       \/ conn[Head(port).of] = "rst"
                                       \/ sends' = [sends EXCEPT ![Head(port).of] = Append(@, data)]
  BY <1>1, <1>3 DEF ReadCompRoutine, WriteCompRoutine
<1>5. ASSUME NEW d \in Clients, conn'[d] \in {"idle", "open"} PROVE InOrder(d)'
  <2>1. InOrder(d) /\ WText(d)' = WText(d)
    BY <1>1, <1>5, WorkersKept DEF TextsOk
  <2>2. \A m, n \in ReadsIn(port, d) : m = n
    BY <1>0 DEF OneOf, ReadsIn, IsRead
  <2>3. CASE ~IsRead(Head(port), d)
    <3>1. QText(port', d) = QText(port, d)
      BY <1>0, <1>1, <2>2, <2>3, QueueTail DEF CallTypes
    <3>2. sends'[d] = sends[d]
      BY <1>0, <1>4, <2>3 DEF IsRead, CallTypes
    <3>3. QED BY <1>1, <2>1, <3>1, <3>2, OrderKept
  <2>4. CASE IsRead(Head(port), d)
    <3>1. QText(port, d) = data /\ QText(port', d) = <<>>
      BY <1>0, <1>1, <1>3, <2>2, <2>4, QueueTail DEF CallTypes
    <3>2. WText(d) = <<>> /\ WText(d)' = <<>>
      <4>1. HandledReads(d) = {}
        BY DEF RouInv, RouShape, HandledReads
      <4>2. WText(d) = <<>>
        BY <4>1, Picked DEF WText
      <4>3. QED BY <2>1, <4>2
    <3>3. /\ message[d] \in Lines /\ outq[d] \in Lines /\ FlattenSeq(sends[d]) \in Lines /\ inq[d] \in Lines
      BY <1>0, PartTypes
    <3>4. CASE sends' = sends /\ data = <<>>
      <4>1. QText(port, d)' = QText(port, d)
        BY <3>1, <3>4
      <4>2. QED BY <1>1, <2>1, <3>4, <4>1, OrderKept
    <3>5. CASE sends' = [sends EXCEPT ![d] = Append(@, data)]
      <4>1. sends'[d] = Append(sends[d], data)
        BY <1>0, <3>5 DEF CallTypes
      <4>2. FlattenSeq(sends'[d]) = FlattenSeq(sends[d]) \o data
        <5>1. sends[d] \in Seq(Seq(1..MaxLine)) /\ data \in Seq(1..MaxLine)
          BY <1>0, <1>3 DEF CallTypes, Lines
        <5>2. QED BY <4>1, <5>1, FlattenAppend
      <4>3. /\ ToWorker(message[d], outq[d], FlattenSeq(sends[d]), data, inq[d])
            /\ ToSends(message[d], outq[d], FlattenSeq(sends[d]), data, inq[d])
        BY <1>3, <3>3, JointMoves
      <4>4. QED BY <1>1, <2>1, <3>1, <3>2, <4>2, <4>3 DEF InOrder, ToWorker, ToSends
    <3>6. Head(port).rwMode = "READ" /\ Head(port).of = d /\ conn[d] # "rst"
      BY <1>1, <1>5, <2>4 DEF IsRead
    <3>7. QED BY <1>4, <3>4, <3>5, <3>6
  <2>5. QED BY <2>3, <2>4
<1>6. QED BY <1>1, <1>5 DEF TextsOk

\* The steps of the server with completion routines.
LEMMA TextRou == RouInv /\ TextsOk /\ RouNext => TextsOk'
<1> SUFFICES ASSUME RouInv, TextsOk, RouNext PROVE TextsOk'
  OBVIOUS
<1> USE DEF main, workers, net, clients, objects
<1>0. /\ TypeOK /\ len \in [Clients -> 1..BUF_SIZE] /\ \A d \in Clients : OneOf(d)
  BY DEF RouInv, RouShape
<1>1. CASE RouAccept \/ (AcceptError /\ UNCHANGED len)
  <2>1. UNCHANGED <<message, outq, sends, inq, str_len, wpc, task, port, conn>>
    BY <1>1 DEF RouAccept, AcceptError, posted
  <2>2. QED BY <2>1, TextKept
<1>2. ASSUME NEW c \in Clients, RouRecvDone(c) PROVE TextsOk'
  <2>1. PICK n : n = Min({len[c], Len(inq[c])})
    OBVIOUS
  <2>2. /\ c \in recv /\ port' = Append(port, Completion(c, "READ", SubSeq(inq[c], 1, n)))
        /\ inq' = [inq EXCEPT ![c] = SubSeq(@, n + 1, Len(@))]
        /\ UNCHANGED <<message, outq, sends, str_len, wpc, task, conn>>
    BY <1>2, <2>1 DEF RouRecvDone
  <2>3. n \in 0..Len(inq[c])
    <3>1. inq[c] \in Lines /\ len[c] \in Nat
      BY <1>0, PartTypes, SizesAssumption
    <3>2. QED BY <2>1, <3>1, Received
  <2>4. ReadsIn(port, c) = {}
    BY <1>0, <2>2 DEF OneOf, InQueue, ReadsIn, IsRead
  <2>5. QED BY <1>0, <2>2, <2>3, <2>4, TextReceived
<1>3. QED BY <1>0, <1>1, <1>2, TextRoutine, TextSent, TextClient
      DEF RouNext, RouServer, RouSystem, RouClient

\* There is no text at the start.
LEMMA LineInit == OneInit => LineInv
<1> SUFFICES ASSUME OneInit PROVE LineInv
  OBVIOUS
<1>1. /\ port = <<>> /\ sends = [c \in Clients |-> <<>>] /\ message = [c \in Clients |-> <<>>]
      /\ outq = [c \in Clients |-> <<>>] /\ inq = [c \in Clients |-> <<>>]
      /\ str_len = [c \in Clients |-> 0] /\ wpc = [w \in Workers |-> "wait"]
  BY DEF OneInit, RouInit, Init
<1>2. ASSUME NEW c \in Clients PROVE InOrder(c)
  <2>1. HandledReads(c) = {} /\ ReadsIn(port, c) = {}
    BY <1>1 DEF HandledReads, ReadsIn
  <2>2. WText(c) = <<>> /\ QText(port, c) = <<>>
    <3>1. PickText({}, task) = <<>> /\ PickText({}, port) = <<>>
      BY Picked
    <3>2. QED BY <2>1, <3>1 DEF WText, QText
  <2>3. FlattenSeq(sends[c]) = <<>>
    BY <1>1, FlattenType
  <2>4. Joint(<<>>, <<>>, <<>>, <<>>, <<>>, <<>>) = Upto(0)
    <3>1. <<>> \o <<>> = <<>>
      OBVIOUS
    <3>2. Upto(0) = <<>>
      BY DEF Upto
    <3>3. QED BY <3>1, <3>2 DEF Joint
  <2>5. QED BY <1>1, <2>2, <2>3, <2>4 DEF InOrder
<1>3. QED BY <1>1, <1>2 DEF LineInv, TextsOk

\* Every step keeps it.
LEMMA LineNext == ReadInv /\ LineInv /\ [OneNext]_allVars => LineInv'
<1> SUFFICES ASSUME ReadInv, LineInv, [OneNext]_allVars PROVE LineInv'
  OBVIOUS
<1>1. CASE Port(Next)
  <2>1. machine = "port" /\ machine' = machine /\ Next /\ PortFull /\ TextsOk
    BY <1>1 DEF Port, ReadInv, LineInv, Echoing
  <2>2. QED BY <2>1, TextPort DEF LineInv
<1>2. CASE Routine(RouNext)
  <2>1. machine = "routine" /\ machine' = machine /\ RouNext /\ RouInv /\ TextsOk
    BY <1>2 DEF Routine, ReadInv, LineInv, Echoing
  <2>2. QED BY <2>1, TextRou DEF LineInv
<1>3. CASE Noti(AN!Next) \/ Chat(WC!Next)
  BY <1>3 DEF Noti, Chat, LineInv, Echoing
<1>4. CASE UNCHANGED allVars
  <2>1. UNCHANGED <<machine, message, outq, sends, inq, str_len, wpc, task, port, conn>>
    BY <1>4 DEF allVars, vars, main, objects, posted, workers, net, clients
  <2>2. QED BY <2>1, TextKept DEF LineInv, Echoing
<1>5. QED BY <1>1, <1>2, <1>3, <1>4 DEF OneNext

\* It says that the text is whole and in order.
LEMMA LineFollow == LineInv => LineIntact
BY HeldParts DEF LineInv, TextsOk, InOrder, LineIntact, EchoIntact, Upto

\* For any numbers of clients and workers and any sizes: what a client has back, what
\* is on its way, posted, with a worker, in the queue and unread are always the line,
\* whole and in order, whichever workers or routines handle its pieces.
THEOREM LineIsIntact == OneSpec => []LineIntact
<1>1. QED BY ReadInit, ReadNext, LineInit, LineNext, LineFollow, PTL DEF OneSpec

-----------------------------------------------------------------------------
(* The chat servers: clntSocks, the mutex and what is broadcast.           *)

Joined == {"copy", "recv", "lock", "send", "leave", "stuck"}
Quits  == {"scan", "shift", "load", "store", "close"}
Joins  == {"lock", "file", "load", "store", "start"}

\* The types it rests on.
ChatShape ==
    /\ kind \in {"mutex", "port"} /\ misled \in BOOLEAN /\ spoiled \in BOOLEAN
    /\ at \in [WC!Threads -> {"accept", "none", "done", "file", "start"} \cup Joined \cup Quits]
    /\ at[WC!Main] \in {"accept"} \cup Joins
    /\ \A c \in Clients : at[c] \in {"none", "done"} \cup Joined \cup Quits
    /\ k \in [WC!Threads -> Nat] /\ cnt \in [WC!Threads -> Int]
    /\ clntCnt \in Nat /\ clntCnt <= Cardinality(Clients) /\ clntSocks \in [WC!Indices -> Nat]
    /\ handle \in [Clients -> Nat] /\ hSock \in [Clients -> Nat]
    /\ text \in [Clients -> Clients \cup {NoOne}]
    /\ backlog \in Seq(Clients) /\ conn \in [Clients -> {"idle", "open", "full", "fin", "rst"}]
    /\ unread \in [Clients -> Nat] /\ lines \in [Clients -> Nat]
    /\ heard \in [Clients -> Seq(Clients)]

\* A client comes to main once, which gives it a socket of its own, until its thread
\* has closed it; unless it was misled, the thread has the socket main has for it.
Known(c) == at[WC!Main] \in Joins /\ cur = c
Owned ==
    /\ at[WC!Main] \in Joins => cur \in Clients /\ at[cur] = "none" /\ hClntSock = handle[cur]
    /\ \A c \in Clients :
          /\ handle[c] # 0 <=> at[c] \in Joined \cup Quits \/ Known(c)
          /\ at[c] \in (Joined \ {"copy"}) \cup Quits => hSock[c] = handle[c]
          /\ at[c] \in {"lock", "send"} => text[c] = c
          /\ conn[c] = "idle" => ~Awaits(c)
          /\ conn[c] = "idle" \/ Awaits(c) => at[c] = "none" /\ ~Known(c)
          /\ \A m, n \in DOMAIN backlog : backlog[m] = c /\ backlog[n] = c => m = n
    /\ \A c, d \in Clients : handle[c] = handle[d] /\ handle[c] # 0 => c = d

\* While one changes clntSocks or clntCnt, no other changes or reads them.
Busy(t) == WC!Changing(t) \/ WC!Reading(t)
Alone ==
    /\ \A t, u \in WC!Threads : WC!Changing(t) /\ Busy(u) => t = u
    /\ kind = "mutex" => \A t \in WC!Threads : Busy(t) => hMutex = t

\* clntSocks has at the indices S the sockets of the members M, each once.
Member(c)   == at[c] \in Joined \/ (at[WC!Main] = "start" /\ cur = c)
Holds(S, M) ==
    /\ \A n \in S : \E c \in M : clntSocks[n] = handle[c]
    /\ \A c \in M : \E n \in S : clntSocks[n] = handle[c]
    /\ \A m, n \in S : clntSocks[m] = clntSocks[n] => m = n

All  == {c \in Clients : Member(c)}
Gap(t) == IF k[t] < clntCnt THEN k[t] ELSE clntCnt - 1

Registered ==
    /\ (\A t \in WC!Threads : ~WC!Changing(t)) => Holds(0..clntCnt - 1, All)
    /\ at[WC!Main] = "file" => Holds(0..clntCnt - 1, All)
    /\ at[WC!Main] \in {"load", "store"} => Holds(0..clntCnt, All \cup {cur})
    /\ at[WC!Main] = "store" => cnt[WC!Main] = clntCnt
    /\ \A t \in Clients :
          /\ at[t] = "scan" => /\ Holds(0..clntCnt - 1, All \cup {t})
                               /\ \A n \in 0..clntCnt - 1 : n < k[t] => clntSocks[n] # handle[t]
          /\ at[t] = "shift" => /\ clntCnt > 0 /\ Holds((0..clntCnt - 1) \ {Gap(t)}, All)
                                /\ kind = "mutex" => k[t] < clntCnt
          /\ at[t] \in {"load", "store"} => clntCnt > 0 /\ Holds(0..clntCnt - 2, All)
          /\ at[t] = "store" => cnt[t] = clntCnt

\* A line is on its way to r until the broadcast has passed the entry of r.
Pending(r, s) ==
    \/ at[s] = "lock"
    \/ at[s] = "send" /\ handle[r] # 0 /\ \E n \in k[s]..clntCnt - 1 : clntSocks[n] = handle[r]
Sent == \A r, s \in Clients :
            WC!Heard(r, s) + unread[s] + (IF Pending(r, s) THEN 1 ELSE 0) <= lines[s]

ChatInv == misled \/ spoiled \/ (ChatShape /\ Owned /\ Alone /\ Registered /\ Sent)

\* Of the other machines nothing of it changes.
NoChat ==
    /\ at = [t \in WC!Threads |-> IF t = WC!Main THEN "accept" ELSE "none"]
    /\ clntCnt = 0 /\ heard = [c \in Clients |-> <<>>] /\ lines \in [Clients -> Nat]

SocksInv == IF machine = "chat" THEN ChatInv ELSE NoChat

\* A set of clients that fills the indices up to n has n members or more.
LEMMA FewMembers ==
    ASSUME NEW n \in Nat, NEW f, NEW M, IsFiniteSet(M), \A m \in 1..n : f[m] \in M,
           \A l, m \in 1..n : f[l] = f[m] => l = m
    PROVE  n <= Cardinality(M)
<1> DEFINE g == [m \in 1..n |-> f[m]]
<1>1. g \in Injection(1..n, M)
  BY DEF Injection, IsInjective
<1>2. Cardinality(1..n) = n
  BY FS_Interval
<1>3. QED BY <1>1, <1>2, FS_Injection

\* The indices and the threads.
LEMMA ChatNames ==
    /\ WC!Indices = 0..Cardinality(Clients) + 1 /\ Cardinality(Clients) \in Nat
    /\ WC!Threads = Clients \cup {WC!Main} /\ WC!Main \notin Clients /\ NoOne \notin WC!Threads
    /\ WC!Handles \subseteq Nat \ {0} /\ WC!None = 0
BY SameCount, ClientsAssumption, NoOneAssumption DEF WC!Indices, WC!Threads, WC!Handles, WC!None

\* A list that holds the sockets of M, each once, is as long as M is large.
LEMMA HoldsCount ==
    ASSUME NEW n \in Nat, NEW M \in SUBSET Clients, Holds(0..n - 1, M),
           \A c, d \in M : handle[c] = handle[d] => c = d
    PROVE  n = Cardinality(M) /\ n <= Cardinality(Clients)
<1>1. IsFiniteSet(M) /\ Cardinality(M) <= Cardinality(Clients) /\ Cardinality(M) \in Nat
  BY ClientsAssumption, FS_Subset, FS_CardinalityType
<1>2. n <= Cardinality(M)
  <2> DEFINE f == [m \in 1..n |-> CHOOSE c \in M : clntSocks[m - 1] = handle[c]]
  <2>1. \A m \in 1..n : f[m] \in M /\ clntSocks[m - 1] = handle[f[m]]
    <3>1. ASSUME NEW m \in 1..n PROVE f[m] \in M /\ clntSocks[m - 1] = handle[f[m]]
      <4>1. \E c \in M : clntSocks[m - 1] = handle[c]
        BY DEF Holds
      <4>2. QED BY <4>1
    <3>2. QED BY <3>1
  <2> HIDE DEF f
  <2>2. ASSUME NEW l \in 1..n, NEW m \in 1..n, f[l] = f[m] PROVE l = m
    <3>1. clntSocks[l - 1] = clntSocks[m - 1] /\ l - 1 \in 0..n - 1 /\ m - 1 \in 0..n - 1
      BY <2>1, <2>2
    <3>2. l - 1 = m - 1
      BY <3>1 DEF Holds
    <3>3. QED BY <3>2
  <2>3. QED BY <1>1, <2>1, <2>2, FewMembers
<1>3. Cardinality(M) <= n
  <2> DEFINE f == [c \in M |-> CHOOSE m \in 0..n - 1 : clntSocks[m] = handle[c]]
  <2>1. \A c \in M : f[c] \in 0..n - 1 /\ clntSocks[f[c]] = handle[c]
    <3>1. ASSUME NEW c \in M PROVE f[c] \in 0..n - 1 /\ clntSocks[f[c]] = handle[c]
      <4>1. \E m \in 0..n - 1 : clntSocks[m] = handle[c]
        BY DEF Holds
      <4>2. QED BY <4>1
    <3>2. QED BY <3>1
  <2>2. f \in [M -> 0..n - 1]
    BY <2>1
  <2>3. \A c, d \in M : f[c] = f[d] => c = d
    <3> HIDE DEF f
    <3>1. QED BY <2>1
  <2>4. f \in Injection(M, 0..n - 1)
    BY <2>2, <2>3 DEF Injection, IsInjective
  <2>5. IsFiniteSet(0..n - 1) /\ Cardinality(0..n - 1) = n
    BY FS_Interval
  <2>6. QED BY <2>4, <2>5, FS_Injection
<1>4. QED BY <1>1, <1>2, <1>3

ChatOk == ChatShape /\ Owned /\ Alone /\ Registered /\ Sent

\* Only these steps change where a thread is; what they say of the others.
LEMMA At ==
    ASSUME ChatShape, NEW t \in WC!Threads, NEW where, WC!Go(t, where)
    PROVE  /\ at'[t] = where /\ \A u \in WC!Threads : u # t => at'[u] = at[u]
           /\ at' = [at EXCEPT ![t] = where]
BY DEF ChatShape, WC!Go

\* Steps that change neither clntSocks and clntCnt nor who is in them.
LEMMA RegisteredSame ==
    ASSUME ChatShape, Registered, UNCHANGED <<clntSocks, clntCnt, kind>>,
           \A t \in WC!Threads : WC!Changing(t) \/ WC!Changing(t)' =>
              at'[t] = at[t] /\ k'[t] = k[t] /\ cnt'[t] = cnt[t],
           WC!Changing(WC!Main) => cur' = cur /\ handle'[cur] = handle[cur] /\ cur \in Clients,
           \A c \in Clients : Member(c)' <=> Member(c),
           \A c \in Clients : Member(c) \/ WC!Changing(c) => handle'[c] = handle[c]
    PROVE  Registered'
<1>1. All' = All /\ All \subseteq Clients
  BY DEF All
<1>2. \A S : \A M \in SUBSET Clients :
         Holds(S, M) /\ (\A c \in M : handle'[c] = handle[c]) => Holds(S, M)'
  BY DEF Holds
<1>3. \A c \in All : handle'[c] = handle[c]
  BY DEF All
<1>4. \A t \in WC!Threads : WC!Changing(t)' <=> WC!Changing(t)
  BY DEF WC!Changing
<1>5. WC!Main \in WC!Threads /\ \A t \in Clients : t \in WC!Threads
  BY ChatNames
<1>6. (\A t \in WC!Threads : ~WC!Changing(t)') => Holds(0..clntCnt - 1, All)'
  BY <1>1, <1>2, <1>3, <1>4 DEF Registered
<1>7. /\ at'[WC!Main] = "file" => Holds(0..clntCnt - 1, All)'
      /\ at'[WC!Main] \in {"load", "store"} => Holds(0..clntCnt, All \cup {cur})'
      /\ at'[WC!Main] = "store" => cnt'[WC!Main] = clntCnt'
  <2>1. CASE WC!Changing(WC!Main)
    <3>1. at'[WC!Main] = at[WC!Main] /\ cnt'[WC!Main] = cnt[WC!Main] /\ cur' = cur
          /\ \A c \in All \cup {cur} : handle'[c] = handle[c]
      BY <1>3, <1>5, <2>1
    <3>2. All \cup {cur} \in SUBSET Clients
      BY <1>1, <2>1
    <3>3. QED BY <1>1, <1>2, <3>1, <3>2 DEF Registered
  <2>2. CASE ~WC!Changing(WC!Main)
    BY <1>4, <1>5, <2>2 DEF WC!Changing
  <2>3. QED BY <2>1, <2>2
<1>8. ASSUME NEW t \in Clients
      PROVE  (/\ at[t] = "scan" => /\ Holds(0..clntCnt - 1, All \cup {t})
                                   /\ \A n \in 0..clntCnt - 1 : n < k[t] => clntSocks[n] # handle[t]
              /\ at[t] = "shift" => /\ clntCnt > 0 /\ Holds((0..clntCnt - 1) \ {Gap(t)}, All)
                                    /\ kind = "mutex" => k[t] < clntCnt
              /\ at[t] \in {"load", "store"} => clntCnt > 0 /\ Holds(0..clntCnt - 2, All)
              /\ at[t] = "store" => cnt[t] = clntCnt)'
  <2>1. CASE WC!Changing(t)
    <3>1. at'[t] = at[t] /\ cnt'[t] = cnt[t] /\ k'[t] = k[t] /\ Gap(t)' = Gap(t)
          /\ \A c \in All \cup {t} : handle'[c] = handle[c]
      BY <1>3, <1>5, <2>1 DEF Gap
    <3>2. All \cup {t} \in SUBSET Clients
      BY <1>1
    <3>3. \A S : Holds(S, All) => Holds(S, All)'
      BY <1>1, <1>2, <1>3
    <3>4. \A S : Holds(S, All \cup {t}) => Holds(S, All \cup {t})'
      BY <1>1, <1>2, <3>1, <3>2
    <3>5. QED BY <3>1, <3>3, <3>4 DEF Registered
  <2>2. CASE ~WC!Changing(t)
    BY <1>4, <1>5, <2>2 DEF WC!Changing
  <2>3. QED BY <2>1, <2>2
<1>9. QED BY <1>6, <1>7, <1>8 DEF Registered

\* How often s is in q.
LEMMA Counted ==
    ASSUME NEW S, NEW q \in Seq(S), NEW s
    PROVE  /\ IsFiniteSet({n \in DOMAIN q : q[n] = s})
           /\ Cardinality({n \in DOMAIN q : q[n] = s}) \in Nat
<1> DEFINE T == {n \in DOMAIN q : q[n] = s}
<1>1. DOMAIN q = 1..Len(q) /\ Len(q) \in Nat
  OBVIOUS
<1>2. IsFiniteSet(1..Len(q))
  BY <1>1, FS_Interval
<1>3. IsFiniteSet(T)
  BY <1>1, <1>2, FS_Subset
<1>4. QED BY <1>3, FS_CardinalityType

\* How often after one more entry.
LEMMA CountedMore ==
    ASSUME NEW q \in Seq(Clients), NEW s, NEW e \in Clients
    PROVE  Cardinality({n \in DOMAIN Append(q, e) : Append(q, e)[n] = s})
              = Cardinality({n \in DOMAIN q : q[n] = s}) + (IF e = s THEN 1 ELSE 0)
<1> DEFINE T == {n \in DOMAIN q : q[n] = s}
<1>3. IsFiniteSet(T)
  BY Counted
<1>4. Cardinality(T) \in Nat
  BY Counted
<1>5. /\ DOMAIN Append(q, e) = DOMAIN q \cup {Len(q) + 1} /\ Len(q) + 1 \notin T
      /\ Append(q, e)[Len(q) + 1] = e /\ \A n \in DOMAIN q : Append(q, e)[n] = q[n]
  BY Appended
<1> DEFINE U == {n \in DOMAIN Append(q, e) : Append(q, e)[n] = s}
<1>6. U = (IF e = s THEN T \cup {Len(q) + 1} ELSE T)
  BY <1>5
<1>7. Cardinality(T \cup {Len(q) + 1}) = Cardinality(T) + 1
  BY <1>3, <1>5, FS_AddElement
<1> HIDE DEF T, U
<1>8. Cardinality(U) = Cardinality(T) + (IF e = s THEN 1 ELSE 0)
  BY <1>4, <1>6, <1>7
<1>9. QED BY <1>4, <1>8 DEF T, U

\* The numbers the count of the lines is about.
LEMMA HeardTypes ==
    ASSUME ChatShape
    PROVE  \A r, s \in Clients : WC!Heard(r, s) \in Nat /\ unread[s] \in Nat /\ lines[s] \in Nat
<1>1. ASSUME NEW r \in Clients, NEW s \in Clients PROVE WC!Heard(r, s) \in Nat
  <2>1. heard[r] \in Seq(Clients)
    BY DEF ChatShape
  <2>2. Cardinality({n \in DOMAIN heard[r] : heard[r][n] = s}) \in Nat
    BY <2>1, Counted
  <2>3. QED BY <2>2, SameCounts DEF WC!Heard
<1>2. QED BY <1>1 DEF ChatShape

\* Steps that send nothing, write nothing and read nothing.
LEMMA SentSame ==
    ASSUME Sent, UNCHANGED <<heard, unread, lines>>,
           ChatShape, \A r, s \in Clients : Pending(r, s)' => Pending(r, s)
    PROVE  Sent'
<1>1. \A r, s \in Clients : WC!Heard(r, s)' = WC!Heard(r, s)
  BY DEF WC!Heard
<1>2. \A r, s \in Clients : WC!Heard(r, s) \in Nat /\ unread[s] \in Nat /\ lines[s] \in Nat
  BY HeardTypes
<1>3. QED BY <1>1, <1>2 DEF Sent

\* Steps outside the server leave the registry; a line is written and unread.
LEMMA ChatRest ==
    ASSUME ChatOk, ChatShape', Owned',
           UNCHANGED <<kind, at, k, cnt, cur, clntCnt, clntSocks, hMutex, handle, text, heard>>,
           \A s \in Clients : \E n \in {0, 1} : unread'[s] = unread[s] + n /\ lines'[s] = lines[s] + n
    PROVE  ChatOk'
<1>1. Alone'
  BY DEF ChatOk, Alone, Busy, WC!Changing, WC!Reading
<1>2. Registered'
  BY DEF ChatOk, Registered, WC!Changing, Holds, All, Member, Gap
<1>3. Sent'
  <2>1. ASSUME NEW r \in Clients, NEW s \in Clients
        PROVE  (WC!Heard(r, s) + unread[s] + (IF Pending(r, s) THEN 1 ELSE 0) <= lines[s])'
    <3>1. (Pending(r, s)' <=> Pending(r, s)) /\ WC!Heard(r, s)' = WC!Heard(r, s)
      BY DEF Pending, WC!Heard
    <3>2. PICK n \in {0, 1} : unread'[s] = unread[s] + n /\ lines'[s] = lines[s] + n
      OBVIOUS
    <3>3. WC!Heard(r, s) \in Nat /\ unread[s] \in Nat /\ lines[s] \in Nat
      BY HeardTypes DEF ChatOk
    <3>4. QED BY <3>1, <3>2, <3>3 DEF ChatOk, Sent
  <2>2. QED BY <2>1 DEF Sent
<1>4. QED BY <1>1, <1>2, <1>3 DEF ChatOk

\* Who changes and who reads stays alone as long as nobody joins them.
LEMMA AloneSame ==
    ASSUME ChatShape, Alone, UNCHANGED kind,
           \A t \in WC!Threads : (WC!Changing(t)' => WC!Changing(t)) /\ (Busy(t)' => Busy(t)),
           kind = "mutex" => hMutex' = hMutex \/ \A t \in WC!Threads : ~Busy(t)'
    PROVE  Alone'
BY DEF Alone, Busy

\* A client joins the listen queue once, writes a line, reads on or leaves.
LEMMA ChatClient ==
    ASSUME ChatOk, NEW c \in Clients, WC!Client(c)
    PROVE  ChatOk'
<1> USE DEF WC!main, WC!registry, WC!tasks, WC!ghosts
<1>1. UNCHANGED <<kind, at, k, cnt, cur, hClntSock, clntCnt, clntSocks, hMutex, handle, hSock, text,
                  heard, misled, spoiled>>
  BY DEF WC!Client, WC!Connect, WC!SendMsg, WC!RecvMsg, WC!Leave
<1>2. /\ unread' \in [Clients -> Nat] /\ lines' \in [Clients -> Nat]
      /\ \A s \in Clients : \E n \in {0, 1} : unread'[s] = unread[s] + n /\ lines'[s] = lines[s] + n
  <2>1. CASE WC!SendMsg(c)
    <3>1. unread \in [Clients -> Nat] /\ lines \in [Clients -> Nat]
      BY DEF ChatOk, ChatShape
    <3>2. unread' = [unread EXCEPT ![c] = @ + 1] /\ lines' = [lines EXCEPT ![c] = @ + 1]
      BY <2>1 DEF WC!SendMsg
    <3>3. unread' \in [Clients -> Nat] /\ lines' \in [Clients -> Nat]
      BY <3>1, <3>2
    <3>4. ASSUME NEW s \in Clients
          PROVE  \E n \in {0, 1} : unread'[s] = unread[s] + n /\ lines'[s] = lines[s] + n
      <4>1. CASE s = c
        <5>1. unread'[s] = unread[s] + 1 /\ lines'[s] = lines[s] + 1
          BY <3>1, <3>2, <4>1
        <5>2. QED BY <5>1
      <4>2. CASE s # c
        <5>1. unread'[s] = unread[s] + 0 /\ lines'[s] = lines[s] + 0
          BY <3>1, <3>2, <4>2
        <5>2. QED BY <5>1
      <4>3. QED BY <4>1, <4>2
    <3>5. QED BY <3>3, <3>4
  <2>2. CASE WC!Connect(c) \/ WC!RecvMsg(c) \/ WC!Leave(c)
    <3>1. unread \in [Clients -> Nat] /\ lines \in [Clients -> Nat]
          /\ UNCHANGED <<unread, lines>>
      BY <2>2 DEF WC!Connect, WC!RecvMsg, WC!Leave, ChatOk, ChatShape
    <3>2. \A s \in Clients : unread'[s] = unread[s] + 0 /\ lines'[s] = lines[s] + 0
      BY <3>1
    <3>3. QED BY <3>1, <3>2
  <2>3. QED BY <2>1, <2>2 DEF WC!Client
<1>3. CASE WC!Connect(c)
  <2>1. conn[c] = "idle" /\ conn' = [conn EXCEPT ![c] = "open"] /\ backlog' = Append(backlog, c)
    BY <1>3 DEF WC!Connect
  <2>2. /\ backlog' \in Seq(Clients) /\ DOMAIN backlog' = DOMAIN backlog \cup {Len(backlog) + 1}
        /\ backlog'[Len(backlog) + 1] = c /\ Len(backlog) + 1 \notin DOMAIN backlog
        /\ \A n \in DOMAIN backlog : backlog'[n] = backlog[n]
    <3>1. backlog \in Seq(Clients) /\ backlog' = Append(backlog, c)
      BY <2>1 DEF ChatOk, ChatShape
    <3>2. QED BY <3>1, Appended
  <2>3. conn' \in [Clients -> {"idle", "open", "full", "fin", "rst"}]
        /\ \A d \in Clients : conn'[d] = (IF d = c THEN "open" ELSE conn[d])
    BY <2>1 DEF ChatOk, ChatShape
  <2>4. ChatShape'
    BY <1>1, <1>2, <2>2, <2>3 DEF ChatOk, ChatShape
  <2>5. ASSUME NEW d \in Clients
        PROVE  /\ (conn[d] = "idle" => ~Awaits(d))'
               /\ (conn[d] = "idle" \/ Awaits(d) => at[d] = "none" /\ ~Known(d))'
               /\ (\A m, n \in DOMAIN backlog : backlog[m] = d /\ backlog[n] = d => m = n)'
    <3>1. (Awaits(d)' <=> Awaits(d) \/ d = c) /\ (Known(d)' <=> Known(d)) /\ at'[d] = at[d]
      BY <1>1, <2>2 DEF Awaits, Known
    <3>2. (\A m, n \in DOMAIN backlog : backlog[m] = d /\ backlog[n] = d => m = n)'
      BY <2>1, <2>2 DEF ChatOk, Owned, Awaits
    <3>3. QED BY <2>1, <2>3, <3>1, <3>2 DEF ChatOk, Owned
  <2>6. Owned'
    BY <1>1, <2>5 DEF ChatOk, Owned, Known
  <2>7. QED BY <1>1, <1>2, <2>4, <2>6, ChatRest
<1>4. CASE WC!SendMsg(c) \/ WC!RecvMsg(c) \/ WC!Leave(c)
  <2>1. /\ conn' \in [Clients -> {"idle", "open", "full", "fin", "rst"}] /\ backlog' = backlog
        /\ \A d \in Clients : conn'[d] = "idle" => conn[d] = "idle"
    BY <1>4 DEF WC!SendMsg, WC!RecvMsg, WC!Leave, ChatOk, ChatShape
  <2>2. ChatShape'
    BY <1>1, <1>2, <2>1 DEF ChatOk, ChatShape
  <2>3. Owned'
    BY <1>1, <2>1 DEF ChatOk, Owned, Known, Awaits
  <2>4. QED BY <1>1, <1>2, <2>2, <2>3, ChatRest
<1>5. QED BY <1>3, <1>4 DEF WC!Client

\* A thread moves, and nothing of the connections does.
LEMMA OwnedMoves ==
    ASSUME ChatShape, Owned, UNCHANGED <<cur, hClntSock, handle, conn, backlog>>,
           NEW t \in Clients, NEW where \in Joined \cup Quits, at[t] \in Joined \cup Quits,
           WC!Go(t, where), where # "copy" => hSock'[t] = handle[t],
           where \in {"lock", "send"} => text'[t] = t,
           \A c \in Clients : c # t => hSock'[c] = hSock[c] /\ text'[c] = text[c]
    PROVE  Owned'
<1>1. /\ at'[t] = where /\ at'[WC!Main] = at[WC!Main]
      /\ \A c \in Clients : c # t => at'[c] = at[c]
  BY At, ChatNames
<1>2. at[t] # "none" /\ where # "none"
  BY DEF Joined, Quits
<1>3. \A c \in Clients : (Known(c)' <=> Known(c)) /\ (Awaits(c)' <=> Awaits(c))
  BY <1>1 DEF Known, Awaits
<1>4. at'[WC!Main] \in Joins => cur' \in Clients /\ at'[cur'] = "none" /\ hClntSock' = handle'[cur']
  BY <1>1, <1>2 DEF Owned
<1>5. ASSUME NEW c \in Clients
      PROVE  (/\ handle[c] # 0 <=> at[c] \in Joined \cup Quits \/ Known(c)
              /\ at[c] \in (Joined \ {"copy"}) \cup Quits => hSock[c] = handle[c]
              /\ at[c] \in {"lock", "send"} => text[c] = c
              /\ conn[c] = "idle" => ~Awaits(c)
              /\ conn[c] = "idle" \/ Awaits(c) => at[c] = "none" /\ ~Known(c)
              /\ \A m, n \in DOMAIN backlog : backlog[m] = c /\ backlog[n] = c => m = n)'
  <2>1. CASE c = t
    <3>1. handle[c] # 0 /\ ~(conn[c] = "idle" \/ Awaits(c))
      BY <1>2, <2>1 DEF Owned
    <3>2. where = "copy" => where \notin (Joined \ {"copy"}) \cup Quits
      BY DEF Quits
    <3>3. QED BY <1>1, <1>3, <2>1, <3>1, <3>2 DEF Owned
  <2>2. CASE c # t
    BY <1>1, <1>3, <2>2 DEF Owned
  <2>3. QED BY <2>1, <2>2
<1>6. QED BY <1>4, <1>5 DEF Owned

\* main goes on with its connection.
LEMMA OwnedMain ==
    ASSUME ChatShape, Owned, UNCHANGED <<cur, hClntSock, handle, conn, backlog, hSock, text>>,
           NEW where \in Joins, at[WC!Main] \in Joins, WC!Go(WC!Main, where)
    PROVE  Owned'
<1>1. at'[WC!Main] = where /\ \A c \in Clients : at'[c] = at[c]
  BY At, ChatNames
<1>2. \A c \in Clients : (Known(c)' <=> Known(c)) /\ (Awaits(c)' <=> Awaits(c))
  BY <1>1 DEF Known, Awaits
<1>3. QED BY <1>1, <1>2 DEF Owned

\* A task that goes on, and neither leaves nor changes anything.
LEMMA RegisteredMoves ==
    ASSUME ChatOk, NEW t \in Clients, NEW where \in Joined, at[t] \in Joined, WC!Go(t, where),
           UNCHANGED <<clntSocks, clntCnt, kind, cnt, cur, handle>>,
           \A u \in WC!Threads : u # t => k'[u] = k[u]
    PROVE  Registered'
<1>1. ChatShape /\ Registered /\ Owned /\ t \in WC!Threads
  BY ChatNames DEF ChatOk
<1>2. at'[t] = where /\ \A u \in WC!Threads : u # t => at'[u] = at[u]
  BY <1>1, At
<1>3. ~WC!Changing(t) /\ ~WC!Changing(t)'
  BY <1>2 DEF WC!Changing, Joined
<1>4. \A u \in WC!Threads : WC!Changing(u) \/ WC!Changing(u)' =>
         at'[u] = at[u] /\ k'[u] = k[u] /\ cnt'[u] = cnt[u]
  BY <1>2, <1>3
<1>5. WC!Changing(WC!Main) => cur' = cur /\ handle'[cur] = handle[cur] /\ cur \in Clients
  BY <1>1 DEF WC!Changing, Owned, Joins, ChatShape
<1>6. \A c \in Clients : Member(c)' <=> Member(c)
  BY <1>2, ChatNames DEF Member
<1>7. QED BY <1>1, <1>4, <1>5, <1>6, RegisteredSame

\* Who changes clntSocks or clntCnt does so alone.
LEMMA Only ==
    ASSUME ChatOk, NEW t \in WC!Threads, WC!Changing(t)
    PROVE  \A u \in WC!Threads : u # t => ~WC!Changing(u) /\ ~WC!Reading(u)
BY DEF ChatOk, Alone, Busy

\* While nobody reads, only a task that waits for the mutex has a line on its way.
LEMMA SentQuiet ==
    ASSUME ChatOk, UNCHANGED <<heard, unread, lines>>,
           \A s \in Clients : at'[s] # "send" /\ (at'[s] = "lock" => at[s] = "lock")
    PROVE  Sent'
BY SentSame DEF ChatOk, Pending

\* The thread that main has started takes main's variable for its own socket.
LEMMA ChatCopy ==
    ASSUME ChatOk, NEW t \in Clients, WC!Copy(t), ~misled'
    PROVE  ChatOk'
<1> USE DEF WC!main, WC!registry, WC!peers, WC!ghosts
<1>1. ChatShape /\ Owned /\ Alone /\ Registered /\ Sent /\ t \in WC!Threads
  BY ChatNames DEF ChatOk
<1>2. /\ at[t] = "copy" /\ hSock' = [hSock EXCEPT ![t] = hClntSock] /\ WC!Go(t, "recv")
      /\ hClntSock = handle[t] /\ spoiled' = spoiled /\ misled' = FALSE
      /\ UNCHANGED <<kind, cur, hClntSock, clntCnt, clntSocks, hMutex, handle, k, cnt, text,
                     backlog, conn, unread, lines, heard>>
  BY <1>1 DEF WC!Copy, ChatShape
<1>3. at'[t] = "recv" /\ at' = [at EXCEPT ![t] = "recv"]
      /\ \A u \in WC!Threads : u # t => at'[u] = at[u]
  BY <1>1, <1>2, At
<1>4. hSock' \in [Clients -> Nat] /\ hSock'[t] = handle[t]
      /\ \A c \in Clients : c # t => hSock'[c] = hSock[c]
  BY <1>1, <1>2 DEF ChatShape
<1>5. ChatShape'
  BY <1>1, <1>2, <1>3, <1>4, ChatNames DEF ChatShape, Joined
<1>6. Owned'
  BY <1>1, <1>2, <1>4, OwnedMoves DEF Joined
<1>7. Registered'
  BY <1>2, RegisteredMoves DEF Joined, ChatOk
<1>8. Alone'
  BY <1>1, <1>2, <1>3, AloneSame DEF Busy, WC!Changing, WC!Reading
<1>9. Sent'
  <2>1. \A r, s \in Clients : Pending(r, s)' => Pending(r, s)
    BY <1>2, <1>3, ChatNames DEF Pending
  <2>2. QED BY <1>1, <1>2, <2>1, SentSame
<1>10. QED BY <1>5, <1>6, <1>7, <1>8, <1>9 DEF ChatOk

\* A line is taken from the connection of the task, or its end noticed.
LEMMA ChatRecv ==
    ASSUME ChatOk, NEW t \in Clients, WC!Recv(t)
    PROVE  ChatOk'
<1> USE DEF WC!main, WC!registry, WC!ghosts
<1>1. ChatShape /\ Owned /\ Alone /\ Registered /\ Sent /\ t \in WC!Threads
  BY ChatNames DEF ChatOk
<1>2. /\ at[t] = "recv"
      /\ UNCHANGED <<kind, cur, hClntSock, clntCnt, clntSocks, hMutex, handle, k, cnt, hSock,
                     backlog, conn, lines, heard, misled, spoiled>>
  BY DEF WC!Recv
<1>3. hSock[t] = handle[t] /\ handle[t] # 0
  BY <1>1, <1>2 DEF Owned, Joined
<1>4. WC!Behind(hSock[t]) = {t}
  BY <1>1, <1>3, ChatNames DEF Owned, WC!Behind
<1>5. PICK where \in {"lock", "leave", "stuck"} :
        /\ WC!Go(t, where)
        /\ \/ /\ where = "lock" /\ unread[t] > 0 /\ unread' = [unread EXCEPT ![t] = @ - 1]
              /\ text' = [text EXCEPT ![t] = t]
           \/ where # "lock" /\ UNCHANGED <<unread, text>>
  BY <1>4 DEF WC!Recv
<1>6. at'[t] = where /\ at' = [at EXCEPT ![t] = where]
      /\ \A u \in WC!Threads : u # t => at'[u] = at[u]
  BY <1>1, <1>5, At
<1>7. /\ text' \in [Clients -> Clients \cup {NoOne}] /\ (where = "lock" => text'[t] = t)
      /\ \A c \in Clients : c # t => text'[c] = text[c]
  <2>1. text \in [Clients -> Clients \cup {NoOne}]
    BY <1>1 DEF ChatShape
  <2>2. CASE where = "lock"
    <3>1. text' = [text EXCEPT ![t] = t]
      BY <1>5, <2>2
    <3>2. QED BY <2>1, <2>2, <3>1
  <2>3. CASE where # "lock"
    <3>1. text' = text
      BY <1>5, <2>3
    <3>2. QED BY <2>1, <2>3, <3>1
  <2>4. QED BY <2>2, <2>3
<1>8. /\ unread' \in [Clients -> Nat] /\ \A c \in Clients : c # t => unread'[c] = unread[c]
      /\ unread'[t] = unread[t] - (IF where = "lock" THEN 1 ELSE 0)
  <2>1. unread \in [Clients -> Nat]
    BY <1>1 DEF ChatShape
  <2>2. CASE where = "lock"
    <3>1. unread' = [unread EXCEPT ![t] = unread[t] - 1] /\ unread[t] - 1 \in Nat
      BY <1>5, <2>1, <2>2
    <3>2. QED BY <2>1, <2>2, <3>1
  <2>3. CASE where # "lock"
    BY <1>5, <2>1, <2>3
  <2>4. QED BY <2>2, <2>3
<1>9. ChatShape'
  <2>1. /\ at' \in [WC!Threads -> {"accept", "none", "done", "file", "start"} \cup Joined \cup Quits]
        /\ at'[WC!Main] = at[WC!Main] /\ \A c \in Clients : at'[c] = at[c] \/ at'[c] \in Joined
    BY <1>1, <1>6, ChatNames DEF ChatShape, Joined
  <2>2. QED BY <1>1, <1>2, <1>7, <1>8, <2>1 DEF ChatShape
<1>10. Owned'
  BY <1>1, <1>2, <1>3, <1>5, <1>7, OwnedMoves DEF Joined
<1>11. Registered'
  BY <1>2, <1>5, RegisteredMoves DEF Joined, ChatOk
<1>12. Alone'
  BY <1>1, <1>2, <1>6, AloneSame DEF Busy, WC!Changing, WC!Reading
<1>13. ASSUME NEW r \in Clients, NEW s \in Clients
       PROVE  (WC!Heard(r, s) + unread[s] + (IF Pending(r, s) THEN 1 ELSE 0) <= lines[s])'
  <2>1. WC!Heard(r, s)' = WC!Heard(r, s)
    BY <1>2 DEF WC!Heard
  <2>2. WC!Heard(r, s) \in Nat /\ unread[s] \in Nat /\ lines[s] \in Nat
    BY <1>1, HeardTypes
  <2>3. CASE s = t
    <3>1. ~Pending(r, s) /\ (Pending(r, s)' <=> where = "lock")
      BY <1>2, <1>6, <2>3 DEF Pending
    <3>2. QED BY <1>1, <1>2, <1>8, <2>1, <2>2, <2>3, <3>1 DEF Sent
  <2>4. CASE s # t
    <3>1. Pending(r, s)' <=> Pending(r, s)
      BY <1>2, <1>6, <2>4, ChatNames DEF Pending
    <3>2. QED BY <1>1, <1>2, <1>8, <2>1, <2>2, <2>4, <3>1 DEF Sent
  <2>5. QED BY <2>3, <2>4
<1>14. Sent'
  BY <1>13 DEF Sent
<1>15. QED BY <1>9, <1>10, <1>11, <1>12, <1>14 DEF ChatOk

\* The broadcast is over: the mutex is released, the line is with nobody.
LEMMA ChatSent ==
    ASSUME ChatOk, NEW t \in Clients, WC!Sent(t)
    PROVE  ChatOk'
<1> USE DEF WC!main, WC!registry, WC!peers, WC!ghosts
<1>1. ChatShape /\ Owned /\ Alone /\ Registered /\ Sent /\ t \in WC!Threads
  BY ChatNames DEF ChatOk
<1>2. /\ at[t] = "send" /\ text' = [text EXCEPT ![t] = NoOne] /\ hMutex' = NoOne
      /\ UNCHANGED <<kind, cur, hClntSock, clntCnt, clntSocks, handle, k, cnt, hSock,
                     backlog, conn, unread, lines, heard, misled, spoiled>>
  BY DEF WC!Sent
<1>3. PICK where \in {"recv", "stuck"} : WC!Go(t, where)
  BY DEF WC!Sent, WC!Repost
<1>4. at'[t] = where /\ at' = [at EXCEPT ![t] = where]
      /\ \A u \in WC!Threads : u # t => at'[u] = at[u]
  BY <1>1, <1>3, At
<1>5. /\ text' \in [Clients -> Clients \cup {NoOne}]
      /\ \A c \in Clients : c # t => text'[c] = text[c]
  BY <1>1, <1>2 DEF ChatShape
<1>6. ChatShape'
  BY <1>1, <1>2, <1>4, <1>5, ChatNames DEF ChatShape, Joined
<1>7. hSock'[t] = handle[t]
  BY <1>1, <1>2 DEF Owned, Joined
<1>8. Owned'
  BY <1>1, <1>2, <1>3, <1>5, <1>7, OwnedMoves DEF Joined
<1>9. Registered'
  BY <1>2, <1>3, RegisteredMoves DEF Joined, ChatOk
<1>10. Alone'
  <2>1. kind = "mutex" => \A u \in WC!Threads : ~Busy(u)'
    BY <1>1, <1>2, <1>4 DEF Alone, Busy, WC!Changing, WC!Reading
  <2>2. \A u \in WC!Threads : (WC!Changing(u)' => WC!Changing(u)) /\ (Busy(u)' => Busy(u))
    BY <1>4 DEF Busy, WC!Changing, WC!Reading
  <2>3. QED BY <1>1, <1>2, <2>1, <2>2, AloneSame
<1>11. Sent'
  <2>1. \A r, s \in Clients : Pending(r, s)' => Pending(r, s)
    BY <1>2, <1>4, ChatNames DEF Pending
  <2>2. QED BY <1>1, <1>2, <2>1, SentSame
<1>12. QED BY <1>6, <1>8, <1>9, <1>10, <1>11 DEF ChatOk

\* A broadcast, a removal or main begins: with the mutex, or where no other thread is
\* at work on the two variables.
LEMMA ChatLock ==
    ASSUME ChatOk, NEW t \in WC!Threads, WC!Lock(t), ~spoiled'
    PROVE  ChatOk'
<1> USE DEF WC!main, WC!registry, WC!peers, WC!ghosts
<1>1. ChatShape /\ Owned /\ Alone /\ Registered /\ Sent
  BY DEF ChatOk
<1> DEFINE where == IF t = WC!Main THEN "file" ELSE IF at[t] = "lock" THEN "send" ELSE "scan"
<1>2. /\ at[t] \in {"lock", "leave"} /\ hMutex = NoOne
      /\ hMutex' = (IF kind = "mutex" THEN t ELSE NoOne)
      /\ k' = [k EXCEPT ![t] = 0] /\ WC!Go(t, where)
      /\ UNCHANGED <<kind, cur, hClntSock, clntCnt, clntSocks, handle, cnt, hSock, text,
                     backlog, conn, unread, lines, heard, misled>>
  BY DEF WC!Lock
<1>3. ~WC!Meets(t) /\ spoiled' = FALSE
  BY <1>1 DEF WC!Lock, ChatShape
<1>4. /\ \A u \in WC!Threads : ~WC!Changing(u)
      /\ kind = "mutex" \/ t = WC!Main \/ at[t] = "leave" => \A u \in WC!Threads : ~Busy(u)
  <2>1. CASE kind = "mutex"
    BY <1>1, <1>2, <2>1, ChatNames DEF Alone, Busy
  <2>2. CASE kind = "port"
    BY <1>3, <2>2 DEF WC!Meets, Busy
  <2>3. QED BY <1>1, <2>1, <2>2 DEF ChatShape
<1>5. at'[t] = where /\ at' = [at EXCEPT ![t] = where]
      /\ \A u \in WC!Threads : u # t => at'[u] = at[u]
  BY <1>1, <1>2, At
<1>6. k' \in [WC!Threads -> Nat] /\ k'[t] = 0 /\ \A u \in WC!Threads : u # t => k'[u] = k[u]
  BY <1>1, <1>2 DEF ChatShape
<1>7. t = WC!Main \/ t \in Clients
  BY ChatNames
<1>8. ChatShape'
  <2>1. t = WC!Main => at' = [at EXCEPT ![t] = "file"]
    BY <1>5
  <2>2. t # WC!Main => at'[WC!Main] = at[WC!Main] /\ t \in Clients /\ where \in {"send", "scan"}
    BY <1>5, <1>7, ChatNames
  <2> HIDE DEF where
  <2>3. CASE t = WC!Main
    BY <1>1, <1>2, <1>3, <1>5, <1>6, <2>1, <2>3, ChatNames DEF ChatShape, Joins
  <2>4. CASE t # WC!Main
    <3>1. where \in Joined \cup Quits
      BY <2>2, <2>4 DEF Joined, Quits
    <3>2. /\ at' \in [WC!Threads -> {"accept", "none", "done", "file", "start"} \cup Joined \cup Quits]
          /\ \A c \in Clients : at'[c] = at[c] \/ at'[c] \in Joined \cup Quits
      BY <1>1, <1>5, <2>2, <2>4, <3>1, ChatNames DEF ChatShape
    <3>3. QED BY <1>1, <1>2, <1>3, <1>6, <2>2, <2>4, <3>2 DEF ChatShape
  <2>5. QED BY <2>3, <2>4
<1>9. Owned'
  <2>1. CASE t = WC!Main
    <3>1. WC!Go(WC!Main, "file") /\ at[WC!Main] \in Joins /\ "file" \in Joins
      BY <1>1, <1>2, <2>1 DEF ChatShape, Joined, Joins
    <3>2. QED BY <1>1, <1>2, <3>1, OwnedMain
  <2>2. CASE t \in Clients
    <3>1. hSock'[t] = handle[t] /\ (at[t] = "lock" => text'[t] = t) /\ at[t] \in Joined
      BY <1>1, <1>2, <2>2 DEF Owned, Joined
    <3>2. where \in Joined \cup Quits /\ (where \in {"lock", "send"} => at[t] = "lock")
      BY <2>2, ChatNames DEF Joined, Quits
    <3> HIDE DEF where
    <3>3. QED BY <1>1, <1>2, <2>2, <3>1, <3>2, OwnedMoves
  <2>3. QED BY <1>7, <2>1, <2>2
<1>10. Alone'
  <2>1. kind = "mutex" \/ WC!Changing(t)' => \A u \in WC!Threads : ~Busy(u)
    BY <1>2, <1>4, <1>5 DEF WC!Changing
  <2>2. \A u \in WC!Threads : u # t => (WC!Changing(u)' <=> WC!Changing(u)) /\ (Busy(u)' <=> Busy(u))
    BY <1>5 DEF WC!Changing, WC!Reading, Busy
  <2>3. QED BY <1>2, <1>4, <2>1, <2>2 DEF Alone
<1>11. Registered'
  <2>1. Holds(0..clntCnt - 1, All)
    BY <1>1, <1>4 DEF Registered
  <2>2. CASE t = WC!Main
    <3>1. All' = All
      BY <1>2, <1>5, <2>2, ChatNames DEF All, Member
    <3>2. Holds(0..clntCnt - 1, All)'
      BY <1>2, <2>1, <3>1 DEF Holds
    <3>3. /\ at'[WC!Main] = "file" /\ WC!Changing(WC!Main)' /\ WC!Main \in WC!Threads
          /\ \A c \in Clients : at'[c] \notin {"scan", "shift", "load", "store"}
      BY <1>4, <1>5, <2>2, ChatNames DEF WC!Changing
    <3>4. QED BY <3>2, <3>3 DEF Registered
  <2>3. CASE t \in Clients /\ at[t] = "leave"
    <3>1. All' \cup {t} = All
      BY <1>2, <1>5, <2>3, ChatNames DEF All, Member, Joined
    <3>2. Holds(0..clntCnt - 1, All \cup {t})'
      BY <1>2, <2>1, <3>1 DEF Holds
    <3>3. at'[t] = "scan" /\ WC!Changing(t)'
      BY <1>5, <2>3, ChatNames DEF WC!Changing
    <3>4. /\ at'[WC!Main] \notin {"file", "load", "store"}
          /\ \A c \in Clients : c # t => at'[c] \notin {"scan", "shift", "load", "store"}
      BY <1>4, <1>5, <2>3, ChatNames DEF WC!Changing
    <3>5. \A n \in 0..clntCnt' - 1 : ~(n < k'[t])
      BY <1>6
    <3>6. QED BY <2>3, <3>2, <3>3, <3>4, <3>5 DEF Registered
  <2>4. CASE t \in Clients /\ at[t] = "lock"
    <3>1. where = "send" /\ "send" \in Joined /\ at[t] \in Joined
      BY <2>4, ChatNames DEF Joined
    <3>2. QED BY <1>2, <1>6, <2>4, <3>1, RegisteredMoves
  <2>5. QED BY <1>2, <1>7, <2>2, <2>3, <2>4
<1>12. Sent'
  <2>1. ASSUME NEW r \in Clients, NEW s \in Clients, Pending(r, s)' PROVE Pending(r, s)
    <3>1. CASE s = t
      <4>1. at[s] = "lock"
        BY <1>5, <2>1, <3>1, ChatNames DEF Pending
      <4>2. QED BY <4>1 DEF Pending
    <3>2. CASE s # t
      BY <1>2, <1>5, <1>6, <2>1, <3>2, ChatNames DEF Pending
    <3>3. QED BY <3>1, <3>2
  <2>2. QED BY <1>1, <1>2, <2>1, SentSame
<1>13. QED BY <1>8, <1>9, <1>10, <1>11, <1>12 DEF ChatOk

\* Where the threads are, after one has moved.
LEMMA Places ==
    ASSUME ChatShape, NEW t \in WC!Threads, NEW where, WC!Go(t, where),
           IF t = WC!Main THEN where \in {"accept"} \cup Joins
                          ELSE where \in {"none", "done"} \cup Joined \cup Quits
    PROVE  /\ at' \in [WC!Threads -> {"accept", "none", "done", "file", "start"} \cup Joined \cup Quits]
           /\ at'[WC!Main] \in {"accept"} \cup Joins
           /\ \A c \in Clients : at'[c] \in {"none", "done"} \cup Joined \cup Quits
<1>1. /\ at'[t] = where /\ at' = [at EXCEPT ![t] = where]
      /\ \A u \in WC!Threads : u # t => at'[u] = at[u]
  BY At
<1>2. where \in {"accept", "none", "done", "file", "start"} \cup Joined \cup Quits
  BY DEF Joins, Joined, Quits
<1>3. /\ at \in [WC!Threads -> {"accept", "none", "done", "file", "start"} \cup Joined \cup Quits]
      /\ at[WC!Main] \in {"accept"} \cup Joins
      /\ \A c \in Clients : at[c] \in {"none", "done"} \cup Joined \cup Quits
  BY DEF ChatShape
<1>4. QED BY <1>1, <1>2, <1>3, ChatNames

\* main files the socket behind the others.
LEMMA ChatFile ==
    ASSUME ChatOk, WC!File
    PROVE  ChatOk'
<1> USE DEF WC!main, WC!peers, WC!ghosts
<1>1. ChatShape /\ Owned /\ Alone /\ Registered /\ Sent /\ WC!Main \in WC!Threads
  BY ChatNames DEF ChatOk
<1>2. /\ at[WC!Main] = "file" /\ WC!Go(WC!Main, "load")
      /\ clntSocks' = [clntSocks EXCEPT ![clntCnt] = hClntSock]
      /\ UNCHANGED <<kind, cur, hClntSock, clntCnt, hMutex, handle, k, cnt, hSock, text,
                     backlog, conn, unread, lines, heard, misled, spoiled>>
  BY DEF WC!File
<1>3. /\ at'[WC!Main] = "load" /\ at' = [at EXCEPT ![WC!Main] = "load"]
      /\ \A c \in Clients : at'[c] = at[c]
  BY <1>1, <1>2, At, ChatNames
<1>4. \A c \in Clients : at[c] \notin {"scan", "shift", "load", "store", "send"}
  BY <1>1, <1>2, Only, ChatNames DEF WC!Changing, WC!Reading
<1>5. cur \in Clients /\ hClntSock = handle[cur] /\ handle[cur] # 0 /\ at[cur] = "none"
  BY <1>1, <1>2 DEF Owned, Joins, Known
<1>6. clntCnt \in WC!Indices /\ handle[cur] \in Nat
  BY <1>1, <1>5, ChatNames DEF ChatShape
<1>7. /\ clntSocks' \in [WC!Indices -> Nat] /\ clntSocks'[clntCnt] = handle[cur]
      /\ \A n \in 0..clntCnt - 1 : clntSocks'[n] = clntSocks[n]
  <2>1. clntSocks \in [WC!Indices -> Nat]
    BY <1>1 DEF ChatShape
  <2>2. clntSocks' \in [WC!Indices -> Nat] /\ clntSocks'[clntCnt] = handle[cur]
    BY <1>2, <1>5, <1>6, <2>1
  <2>3. \A n \in 0..clntCnt - 1 : n # clntCnt /\ n \in WC!Indices
    BY <1>1, ChatNames DEF ChatShape
  <2>4. QED BY <1>2, <2>1, <2>2, <2>3
<1>8. ChatShape'
  <2>1. /\ at' \in [WC!Threads -> {"accept", "none", "done", "file", "start"} \cup Joined \cup Quits]
        /\ at'[WC!Main] \in {"accept"} \cup Joins
        /\ \A c \in Clients : at'[c] \in {"none", "done"} \cup Joined \cup Quits
    BY <1>1, <1>2, Places DEF Joins
  <2>2. QED BY <1>1, <1>2, <1>7, <2>1 DEF ChatShape
<1>9. Owned'
  BY <1>1, <1>2, OwnedMain DEF Joins
<1>10. Alone'
  BY <1>1, <1>2, <1>3, ChatNames, AloneSame DEF Busy, WC!Changing, WC!Reading
<1>11. Registered'
  <2>1. Holds(0..clntCnt - 1, All) /\ All' = All
    BY <1>1, <1>2, <1>3 DEF Registered, All, Member
  <2>2. cur \notin All /\ All \subseteq Clients
    BY <1>2, <1>5 DEF All, Member, Joined
  <2>3. Holds(0..clntCnt, All \cup {cur})'
    <3>1. \A n \in 0..clntCnt : n = clntCnt \/ n \in 0..clntCnt - 1
      BY <1>1 DEF ChatShape
    <3>2. clntCnt \in 0..clntCnt /\ \A n \in 0..clntCnt - 1 : n \in 0..clntCnt
      BY <1>1 DEF ChatShape
    <3>3. \A n \in 0..clntCnt : \E c \in All \cup {cur} : clntSocks'[n] = handle[c]
      BY <1>7, <2>1, <3>1 DEF Holds
    <3>4. \A c \in All \cup {cur} : \E n \in 0..clntCnt : clntSocks'[n] = handle[c]
      BY <1>7, <2>1, <3>2 DEF Holds
    <3>5. \A n \in 0..clntCnt - 1 : clntSocks[n] # handle[cur]
      BY <1>1, <1>5, <2>1, <2>2 DEF Holds, Owned
    <3>6. \A m, n \in 0..clntCnt : clntSocks'[m] = clntSocks'[n] => m = n
      BY <1>7, <2>1, <3>1, <3>5 DEF Holds
    <3>7. QED BY <1>2, <2>1, <3>3, <3>4, <3>6 DEF Holds
  <2>4. WC!Changing(WC!Main)'
    BY <1>3 DEF WC!Changing
  <2>5. QED BY <1>1, <1>3, <1>4, <2>3, <2>4 DEF Registered
<1>12. Sent'
  BY <1>2, <1>3, <1>4, SentQuiet
<1>13. QED BY <1>8, <1>9, <1>10, <1>11, <1>12 DEF ChatOk

\* clntCnt++ and clntCnt--: the value is loaded, and nobody else can change it.
LEMMA ChatLoad ==
    ASSUME ChatOk, NEW t \in WC!Threads, WC!Load(t)
    PROVE  ChatOk'
<1> USE DEF WC!main, WC!registry, WC!peers, WC!ghosts
<1>1. ChatShape /\ Owned /\ Alone /\ Registered /\ Sent
  BY DEF ChatOk
<1>2. /\ at[t] = "load" /\ WC!Go(t, "store") /\ cnt' = [cnt EXCEPT ![t] = clntCnt]
      /\ UNCHANGED <<kind, cur, hClntSock, clntCnt, clntSocks, hMutex, handle, k, hSock, text,
                     backlog, conn, unread, lines, heard, misled, spoiled>>
  BY DEF WC!Load
<1>3. /\ at'[t] = "store" /\ at' = [at EXCEPT ![t] = "store"]
      /\ \A u \in WC!Threads : u # t => at'[u] = at[u]
  BY <1>1, <1>2, At
<1>4. \A u \in WC!Threads : u # t => at[u] \notin {"file", "scan", "shift", "load", "store", "send"}
  BY <1>2, Only DEF WC!Changing, WC!Reading
<1>5. cnt' \in [WC!Threads -> Int] /\ cnt'[t] = clntCnt
  BY <1>1, <1>2 DEF ChatShape
<1>6. ChatShape'
  <2>1. /\ at' \in [WC!Threads -> {"accept", "none", "done", "file", "start"} \cup Joined \cup Quits]
        /\ at'[WC!Main] \in {"accept"} \cup Joins
        /\ \A c \in Clients : at'[c] \in {"none", "done"} \cup Joined \cup Quits
    BY <1>1, <1>2, Places DEF Joins, Quits
  <2>2. QED BY <1>1, <1>2, <1>5, <2>1 DEF ChatShape
<1>7. t = WC!Main \/ t \in Clients
  BY ChatNames
<1>8. Owned'
  <2>1. CASE t = WC!Main
    BY <1>1, <1>2, <2>1, OwnedMain DEF Joins
  <2>2. CASE t \in Clients
    <3>1. hSock'[t] = handle[t]
      BY <1>1, <1>2, <2>2 DEF Owned, Quits, Joined
    <3>2. QED BY <1>1, <1>2, <2>2, <3>1, OwnedMoves DEF Quits
  <2>3. QED BY <1>7, <2>1, <2>2
<1>9. Alone'
  BY <1>1, <1>2, <1>3, AloneSame DEF Busy, WC!Changing, WC!Reading
<1>10. Registered'
  <2>1. WC!Changing(t)'
    BY <1>3 DEF WC!Changing
  <2>2. All' = All
    BY <1>2, <1>3, <1>7, ChatNames DEF All, Member, Joined
  <2>3. CASE t = WC!Main
    <3>1. Holds(0..clntCnt, All \cup {cur})'
      BY <1>1, <1>2, <2>2, <2>3 DEF Registered, Holds
    <3>2. \A c \in Clients : at'[c] \notin {"scan", "shift", "load", "store"}
      BY <1>3, <1>4, <2>3, ChatNames
    <3>3. QED BY <1>2, <1>3, <1>5, <2>1, <2>3, <3>1, <3>2 DEF Registered
  <2>4. CASE t \in Clients
    <3>1. clntCnt > 0 /\ Holds(0..clntCnt - 2, All)'
      BY <1>1, <1>2, <2>2, <2>4 DEF Registered, Holds
    <3>2. /\ \A c \in Clients : c # t => at'[c] \notin {"scan", "shift", "load", "store"}
          /\ at'[WC!Main] \notin {"file", "load", "store"}
      BY <1>3, <1>4, <2>4, ChatNames
    <3>3. QED BY <1>2, <1>3, <1>5, <2>1, <2>4, <3>1, <3>2 DEF Registered
  <2>5. QED BY <1>7, <2>3, <2>4
<1>11. Sent'
  BY <1>2, <1>3, <1>4, ChatNames, SentQuiet
<1>12. QED BY <1>6, <1>8, <1>9, <1>10, <1>11 DEF ChatOk

\* The new value is stored, and the mutex released: nobody waits for anything else.
LEMMA ChatStore ==
    ASSUME ChatOk, NEW t \in WC!Threads, WC!Store(t)
    PROVE  ChatOk'
<1> USE DEF WC!main, WC!peers, WC!ghosts
<1>1. ChatShape /\ Owned /\ Alone /\ Registered /\ Sent
  BY DEF ChatOk
<1> DEFINE where == IF t = WC!Main THEN "start" ELSE "close"
<1>2. /\ at[t] = "store" /\ WC!Go(t, where) /\ hMutex' = NoOne
      /\ clntCnt' = cnt[t] + (IF t = WC!Main THEN 1 ELSE -1)
      /\ UNCHANGED <<kind, cur, hClntSock, clntSocks, handle, k, cnt, hSock, text,
                     backlog, conn, unread, lines, heard, misled, spoiled>>
  BY DEF WC!Store
<1>3. at'[t] = where /\ at' = [at EXCEPT ![t] = where]
      /\ \A u \in WC!Threads : u # t => at'[u] = at[u]
  BY <1>1, <1>2, At
<1>4. \A u \in WC!Threads : u # t => at[u] \notin {"file", "scan", "shift", "load", "store", "send"}
  BY <1>2, Only DEF WC!Changing, WC!Reading
<1>5. \A u \in WC!Threads : at'[u] \notin {"file", "scan", "shift", "load", "store", "send"}
  BY <1>3, <1>4
<1>6. t = WC!Main \/ t \in Clients
  BY ChatNames
<1>7. cnt[t] = clntCnt
  BY <1>1, <1>2, <1>6 DEF Registered
<1>8. All' = (IF t = WC!Main THEN All \cup {cur} ELSE All) /\ All \subseteq Clients
  <2>1. CASE t = WC!Main
    <3>1. cur \in Clients /\ at'[WC!Main] = "start" /\ \A c \in Clients : at'[c] = at[c]
      BY <1>1, <1>2, <1>3, <2>1, ChatNames DEF Owned, Joins
    <3>2. \A c \in Clients : Member(c)' <=> Member(c) \/ c = cur
      BY <1>2, <2>1, <3>1 DEF Member
    <3>3. QED BY <2>1, <3>1, <3>2 DEF All
  <2>2. CASE t \in Clients
    <3>1. \A c \in Clients : Member(c)' <=> Member(c)
      BY <1>2, <1>3, <2>2, ChatNames DEF Member, Joined
    <3>2. QED BY <2>2, <3>1, ChatNames DEF All
  <2>3. QED BY <1>6, <2>1, <2>2
<1>9. clntCnt' \in Nat /\ Holds(0..clntCnt' - 1, All')
  <2>1. CASE t = WC!Main
    <3>1. clntCnt' = clntCnt + 1 /\ clntCnt' - 1 = clntCnt /\ clntCnt' \in Nat
      BY <1>1, <1>2, <1>7, <2>1 DEF ChatShape
    <3>2. Holds(0..clntCnt, All \cup {cur})
      BY <1>1, <1>2, <2>1 DEF Registered
    <3>3. All' = All \cup {cur}
      BY <1>8, <2>1
    <3>4. QED BY <3>1, <3>2, <3>3
  <2>2. CASE t \in Clients
    <3>1. clntCnt > 0 /\ Holds(0..clntCnt - 2, All)
      BY <1>1, <1>2, <2>2 DEF Registered
    <3>2. clntCnt' \in Nat /\ clntCnt' - 1 = clntCnt - 2
      BY <1>1, <1>2, <1>7, <2>2, <3>1, ChatNames DEF ChatShape
    <3>3. All' = All
      BY <1>8, <2>2, ChatNames
    <3>4. QED BY <3>1, <3>2, <3>3
  <2>3. QED BY <1>6, <2>1, <2>2
<1>10. Owned'
  <2>1. CASE t = WC!Main
    <3>1. WC!Go(WC!Main, "start") /\ at[WC!Main] \in Joins /\ "start" \in Joins
      BY <1>2, <2>1 DEF Joins
    <3>2. QED BY <1>1, <1>2, <3>1, OwnedMain
  <2>2. CASE t \in Clients
    <3>1. hSock'[t] = handle[t] /\ WC!Go(t, "close")
      BY <1>1, <1>2, <2>2, ChatNames DEF Owned, Quits, Joined
    <3>2. QED BY <1>1, <1>2, <2>2, <3>1, OwnedMoves DEF Quits
  <2>3. QED BY <1>6, <2>1, <2>2
<1>11. clntCnt' <= Cardinality(Clients)
  <2>1. All' \in SUBSET Clients
    BY DEF All
  <2>2. \A c \in Clients : c \in All' => handle'[c] # 0
    BY <1>10 DEF Owned, All, Member, Known, Joins
  <2>3. \A c, d \in All' : handle[c] = handle[d] => c = d
    BY <1>2, <1>10, <2>1, <2>2 DEF Owned
  <2>4. QED BY <1>9, <2>1, <2>3, HoldsCount
<1>12. ChatShape'
  <2>1. /\ at' \in [WC!Threads -> {"accept", "none", "done", "file", "start"} \cup Joined \cup Quits]
        /\ at'[WC!Main] \in {"accept"} \cup Joins
        /\ \A c \in Clients : at'[c] \in {"none", "done"} \cup Joined \cup Quits
    BY <1>1, <1>2, Places DEF Joins, Quits
  <2>2. QED BY <1>1, <1>2, <1>9, <1>11, <2>1 DEF ChatShape
<1>13. Alone'
  BY <1>5 DEF Alone, Busy, WC!Changing, WC!Reading
<1>14. Registered'
  <2>1. Holds(0..clntCnt - 1, All)'
    BY <1>2, <1>9 DEF Holds
  <2>2. QED BY <1>5, <2>1, ChatNames DEF Registered
<1>15. Sent'
  <2>1. \A s \in Clients : at'[s] = "lock" => at[s] = "lock"
    BY <1>3, ChatNames
  <2>2. QED BY <1>2, <1>5, <2>1, ChatNames, SentQuiet
<1>16. QED BY <1>10, <1>12, <1>13, <1>14, <1>15 DEF ChatOk

\* The search passes the entries of the others and finds that of t.
LEMMA ChatScan ==
    ASSUME ChatOk, NEW t \in Clients, WC!Scan(t)
    PROVE  ChatOk'
<1> USE DEF WC!main, WC!registry, WC!peers, WC!ghosts
<1>1. ChatShape /\ Owned /\ Alone /\ Registered /\ Sent /\ t \in WC!Threads
  BY ChatNames DEF ChatOk
<1>2. /\ at[t] = "scan"
      /\ UNCHANGED <<kind, cur, hClntSock, clntCnt, clntSocks, hMutex, handle, cnt, hSock, text,
                     backlog, conn, unread, lines, heard, misled, spoiled>>
  BY DEF WC!Scan
<1>3. \A u \in WC!Threads : u # t => at[u] \notin {"file", "scan", "shift", "load", "store", "send"}
  BY <1>1, <1>2, Only DEF WC!Changing, WC!Reading
<1>4. hSock[t] = handle[t] /\ handle[t] # 0
  BY <1>1, <1>2 DEF Owned, Quits, Joined
<1>5. /\ Holds(0..clntCnt - 1, All \cup {t}) /\ k[t] \in Nat /\ clntCnt \in Nat
      /\ \A n \in 0..clntCnt - 1 : n < k[t] => clntSocks[n] # handle[t]
  BY <1>1, <1>2 DEF Registered, ChatShape
<1>6. k[t] < clntCnt
  <2>1. PICK n \in 0..clntCnt - 1 : clntSocks[n] = handle[t]
    BY <1>5 DEF Holds
  <2>2. QED BY <1>5, <2>1
<1>7. t \notin All /\ All \subseteq Clients
  <2>1. ~(at[WC!Main] = "start" /\ cur = t)
    BY <1>1, <1>2 DEF Owned, Joins
  <2>2. QED BY <1>2, <2>1 DEF All, Member, Joined
<1>8. CASE clntSocks[k[t]] = handle[t]
  <2>1. WC!Go(t, "shift") /\ k' = k
    BY <1>4, <1>5, <1>6, <1>8 DEF WC!Scan
  <2>2. /\ at'[t] = "shift" /\ at' = [at EXCEPT ![t] = "shift"]
        /\ \A u \in WC!Threads : u # t => at'[u] = at[u]
    BY <1>1, <2>1, At
  <2>3. ChatShape'
    <3>1. /\ at' \in [WC!Threads -> {"accept", "none", "done", "file", "start"} \cup Joined \cup Quits]
          /\ at'[WC!Main] \in {"accept"} \cup Joins
          /\ \A c \in Clients : at'[c] \in {"none", "done"} \cup Joined \cup Quits
      BY <1>1, <2>1, Places, ChatNames DEF Joins, Quits
    <3>2. QED BY <1>1, <1>2, <2>1, <3>1 DEF ChatShape
  <2>4. Owned'
    BY <1>1, <1>2, <1>4, <2>1, OwnedMoves DEF Quits
  <2>5. Alone'
    BY <1>1, <1>2, <2>2, AloneSame DEF Busy, WC!Changing, WC!Reading
  <2>6. Registered'
    <3>1. All' = All
      BY <1>2, <2>2, ChatNames DEF All, Member, Joined
    <3>2. Gap(t)' = k[t] /\ clntCnt > 0 /\ k[t] \in 0..clntCnt - 1
      BY <1>2, <1>5, <1>6, <2>1 DEF Gap
    <3>3. \A c \in All : handle[c] # handle[t]
      BY <1>1, <1>4, <1>7 DEF Owned
    <3>4. Holds((0..clntCnt - 1) \ {k[t]}, All)
      <4>1. ASSUME NEW n \in (0..clntCnt - 1) \ {k[t]} PROVE \E c \in All : clntSocks[n] = handle[c]
        <5>1. PICK c \in All \cup {t} : clntSocks[n] = handle[c]
          BY <1>5 DEF Holds
        <5>2. c # t
          BY <1>5, <1>8, <3>2, <5>1 DEF Holds
        <5>3. QED BY <5>1, <5>2
      <4>2. ASSUME NEW c \in All PROVE \E n \in (0..clntCnt - 1) \ {k[t]} : clntSocks[n] = handle[c]
        <5>1. PICK n \in 0..clntCnt - 1 : clntSocks[n] = handle[c]
          BY <1>5 DEF Holds
        <5>2. n # k[t]
          BY <1>8, <3>3, <5>1
        <5>3. QED BY <5>1, <5>2
      <4>3. QED BY <1>5, <4>1, <4>2 DEF Holds
    <3>5. Holds((0..clntCnt - 1) \ {Gap(t)}, All)'
      BY <1>2, <3>1, <3>2, <3>4 DEF Holds
    <3>6. WC!Changing(t)' /\ at'[WC!Main] \notin {"file", "load", "store"}
          /\ \A c \in Clients : c # t => at'[c] \notin {"scan", "shift", "load", "store"}
      BY <1>1, <1>3, <2>2, ChatNames DEF WC!Changing
    <3>7. k'[t] < clntCnt'
      BY <1>2, <1>6, <2>1
    <3>8. QED BY <1>1, <1>2, <2>2, <3>2, <3>5, <3>6, <3>7 DEF Registered
  <2>7. Sent'
    BY <1>2, <1>3, <2>2, ChatNames, SentQuiet
  <2>8. QED BY <2>3, <2>4, <2>5, <2>6, <2>7 DEF ChatOk
<1>9. CASE clntSocks[k[t]] # handle[t]
  <2>1. at' = at /\ k' = [k EXCEPT ![t] = k[t] + 1]
    BY <1>4, <1>5, <1>6, <1>9 DEF WC!Scan
  <2>2. k' \in [WC!Threads -> Nat] /\ k'[t] = k[t] + 1
    BY <1>1, <2>1 DEF ChatShape
  <2>3. ChatShape'
    BY <1>1, <1>2, <2>1, <2>2 DEF ChatShape
  <2>4. Owned'
    BY <1>1, <1>2, <2>1 DEF Owned, Known, Awaits
  <2>5. Alone'
    BY <1>1, <1>2, <2>1 DEF Alone, Busy, WC!Changing, WC!Reading
  <2>6. Registered'
    <3>1. Holds(0..clntCnt - 1, All \cup {t})'
      BY <1>2, <1>5, <2>1 DEF Holds, All, Member
    <3>2. \A n \in 0..clntCnt - 1 : n < k[t] + 1 => clntSocks[n] # handle[t]
      <4>1. \A n \in 0..clntCnt - 1 : n < k[t] + 1 => n < k[t] \/ n = k[t]
        BY <1>5
      <4>2. QED BY <1>5, <1>9, <4>1
    <3>3. WC!Changing(t)' /\ at'[WC!Main] \notin {"file", "load", "store"}
          /\ \A c \in Clients : c # t => at'[c] \notin {"scan", "shift", "load", "store"}
      BY <1>1, <1>2, <1>3, <2>1, ChatNames DEF WC!Changing
    <3>4. QED BY <1>1, <1>2, <2>1, <2>2, <3>1, <3>2, <3>3 DEF Registered
  <2>7. Sent'
    BY <1>2, <1>3, <2>1, ChatNames, SentQuiet
  <2>8. QED BY <2>3, <2>4, <2>5, <2>6, <2>7 DEF ChatOk
<1>10. QED BY <1>8, <1>9

\* Copying the entry after j to j moves the gap one place back.
LEMMA GapMoves ==
    ASSUME NEW n \in Nat, NEW j \in Nat, j + 1 < n, NEW M, Holds((0..n - 1) \ {j}, M),
           clntSocks'[j] = clntSocks[j + 1],
           \A m \in 0..n - 1 : m # j => clntSocks'[m] = clntSocks[m]
    PROVE  /\ \A m \in (0..n - 1) \ {j + 1} : \E c \in M : clntSocks'[m] = handle[c]
           /\ \A c \in M : \E m \in (0..n - 1) \ {j + 1} : clntSocks'[m] = handle[c]
           /\ \A l, m \in (0..n - 1) \ {j + 1} : clntSocks'[l] = clntSocks'[m] => l = m
<1>1. /\ j + 1 \in (0..n - 1) \ {j} /\ j \in (0..n - 1) \ {j + 1}
  OBVIOUS
<1>2. \A m \in (0..n - 1) \ {j + 1} : \E c \in M : clntSocks'[m] = handle[c]
  <2>1. ASSUME NEW m \in (0..n - 1) \ {j + 1} PROVE \E c \in M : clntSocks'[m] = handle[c]
    <3>1. CASE m = j
      BY <1>1, <3>1 DEF Holds
    <3>2. CASE m # j
      BY <3>2 DEF Holds
    <3>3. QED BY <3>1, <3>2
  <2>2. QED BY <2>1
<1>3. ASSUME NEW c \in M PROVE \E m \in (0..n - 1) \ {j + 1} : clntSocks'[m] = handle[c]
  <2>1. PICK m \in (0..n - 1) \ {j} : clntSocks[m] = handle[c]
    BY DEF Holds
  <2>2. CASE m = j + 1
    BY <1>1, <2>1, <2>2
  <2>3. CASE m # j + 1
    BY <2>1, <2>3
  <2>4. QED BY <2>2, <2>3
<1>4. \A l, m \in (0..n - 1) \ {j} : clntSocks[l] = clntSocks[m] => l = m
  BY DEF Holds
<1>5. \A m \in (0..n - 1) \ {j + 1} : m # j => clntSocks[m] # clntSocks[j + 1]
  BY <1>1, <1>4
<1>6. \A l, m \in (0..n - 1) \ {j + 1} : clntSocks'[l] = clntSocks'[m] => l = m
  BY <1>4, <1>5
<1>7. QED BY <1>2, <1>3, <1>6

\* The entries behind that of t move one place forward. chat_serv_win.c does so only
\* as long as not more than one is behind it.
LEMMA ChatShift ==
    ASSUME ChatOk, NEW t \in Clients, WC!Shift(t), ~spoiled'
    PROVE  ChatOk'
<1> USE DEF WC!main, WC!peers, WC!ghosts
<1>1. ChatShape /\ Owned /\ Alone /\ Registered /\ Sent /\ t \in WC!Threads
  BY ChatNames DEF ChatOk
<1>2. /\ at[t] = "shift"
      /\ UNCHANGED <<kind, cur, hClntSock, clntCnt, hMutex, handle, cnt, hSock, text,
                     backlog, conn, unread, lines, heard, misled>>
  BY DEF WC!Shift
<1>3. \A u \in WC!Threads : u # t => at[u] \notin {"file", "scan", "shift", "load", "store", "send"}
  BY <1>1, <1>2, Only DEF WC!Changing, WC!Reading
<1>4. hSock[t] = handle[t] /\ handle[t] # 0 /\ at[WC!Main] \notin {"file", "load", "store"}
  BY <1>1, <1>2, <1>3, ChatNames DEF Owned, Quits, Joined
<1>5. /\ k[t] \in Nat /\ clntCnt \in Nat /\ clntCnt > 0 /\ clntCnt <= Cardinality(Clients)
      /\ Holds((0..clntCnt - 1) \ {Gap(t)}, All) /\ (kind = "mutex" => k[t] < clntCnt)
      /\ clntSocks \in [WC!Indices -> Nat]
  BY <1>1, <1>2 DEF Registered, ChatShape
<1>6. spoiled' = FALSE /\ kind \in {"mutex", "port"}
  BY <1>1 DEF WC!Shift, ChatShape
<1>7. CASE WC!Go(t, "load") /\ k' = k /\ Holds(0..clntCnt - 2, All)' /\ clntSocks' \in [WC!Indices -> Nat]
  <2>1. /\ at'[t] = "load" /\ at' = [at EXCEPT ![t] = "load"]
        /\ \A u \in WC!Threads : u # t => at'[u] = at[u]
    BY <1>1, <1>7, At
  <2>2. ChatShape'
    <3>1. /\ at' \in [WC!Threads -> {"accept", "none", "done", "file", "start"} \cup Joined \cup Quits]
          /\ at'[WC!Main] \in {"accept"} \cup Joins
          /\ \A c \in Clients : at'[c] \in {"none", "done"} \cup Joined \cup Quits
      BY <1>1, <1>7, Places, ChatNames DEF Quits
    <3>2. QED BY <1>1, <1>2, <1>6, <1>7, <3>1 DEF ChatShape
  <2>3. Owned'
    BY <1>1, <1>2, <1>4, <1>7, OwnedMoves DEF Quits
  <2>4. Alone'
    BY <1>1, <1>2, <2>1, AloneSame DEF Busy, WC!Changing, WC!Reading
  <2>5. Registered'
    <3>1. WC!Changing(t)' /\ at'[WC!Main] \notin {"file", "load", "store"}
          /\ \A c \in Clients : c # t => at'[c] \notin {"scan", "shift", "load", "store"}
      BY <1>1, <1>3, <1>4, <2>1, ChatNames DEF WC!Changing
    <3>2. QED BY <1>1, <1>2, <1>5, <1>7, <2>1, <3>1 DEF Registered
  <2>6. Sent'
    BY <1>2, <1>3, <2>1, ChatNames, SentQuiet
  <2>7. QED BY <2>2, <2>3, <2>4, <2>5, <2>6 DEF ChatOk
<1>8. ASSUME clntSocks' = [clntSocks EXCEPT ![k[t]] = clntSocks[k[t] + 1]], k[t] < clntCnt
      PROVE  /\ clntSocks' \in [WC!Indices -> Nat] /\ clntSocks'[k[t]] = clntSocks[k[t] + 1]
             /\ \A m \in 0..clntCnt - 1 : m # k[t] => clntSocks'[m] = clntSocks[m]
  <2>1. k[t] \in WC!Indices /\ k[t] + 1 \in WC!Indices /\ \A m \in 0..clntCnt - 1 : m \in WC!Indices
    BY <1>5, <1>8, ChatNames
  <2>2. QED BY <1>5, <1>8, <2>1
<1>9. WC!Go(t, "load") => All' = All
  <2>1. WC!Go(t, "load") => at'[t] = "load" /\ \A u \in WC!Threads : u # t => at'[u] = at[u]
    BY <1>1, At
  <2>2. QED BY <1>2, <2>1, ChatNames DEF All, Member, Joined
<1>10. CASE kind = "mutex"
  <2>1. WC!Go(t, "load") /\ k' = k /\ k[t] < clntCnt /\ k[t] >= clntCnt - 2
    <3>1. WC!Go(t, "load") /\ k' = k /\ spoiled' = (spoiled \/ k[t] < clntCnt - 2)
      BY <1>10 DEF WC!Shift
    <3>2. ~(k[t] < clntCnt - 2)
      BY <3>1
    <3>3. QED BY <1>5, <1>10, <3>1, <3>2
  <2>2. Holds((0..clntCnt - 1) \ {k[t]}, All)
    BY <1>5, <2>1 DEF Gap
  <2>3. clntSocks' = [clntSocks EXCEPT ![k[t]] = IF k[t] < clntCnt - 1 THEN clntSocks[k[t] + 1]
                                                  ELSE clntSocks[k[t]]]
    BY <1>10 DEF WC!Shift
  <2>4. CASE k[t] = clntCnt - 1
    <3>1. clntSocks' = clntSocks
      BY <1>5, <2>3, <2>4
    <3>2. (0..clntCnt - 1) \ {k[t]} = 0..clntCnt - 2
      BY <1>5, <2>4
    <3>3. Holds(0..clntCnt - 2, All)'
      BY <1>2, <1>9, <2>1, <2>2, <3>1, <3>2 DEF Holds
    <3>4. QED BY <1>5, <1>7, <2>1, <3>1, <3>3
  <2>5. CASE k[t] = clntCnt - 2
    <3>1. clntSocks' = [clntSocks EXCEPT ![k[t]] = clntSocks[k[t] + 1]] /\ k[t] + 1 < clntCnt
      <4>1. k[t] < clntCnt - 1 /\ k[t] + 1 < clntCnt
        BY <1>5, <2>5
      <4>2. QED BY <2>3, <4>1
    <3>2. (0..clntCnt - 1) \ {k[t] + 1} = 0..clntCnt - 2
      BY <1>5, <2>5
    <3>3. /\ \A m \in 0..clntCnt - 2 : \E c \in All : clntSocks'[m] = handle[c]
          /\ \A c \in All : \E m \in 0..clntCnt - 2 : clntSocks'[m] = handle[c]
          /\ \A l, m \in 0..clntCnt - 2 : clntSocks'[l] = clntSocks'[m] => l = m
      <4>1. /\ \A m \in (0..clntCnt - 1) \ {k[t] + 1} : \E c \in All : clntSocks'[m] = handle[c]
            /\ \A c \in All : \E m \in (0..clntCnt - 1) \ {k[t] + 1} : clntSocks'[m] = handle[c]
            /\ \A l, m \in (0..clntCnt - 1) \ {k[t] + 1} : clntSocks'[l] = clntSocks'[m] => l = m
        BY <1>5, <1>8, <2>1, <2>2, <3>1, GapMoves
      <4>2. QED BY <3>2, <4>1
    <3>4. Holds(0..clntCnt - 2, All)'
      BY <1>2, <1>9, <2>1, <3>3 DEF Holds
    <3>5. QED BY <1>7, <1>8, <2>1, <3>1, <3>4
  <2>6. QED BY <1>5, <2>1, <2>4, <2>5
<1>11. CASE kind = "port" /\ k[t] >= clntCnt
  <2>1. WC!Go(t, "load") /\ k' = k /\ clntSocks' = clntSocks
    BY <1>11 DEF WC!Shift
  <2>2. (0..clntCnt - 1) \ {Gap(t)} = 0..clntCnt - 2
    BY <1>5, <1>11 DEF Gap
  <2>3. Holds(0..clntCnt - 2, All)'
    BY <1>2, <1>5, <1>9, <2>1, <2>2 DEF Holds
  <2>4. QED BY <1>5, <1>7, <2>1, <2>3
<1>12. CASE kind = "port" /\ k[t] < clntCnt
  <2>1. /\ clntSocks' = [clntSocks EXCEPT ![k[t]] = clntSocks[k[t] + 1]]
        /\ k' = [k EXCEPT ![t] = k[t] + 1] /\ at' = at
    BY <1>5, <1>12 DEF WC!Shift
  <2>2. k' \in [WC!Threads -> Nat] /\ k'[t] = k[t] + 1
    BY <1>1, <2>1 DEF ChatShape
  <2>3. ChatShape'
    BY <1>1, <1>2, <1>6, <1>8, <1>12, <2>1, <2>2 DEF ChatShape
  <2>4. Owned'
    BY <1>1, <1>2, <2>1 DEF Owned, Known, Awaits
  <2>5. Alone'
    BY <1>1, <1>2, <2>1 DEF Alone, Busy, WC!Changing, WC!Reading
  <2>6. All' = All
    BY <1>2, <2>1 DEF All, Member
  <2>7. Holds((0..clntCnt - 1) \ {k[t]}, All)
    BY <1>5, <1>12 DEF Gap
  <2>8. Holds((0..clntCnt - 1) \ {Gap(t)}, All)'
    <3>1. CASE k[t] + 1 < clntCnt
      <4>1. Gap(t)' = k[t] + 1
        BY <1>2, <2>2, <3>1 DEF Gap
      <4>2. /\ \A m \in (0..clntCnt - 1) \ {k[t] + 1} : \E c \in All : clntSocks'[m] = handle[c]
            /\ \A c \in All : \E m \in (0..clntCnt - 1) \ {k[t] + 1} : clntSocks'[m] = handle[c]
            /\ \A l, m \in (0..clntCnt - 1) \ {k[t] + 1} : clntSocks'[l] = clntSocks'[m] => l = m
        BY <1>5, <1>8, <1>12, <2>1, <2>7, <3>1, GapMoves
      <4>3. QED BY <1>2, <2>6, <4>1, <4>2 DEF Holds
    <3>2. CASE k[t] + 1 >= clntCnt
      <4>1. Gap(t)' = k[t]
        BY <1>2, <1>5, <1>12, <2>2, <3>2 DEF Gap
      <4>2. QED BY <1>2, <1>8, <1>12, <2>1, <2>6, <2>7, <4>1 DEF Holds
    <3>3. QED BY <1>5, <3>1, <3>2
  <2>9. Registered'
    <3>1. WC!Changing(t)' /\ at'[WC!Main] \notin {"file", "load", "store"}
          /\ \A c \in Clients : c # t => at'[c] \notin {"scan", "shift", "load", "store"}
      BY <1>1, <1>2, <1>3, <1>4, <2>1, ChatNames DEF WC!Changing
    <3>2. QED BY <1>1, <1>2, <1>5, <1>12, <2>1, <2>8, <3>1 DEF Registered
  <2>10. Sent'
    BY <1>2, <1>3, <2>1, ChatNames, SentQuiet
  <2>11. QED BY <2>3, <2>4, <2>5, <2>9, <2>10 DEF ChatOk
<1>13. QED BY <1>5, <1>6, <1>10, <1>11, <1>12

\* A connection that is accepted gets a socket that nobody has, and that is not filed.
LEMMA ChatAccept ==
    ASSUME ChatOk, WC!Accept
    PROVE  ChatOk'
<1> USE DEF WC!registry, WC!ghosts
<1>1. ChatShape /\ Owned /\ Alone /\ Registered /\ Sent /\ WC!Main \in WC!Threads
  BY ChatNames DEF ChatOk
<1>2. /\ at[WC!Main] = "accept" /\ backlog # <<>> /\ WC!Go(WC!Main, "lock")
      /\ cur' = Head(backlog) /\ backlog' = Tail(backlog)
      /\ UNCHANGED <<kind, clntCnt, clntSocks, hMutex, k, cnt, hSock, text, conn, unread, lines, heard,
                     misled, spoiled>>
  BY DEF WC!Accept
<1>3. PICK h \in WC!Handles : /\ WC!Behind(h) = {} /\ hClntSock' = h
                              /\ handle' = [handle EXCEPT ![cur'] = h]
  BY DEF WC!Accept
<1>4. h \in Nat \ {0} /\ \A c \in Clients : handle[c] # h
  BY <1>3, ChatNames DEF WC!Behind
<1>5. /\ Head(backlog) \in Clients /\ Head(backlog) = backlog[1] /\ 1 \in DOMAIN backlog
      /\ Tail(backlog) \in Seq(Clients)
      /\ \A j \in DOMAIN Tail(backlog) : j + 1 \in DOMAIN backlog /\ j + 1 # 1
                                         /\ Tail(backlog)[j] = backlog[j + 1]
      /\ DOMAIN Tail(backlog) \subseteq Int
  <2>1. backlog \in Seq(Clients)
    BY <1>1 DEF ChatShape
  <2>2. QED BY <1>2, <2>1, Taken
<1>6. cur' \in Clients /\ Awaits(cur') /\ at[cur'] = "none" /\ \A c \in Clients : c = cur' => ~Awaits(c)'
  <2>1. cur' \in Clients /\ Awaits(cur')
    BY <1>2, <1>5 DEF Awaits
  <2>2. at[cur'] = "none"
    BY <1>1, <2>1 DEF Owned
  <2>3. ASSUME NEW j \in DOMAIN backlog' PROVE backlog'[j] # cur'
    BY <1>1, <1>2, <1>5, <2>1, <2>3 DEF Owned
  <2>4. QED BY <2>1, <2>2, <2>3 DEF Awaits
<1>7. /\ at'[WC!Main] = "lock" /\ \A c \in Clients : at'[c] = at[c]
  BY <1>1, <1>2, At, ChatNames
<1>8. /\ handle' \in [Clients -> Nat] /\ handle'[cur'] = h
      /\ \A c \in Clients : c # cur' => handle'[c] = handle[c]
  BY <1>1, <1>3, <1>4, <1>6 DEF ChatShape
<1>9. ChatShape'
  <2>1. /\ at' \in [WC!Threads -> {"accept", "none", "done", "file", "start"} \cup Joined \cup Quits]
        /\ at'[WC!Main] \in {"accept"} \cup Joins
        /\ \A c \in Clients : at'[c] \in {"none", "done"} \cup Joined \cup Quits
    BY <1>1, <1>2, Places DEF Joins
  <2>2. QED BY <1>1, <1>2, <1>5, <1>8, <2>1 DEF ChatShape
<1>10. Owned'
  <2>1. \A c \in Clients : (Known(c)' <=> c = cur') /\ ~Known(c)
    BY <1>2, <1>7 DEF Known, Joins
  <2>2. \A c \in Clients : Awaits(c)' => Awaits(c) /\ c # cur'
    BY <1>2, <1>5, <1>6 DEF Awaits
  <2>3. ASSUME NEW c \in Clients
        PROVE  (/\ handle[c] # 0 <=> at[c] \in Joined \cup Quits \/ Known(c)
                /\ at[c] \in (Joined \ {"copy"}) \cup Quits => hSock[c] = handle[c]
                /\ at[c] \in {"lock", "send"} => text[c] = c
                /\ conn[c] = "idle" => ~Awaits(c)
                /\ conn[c] = "idle" \/ Awaits(c) => at[c] = "none" /\ ~Known(c))'
    <3>1. CASE c = cur'
      <4>1. at'[c] = "none" /\ handle'[c] # 0 /\ conn'[c] # "idle" /\ ~Awaits(c)'
        BY <1>1, <1>2, <1>4, <1>6, <1>7, <1>8, <3>1 DEF Owned
      <4>2. QED BY <2>1, <3>1, <4>1 DEF Joined, Quits
    <3>2. CASE c # cur'
      BY <1>1, <1>2, <1>7, <1>8, <2>1, <2>2, <3>2 DEF Owned
    <3>3. QED BY <3>1, <3>2
  <2>4. ASSUME NEW c \in Clients, NEW m \in DOMAIN backlog', NEW n \in DOMAIN backlog',
               backlog'[m] = c, backlog'[n] = c
        PROVE  m = n
    <3>1. m + 1 = n + 1
      BY <1>1, <1>2, <1>5, <2>4 DEF Owned
    <3>2. m \in Int /\ n \in Int
      BY <1>2, <1>5
    <3>3. QED BY <3>1, <3>2
  <2>5. \A c, d \in Clients : handle'[c] = handle'[d] /\ handle'[c] # 0 => c = d
    <3>1. \A c \in Clients : handle'[c] = h => c = cur'
      BY <1>4, <1>8
    <3>2. QED BY <1>1, <1>8, <3>1 DEF Owned
  <2>6. at'[WC!Main] \in Joins => cur' \in Clients /\ at'[cur'] = "none" /\ hClntSock' = handle'[cur']
    BY <1>3, <1>6, <1>7, <1>8
  <2>7. QED BY <2>3, <2>4, <2>5, <2>6 DEF Owned
<1>11. Alone'
  BY <1>1, <1>2, <1>7, ChatNames, AloneSame DEF Busy, WC!Changing, WC!Reading
<1>12. Registered'
  <2>1. \A u \in WC!Threads : WC!Changing(u) \/ WC!Changing(u)' =>
           at'[u] = at[u] /\ k'[u] = k[u] /\ cnt'[u] = cnt[u]
    BY <1>2, <1>7, ChatNames DEF WC!Changing
  <2>2. ~WC!Changing(WC!Main)
    BY <1>2 DEF WC!Changing
  <2>3. \A c \in Clients : Member(c)' <=> Member(c)
    BY <1>2, <1>7 DEF Member
  <2>4. \A c \in Clients : Member(c) \/ WC!Changing(c) => c # cur'
    BY <1>2, <1>6 DEF Member, Joined, WC!Changing
  <2>5. QED BY <1>1, <1>2, <1>8, <2>1, <2>2, <2>3, <2>4, RegisteredSame
<1>13. Sent'
  <2>1. ASSUME NEW r \in Clients, NEW s \in Clients, Pending(r, s)' PROVE Pending(r, s)
    <3>1. CASE r = cur' /\ at'[s] = "send"
      <4>1. PICK n \in k[s]..clntCnt - 1 : clntSocks[n] = h
        BY <1>2, <1>7, <1>8, <2>1, <3>1 DEF Pending
      <4>2. k[s] \in Nat /\ clntCnt \in Nat /\ WC!Reading(s)
        BY <1>1, <1>7, <3>1, ChatNames DEF ChatShape, WC!Reading
      <4>3. n \in 0..clntCnt - 1
        BY <4>2
      <4>4. \A u \in WC!Threads : ~WC!Changing(u)
        <5>1. s \in WC!Threads /\ ~WC!Changing(s)
          BY <4>2, ChatNames DEF WC!Changing, WC!Reading
        <5>2. QED BY <1>1, <4>2, <5>1 DEF Alone, Busy
      <4>5. Holds(0..clntCnt - 1, All) /\ All \subseteq Clients
        BY <1>1, <4>4 DEF Registered, All
      <4>6. \E c \in Clients : clntSocks[n] = handle[c]
        BY <4>3, <4>5 DEF Holds
      <4>7. QED BY <1>4, <4>1, <4>6
    <3>2. CASE r # cur' \/ at'[s] # "send"
      BY <1>2, <1>7, <1>8, <2>1, <3>2 DEF Pending
    <3>3. QED BY <3>1, <3>2
  <2>2. QED BY <1>1, <1>2, <2>1, SentSame
<1>14. QED BY <1>9, <1>10, <1>11, <1>12, <1>13 DEF ChatOk

\* The thread starts, or the first receive is posted: a member under another name.
LEMMA ChatStart ==
    ASSUME ChatOk, WC!Start
    PROVE  ChatOk'
<1> USE DEF WC!main, WC!registry, WC!peers, WC!ghosts
<1>1. ChatShape /\ Owned /\ Alone /\ Registered /\ Sent /\ WC!Main \in WC!Threads
  BY ChatNames DEF ChatOk
<1> DEFINE where == IF kind = "mutex" THEN "copy" ELSE "recv"
<1>2. /\ at[WC!Main] = "start"
      /\ at' = [at EXCEPT ![WC!Main] = "accept", ![cur] = where]
      /\ hSock' = [hSock EXCEPT ![cur] = IF kind = "mutex" THEN hSock[cur] ELSE hClntSock]
      /\ UNCHANGED <<kind, cur, hClntSock, clntCnt, clntSocks, hMutex, handle, k, cnt, text,
                     backlog, conn, unread, lines, heard, misled, spoiled>>
  BY DEF WC!Start
<1>3. where \in {"copy", "recv"} /\ (where = "recv" => kind # "mutex")
  OBVIOUS
<1>4. cur \in Clients /\ cur # WC!Main /\ cur \in WC!Threads /\ Known(cur)
      /\ at[cur] = "none" /\ hClntSock = handle[cur]
  BY <1>1, <1>2, ChatNames DEF Owned, Joins, Known
<1> HIDE DEF where
<1>5. /\ at'[WC!Main] = "accept" /\ at'[cur] = where
      /\ \A c \in Clients : c # cur => at'[c] = at[c]
      /\ at' \in [WC!Threads -> {"accept", "none", "done", "file", "start"} \cup Joined \cup Quits]
  <2>1. at \in [WC!Threads -> {"accept", "none", "done", "file", "start"} \cup Joined \cup Quits]
    BY <1>1 DEF ChatShape
  <2>2. where \in {"accept", "none", "done", "file", "start"} \cup Joined \cup Quits
    BY <1>3 DEF Joined
  <2>3. QED BY <1>1, <1>2, <1>4, <2>1, <2>2, ChatNames
<1>6. /\ hSock' \in [Clients -> Nat] /\ (where = "recv" => hSock'[cur] = handle[cur])
      /\ \A c \in Clients : c # cur => hSock'[c] = hSock[c]
  <2>1. hSock \in [Clients -> Nat] /\ handle \in [Clients -> Nat]
    BY <1>1 DEF ChatShape
  <2>2. CASE kind = "mutex"
    BY <1>2, <1>3, <1>4, <2>1, <2>2
  <2>3. CASE kind # "mutex"
    BY <1>2, <1>3, <1>4, <2>1, <2>3
  <2>4. QED BY <2>2, <2>3
<1>7. ChatShape'
  <2>1. at'[WC!Main] \in {"accept"} \cup Joins
        /\ \A c \in Clients : at'[c] \in {"none", "done"} \cup Joined \cup Quits
    BY <1>1, <1>3, <1>5 DEF ChatShape, Joined
  <2>2. QED BY <1>1, <1>2, <1>5, <1>6, <2>1 DEF ChatShape
<1>8. Owned'
  <2>1. \A c \in Clients : ~Known(c)' /\ (Known(c) <=> c = cur) /\ (Awaits(c)' <=> Awaits(c))
    BY <1>2, <1>4, <1>5 DEF Known, Joins, Awaits
  <2>2. ASSUME NEW c \in Clients
        PROVE  (/\ handle[c] # 0 <=> at[c] \in Joined \cup Quits \/ Known(c)
                /\ at[c] \in (Joined \ {"copy"}) \cup Quits => hSock[c] = handle[c]
                /\ at[c] \in {"lock", "send"} => text[c] = c
                /\ conn[c] = "idle" => ~Awaits(c)
                /\ conn[c] = "idle" \/ Awaits(c) => at[c] = "none" /\ ~Known(c)
                /\ \A m, n \in DOMAIN backlog : backlog[m] = c /\ backlog[n] = c => m = n)'
    <3>1. CASE c = cur
      <4>1. handle[c] # 0 /\ ~(conn[c] = "idle" \/ Awaits(c))
        BY <1>1, <1>4, <3>1 DEF Owned
      <4>2. at'[c] = where /\ where \in Joined /\ where \notin Quits /\ where \notin {"lock", "send"}
        BY <1>3, <1>5, <3>1 DEF Joined, Quits
      <4>3. at'[c] \in (Joined \ {"copy"}) \cup Quits => hSock'[c] = handle[c]
        BY <1>3, <1>6, <3>1, <4>2
      <4>4. QED BY <1>1, <1>2, <2>1, <4>1, <4>2, <4>3 DEF Owned
    <3>2. CASE c # cur
      BY <1>1, <1>2, <1>5, <1>6, <2>1, <3>2 DEF Owned
    <3>3. QED BY <3>1, <3>2
  <2>3. at'[WC!Main] \notin Joins
    BY <1>5 DEF Joins
  <2>4. \A c, d \in Clients : handle'[c] = handle'[d] /\ handle'[c] # 0 => c = d
    BY <1>1, <1>2 DEF Owned
  <2>5. QED BY <2>2, <2>3, <2>4 DEF Owned
<1>9. \A t \in WC!Threads : (WC!Changing(t)' <=> WC!Changing(t)) /\ (Busy(t)' <=> Busy(t))
                            /\ (WC!Changing(t) => at'[t] = at[t] /\ t # WC!Main)
  BY <1>2, <1>3, <1>4, <1>5, ChatNames DEF Busy, WC!Changing, WC!Reading
<1>10. Alone'
  BY <1>1, <1>2, <1>9, AloneSame
<1>11. Registered'
  <2>1. \A c \in Clients : Member(c)' <=> Member(c)
    <3>1. \A c \in Clients : c = cur => Member(c) /\ Member(c)'
      BY <1>2, <1>3, <1>5 DEF Member, Joined
    <3>2. ASSUME NEW c \in Clients, c # cur PROVE Member(c)' <=> Member(c)
      BY <1>2, <1>5, <3>2 DEF Member
    <3>3. QED BY <3>1, <3>2
  <2>2. QED BY <1>1, <1>2, <1>9, <2>1, RegisteredSame
<1>12. Sent'
  <2>1. \A r, s \in Clients : Pending(r, s)' => Pending(r, s)
    BY <1>2, <1>3, <1>5 DEF Pending
  <2>2. QED BY <1>1, <1>2, <2>1, SentSame
<1>13. QED BY <1>7, <1>8, <1>10, <1>11, <1>12 DEF ChatOk

\* The socket of a connection that is filed no more is closed.
LEMMA ChatClose ==
    ASSUME ChatOk, NEW t \in Clients, WC!Close(t)
    PROVE  ChatOk'
<1> USE DEF WC!main, WC!registry, WC!peers, WC!ghosts
<1>1. ChatShape /\ Owned /\ Alone /\ Registered /\ Sent /\ t \in WC!Threads
  BY ChatNames DEF ChatOk
<1>2. /\ at[t] = "close" /\ WC!Go(t, "done")
      /\ handle' = [c \in Clients |-> IF c \in WC!Behind(hSock[t]) THEN WC!None ELSE handle[c]]
      /\ UNCHANGED <<kind, cur, hClntSock, clntCnt, clntSocks, hMutex, k, cnt, hSock, text,
                     backlog, conn, unread, lines, heard, misled, spoiled>>
  BY DEF WC!Close
<1>3. hSock[t] = handle[t] /\ handle[t] # 0 /\ ~(conn[t] = "idle" \/ Awaits(t)) /\ ~Known(t)
  BY <1>1, <1>2 DEF Owned, Quits, Joined, Known
<1>4. WC!Behind(hSock[t]) = {t}
  BY <1>1, <1>3, ChatNames DEF Owned, WC!Behind
<1>5. /\ handle' \in [Clients -> Nat] /\ handle'[t] = 0
      /\ \A c \in Clients : c # t => handle'[c] = handle[c]
  BY <1>1, <1>2, <1>4, ChatNames DEF ChatShape
<1>6. at'[t] = "done" /\ at' = [at EXCEPT ![t] = "done"] /\ at'[WC!Main] = at[WC!Main]
      /\ \A u \in WC!Threads : u # t => at'[u] = at[u]
  BY <1>1, <1>2, At, ChatNames
<1>7. ChatShape'
  <2>1. /\ at' \in [WC!Threads -> {"accept", "none", "done", "file", "start"} \cup Joined \cup Quits]
        /\ at'[WC!Main] \in {"accept"} \cup Joins
        /\ \A c \in Clients : at'[c] \in {"none", "done"} \cup Joined \cup Quits
    BY <1>1, <1>2, Places, ChatNames
  <2>2. QED BY <1>1, <1>2, <1>5, <2>1 DEF ChatShape
<1>8. Owned'
  <2>1. \A c \in Clients : (Known(c)' <=> Known(c)) /\ (Awaits(c)' <=> Awaits(c))
    BY <1>2, <1>6 DEF Known, Awaits
  <2>2. ASSUME NEW c \in Clients
        PROVE  (/\ handle[c] # 0 <=> at[c] \in Joined \cup Quits \/ Known(c)
                /\ at[c] \in (Joined \ {"copy"}) \cup Quits => hSock[c] = handle[c]
                /\ at[c] \in {"lock", "send"} => text[c] = c
                /\ conn[c] = "idle" => ~Awaits(c)
                /\ conn[c] = "idle" \/ Awaits(c) => at[c] = "none" /\ ~Known(c)
                /\ \A m, n \in DOMAIN backlog : backlog[m] = c /\ backlog[n] = c => m = n)'
    <3>1. CASE c = t
      <4>1. at'[c] \notin Joined \cup Quits /\ at'[c] \notin {"lock", "send"} /\ handle'[c] = 0
        BY <1>5, <1>6, <3>1 DEF Joined, Quits
      <4>2. QED BY <1>1, <1>2, <1>3, <2>1, <3>1, <4>1 DEF Owned
    <3>2. CASE c # t
      BY <1>1, <1>2, <1>5, <1>6, <2>1, <3>2, ChatNames DEF Owned
    <3>3. QED BY <3>1, <3>2
  <2>3. at'[WC!Main] \in Joins => cur' \in Clients /\ at'[cur'] = "none" /\ hClntSock' = handle'[cur']
    BY <1>1, <1>2, <1>5, <1>6, ChatNames DEF Owned
  <2>4. \A c, d \in Clients : handle'[c] = handle'[d] /\ handle'[c] # 0 => c = d
    BY <1>1, <1>5 DEF Owned
  <2>5. QED BY <2>2, <2>3, <2>4 DEF Owned
<1>9. Alone'
  BY <1>1, <1>2, <1>6, AloneSame DEF Busy, WC!Changing, WC!Reading
<1>10. Registered'
  <2>1. \A u \in WC!Threads : WC!Changing(u) \/ WC!Changing(u)' =>
           u # t /\ at'[u] = at[u] /\ k'[u] = k[u] /\ cnt'[u] = cnt[u]
    BY <1>2, <1>6 DEF WC!Changing
  <2>2. WC!Changing(WC!Main) => cur' = cur /\ handle'[cur] = handle[cur] /\ cur \in Clients
    <3>1. WC!Changing(WC!Main) => at[WC!Main] \in Joins
      BY <1>1 DEF WC!Changing, ChatShape, Joins
    <3>2. at[WC!Main] \in Joins => cur \in Clients /\ cur # t
      BY <1>1, <1>2 DEF Owned
    <3>3. QED BY <1>2, <1>5, <3>1, <3>2
  <2>3. \A c \in Clients : Member(c)' <=> Member(c)
    BY <1>2, <1>6, ChatNames DEF Member, Joined
  <2>4. ~Member(t)
    BY <1>2, <1>3 DEF Member, Joined, Known, Joins
  <2>5. \A c \in Clients : Member(c) \/ WC!Changing(c) => handle'[c] = handle[c]
    BY <1>5, <2>1, <2>4, ChatNames
  <2>6. QED BY <1>1, <1>2, <2>1, <2>2, <2>3, <2>5, RegisteredSame
<1>11. Sent'
  <2>1. \A r, s \in Clients : Pending(r, s)' => Pending(r, s)
    BY <1>2, <1>5, <1>6, ChatNames DEF Pending
  <2>2. QED BY <1>1, <1>2, <2>1, SentSame
<1>12. QED BY <1>7, <1>8, <1>9, <1>10, <1>11 DEF ChatOk

\* A line goes to the one client whose socket is at the index, and is then no longer on
\* its way to it.  What a client that has closed its end has sent may be lost.
LEMMA ChatSend ==
    ASSUME ChatOk, NEW t \in Clients, WC!Send(t)
    PROVE  ChatOk'
<1> USE DEF WC!main, WC!registry, WC!peers, WC!ghosts
<1>1. ChatShape /\ Owned /\ Alone /\ Registered /\ Sent /\ t \in WC!Threads
  BY ChatNames DEF ChatOk
<1>2. /\ at[t] = "send" /\ k[t] < clntCnt /\ k' = [k EXCEPT ![t] = @ + 1]
      /\ heard' = [r \in Clients |-> IF r \in WC!Behind(clntSocks[k[t]]) /\ conn[r] = "open"
                                     THEN Append(heard[r], text[t]) ELSE heard[r]]
      /\ UNCHANGED <<kind, at, cur, hClntSock, clntCnt, clntSocks, hMutex, handle, cnt, hSock, text,
                     backlog, lines, misled, spoiled>>
  BY DEF WC!Send
<1>a. /\ conn' \in [Clients -> {"idle", "open", "full", "fin", "rst"}]
      /\ \A r \in Clients : conn'[r] = "idle" => conn[r] = "idle"
  <2>1. PICK changed \in SUBSET WC!Behind(clntSocks[k[t]]) :
           conn' = [r \in Clients |-> IF r \in changed THEN WC!Answers(conn[r]) ELSE conn[r]]
    BY DEF WC!Send
  <2>2. conn \in [Clients -> {"idle", "open", "full", "fin", "rst"}]
    BY <1>1 DEF ChatShape
  <2>3. \A r \in Clients : /\ WC!Answers(conn[r]) \in {"idle", "open", "full", "fin", "rst"}
                           /\ WC!Answers(conn[r]) = "idle" => conn[r] = "idle"
    BY <2>2 DEF WC!Answers
  <2>4. QED BY <2>1, <2>2, <2>3
<1>b. unread' \in [Clients -> Nat] /\ \A r \in Clients : unread'[r] <= unread[r]
  <2>1. PICK lost \in SUBSET WC!Behind(clntSocks[k[t]]) :
           unread' = [r \in Clients |-> IF r \in lost THEN 0 ELSE unread[r]]
    BY DEF WC!Send
  <2>2. unread \in [Clients -> Nat]
    BY <1>1 DEF ChatShape
  <2>3. QED BY <2>1, <2>2
<1>3. text[t] = t /\ k[t] \in Nat /\ clntCnt \in Nat /\ k[t] \in 0..clntCnt - 1
  BY <1>1, <1>2 DEF Owned, ChatShape
<1>4. k' \in [WC!Threads -> Nat] /\ k'[t] = k[t] + 1 /\ \A u \in WC!Threads : u # t => k'[u] = k[u]
  BY <1>1, <1>2 DEF ChatShape
<1>5. ~WC!Changing(t) /\ \A u \in WC!Threads : ~WC!Changing(u)
  <2>1. WC!Reading(t) /\ ~WC!Changing(t)
    BY <1>2 DEF WC!Reading, WC!Changing
  <2>2. QED BY <1>1, <2>1 DEF Alone, Busy
<1>6. Holds(0..clntCnt - 1, All)
  BY <1>1, <1>5 DEF Registered
<1>7. ASSUME NEW r \in Clients
      PROVE  \/ /\ heard'[r] = Append(heard[r], t)
                /\ handle[r] # 0 /\ clntSocks[k[t]] = handle[r]
             \/ heard'[r] = heard[r]
  BY <1>2, <1>3, ChatNames DEF WC!Behind
<1>8. ChatShape'
  <2>1. heard \in [Clients -> Seq(Clients)]
    BY <1>1 DEF ChatShape
  <2>2. \A r \in Clients : heard'[r] \in Seq(Clients)
    <3>1. ASSUME NEW r \in Clients PROVE heard'[r] \in Seq(Clients)
      <4>1. heard[r] \in Seq(Clients)
        BY <2>1
      <4>2. Append(heard[r], t) \in Seq(Clients)
        BY <4>1
      <4>3. QED BY <1>7, <4>1, <4>2
    <3>2. QED BY <3>1
  <2>3. heard' \in [Clients -> Seq(Clients)]
    BY <1>2, <2>2
  <2>4. QED BY <1>1, <1>2, <1>4, <1>a, <1>b, <2>3 DEF ChatShape
<1>9. Owned'
  BY <1>1, <1>2, <1>a DEF Owned, Known, Awaits
<1>10. Alone'
  BY <1>1, <1>2 DEF Alone, Busy, WC!Changing, WC!Reading
<1>11. Registered'
  <2>1. \A u \in WC!Threads : ~WC!Changing(u)'
    BY <1>2, <1>5 DEF WC!Changing
  <2>2. Holds(0..clntCnt - 1, All)'
    BY <1>2, <1>6 DEF Holds, All, Member
  <2>3. /\ at'[WC!Main] \notin {"file", "load", "store"}
        /\ \A c \in Clients : at'[c] \notin {"scan", "shift", "load", "store"}
    BY <2>1, ChatNames DEF WC!Changing
  <2>4. QED BY <2>2, <2>3 DEF Registered
<1>12. ASSUME NEW r \in Clients, NEW s \in Clients
       PROVE  (WC!Heard(r, s) + unread[s] + (IF Pending(r, s) THEN 1 ELSE 0) <= lines[s])'
  <2>1. WC!Heard(r, s) \in Nat /\ unread[s] \in Nat /\ lines[s] \in Nat
        /\ unread'[s] \in Nat /\ unread'[s] <= unread[s]
    BY <1>1, <1>b, HeardTypes
  <2>2. WC!Heard(r, s) + unread[s] + (IF Pending(r, s) THEN 1 ELSE 0) <= lines[s]
    BY <1>1 DEF Sent
  <2>3. CASE heard'[r] = heard[r]
    <3>1. WC!Heard(r, s)' = WC!Heard(r, s)
      BY <2>3 DEF WC!Heard
    <3>2. Pending(r, s)' => Pending(r, s)
      <4>1. CASE s = t
        <5>1. \A n \in k[t] + 1..clntCnt - 1 : n \in k[t]..clntCnt - 1
          BY <1>3
        <5>2. QED BY <1>2, <1>4, <4>1, <5>1 DEF Pending
      <4>2. CASE s # t
        BY <1>2, <1>4, <4>2, ChatNames DEF Pending
      <4>3. QED BY <4>1, <4>2
    <3>3. QED BY <1>2, <2>1, <2>2, <3>1, <3>2
  <2>4. CASE heard'[r] = Append(heard[r], t) /\ handle[r] # 0 /\ clntSocks[k[t]] = handle[r]
    <3>1. WC!Heard(r, s)' = WC!Heard(r, s) + (IF t = s THEN 1 ELSE 0)
      <4>1. heard[r] \in Seq(Clients)
        BY <1>1 DEF ChatShape
      <4>2. \A q \in Seq(Clients) :
               Cardinality({n \in DOMAIN Append(q, t) : Append(q, t)[n] = s})
                 = Cardinality({n \in DOMAIN q : q[n] = s}) + (IF t = s THEN 1 ELSE 0)
        <5>1. ASSUME NEW q \in Seq(Clients)
              PROVE  Cardinality({n \in DOMAIN Append(q, t) : Append(q, t)[n] = s})
                       = Cardinality({n \in DOMAIN q : q[n] = s}) + (IF t = s THEN 1 ELSE 0)
          BY CountedMore, Zenon
        <5>2. QED BY <5>1
      <4>3. Cardinality({n \in DOMAIN Append(heard[r], t) : Append(heard[r], t)[n] = s})
              = Cardinality({n \in DOMAIN heard[r] : heard[r][n] = s}) + (IF t = s THEN 1 ELSE 0)
        BY <4>1, <4>2
      <4>4. QED BY <2>4, <4>3, SameCounts DEF WC!Heard
    <3>2. CASE s = t
      <4>1. k[t] \in k[t]..clntCnt - 1
        BY <1>3
      <4>2. Pending(r, s)
        BY <1>2, <2>4, <3>2, <4>1 DEF Pending
      <4>3. ASSUME NEW n \in k[t] + 1..clntCnt - 1 PROVE clntSocks[n] # handle[r]
        <5>1. n \in 0..clntCnt - 1 /\ n # k[t]
          BY <1>3
        <5>2. QED BY <1>3, <1>6, <2>4, <5>1 DEF Holds
      <4>4. ~Pending(r, s)'
        BY <1>2, <1>4, <3>2, <4>3 DEF Pending
      <4>5. QED BY <1>2, <2>1, <2>2, <3>1, <3>2, <4>2, <4>4
    <3>3. CASE s # t
      <4>1. Pending(r, s)' <=> Pending(r, s)
        BY <1>2, <1>4, <3>3, ChatNames DEF Pending
      <4>2. QED BY <1>2, <2>1, <2>2, <3>1, <3>3, <4>1
    <3>4. QED BY <3>2, <3>3
  <2>5. QED BY <1>7, <2>3, <2>4
<1>13. Sent'
  BY <1>12 DEF Sent
<1>14. QED BY <1>8, <1>9, <1>10, <1>11, <1>13 DEF ChatOk

\* Nobody is accepted at the start.
LEMMA SocksInit == OneInit => SocksInv
<1> SUFFICES ASSUME OneInit PROVE SocksInv
  OBVIOUS
<1>1. WC!Init
  BY DEF OneInit
<1>2. ChatShape
  <2>1. /\ at = [t \in WC!Threads |-> IF t = WC!Main THEN "accept" ELSE "none"]
        /\ WC!Main \in WC!Threads /\ \A c \in Clients : c \in WC!Threads /\ c # WC!Main
    BY <1>1, ChatNames DEF WC!Init
  <2>2. /\ at \in [WC!Threads -> {"accept", "none", "done", "file", "start"} \cup Joined \cup Quits]
        /\ at[WC!Main] = "accept" /\ \A c \in Clients : at[c] = "none"
    BY <2>1
  <2>3. /\ k \in [WC!Threads -> Nat] /\ cnt \in [WC!Threads -> Int]
        /\ handle \in [Clients -> Nat] /\ hSock \in [Clients -> Nat]
        /\ unread \in [Clients -> Nat] /\ lines \in [Clients -> Nat]
        /\ clntSocks \in [WC!Indices -> Nat]
    BY <1>1, ChatNames DEF WC!Init
  <2>4. /\ kind \in {"mutex", "port"} /\ misled = FALSE /\ spoiled = FALSE
        /\ clntCnt = 0 /\ backlog = <<>> /\ conn = [c \in Clients |-> "idle"]
        /\ text = [c \in Clients |-> NoOne]
        /\ heard = [c \in Clients |-> <<>>]
    BY <1>1 DEF WC!Init
  <2>5. clntCnt \in Nat /\ clntCnt <= Cardinality(Clients)
    BY <2>4, ChatNames
  <2>6. heard \in [Clients -> Seq(Clients)] /\ backlog \in Seq(Clients)
    BY <2>4
  <2>7. QED BY <2>2, <2>3, <2>4, <2>5, <2>6 DEF ChatShape
<1>3. /\ at[WC!Main] = "accept" /\ \A c \in Clients : at[c] = "none"
      /\ clntCnt = 0 /\ \A c \in Clients : handle[c] = 0 /\ ~Awaits(c)
      /\ \A t \in WC!Threads : ~Busy(t) /\ ~WC!Changing(t)
      /\ backlog = <<>>
  BY <1>1, ChatNames DEF WC!Init, Awaits, Busy, WC!Changing, WC!Reading
<1>4. Owned
  BY <1>3 DEF Owned, Joins, Joined, Quits, Known
<1>5. Alone
  BY <1>3 DEF Alone
<1>6. Registered
  <2>1. All = {} /\ 0..clntCnt - 1 = {}
    BY <1>3 DEF All, Member, Joined
  <2>2. Holds(0..clntCnt - 1, All)
    BY <2>1 DEF Holds
  <2>3. QED BY <1>3, <2>2 DEF Registered
<1>7. Sent
  <2>1. ASSUME NEW r \in Clients, NEW s \in Clients
        PROVE  WC!Heard(r, s) = 0 /\ unread[s] = 0 /\ lines[s] = 0 /\ ~Pending(r, s)
    <3>1. heard[r] = <<>> /\ unread[s] = 0 /\ lines[s] = 0
      BY <1>1 DEF WC!Init
    <3>2. {n \in DOMAIN heard[r] : heard[r][n] = s} = {}
      BY <3>1
    <3>3. WC!Heard(r, s) = 0
      BY <3>2, SameCounts, FS_EmptySet DEF WC!Heard
    <3>4. ~Pending(r, s)
      BY <1>3 DEF Pending
    <3>5. QED BY <3>1, <3>3, <3>4
  <2>2. QED BY <2>1 DEF Sent
<1>8. NoChat
  BY <1>1, <1>2 DEF WC!Init, NoChat, ChatShape
<1>9. QED BY <1>2, <1>4, <1>5, <1>6, <1>7, <1>8 DEF SocksInv, ChatInv

\* The other servers' clients count the lines they write, too.
LEMMA LinesCounted ==
    ASSUME lines \in [Clients -> Nat], Next \/ RouNext \/ AN!Next
    PROVE  lines' \in [Clients -> Nat]
<1>1. ASSUME NEW c \in Clients, lines' = [lines EXCEPT ![c] = @ + 1]
      PROVE  lines' \in [Clients -> Nat]
  <2>1. lines[c] + 1 \in Nat
    OBVIOUS
  <2>2. QED BY <1>1, <2>1
<1>2. CASE Next
  <2>1. CASE \E c \in Clients : SendLine(c)
    BY <1>1, <2>1 DEF SendLine
  <2>2. CASE ~\E c \in Clients : SendLine(c)
    <3>1. UNCHANGED lines
      BY <1>2, <2>2 DEF Next, Main, Worker, System, Client, Accept, AcceptError, FirstRecv, GetStatus,
         Load, CloseSocket, FreeHandle, Send, Recv, RecvDone, SendDone, Connect, ReadReply, Leave, clients
    <3>2. QED BY <3>1
  <2>3. QED BY <2>1, <2>2
<1>3. CASE RouNext
  <2>1. CASE \E c \in Clients : SendLine(c)
    BY <1>1, <2>1 DEF SendLine
  <2>2. CASE ~\E c \in Clients : SendLine(c)
    <3>1. UNCHANGED lines
      BY <1>3, <2>2 DEF RouNext, RouServer, RouSystem, RouClient, Client, RouAccept, AcceptError, SleepEx,
         RouRecvDone, SendDone, Connect, ReadReply, Leave, clients
    <3>2. QED BY <3>1
  <2>3. QED BY <2>1, <2>2
<1>4. CASE AN!Next
  <2>1. CASE \E c \in Clients : AN!SendLine(c)
    BY <1>1, <2>1 DEF AN!SendLine
  <2>2. CASE ~\E c \in Clients : AN!SendLine(c)
    <3>1. UNCHANGED lines
      BY <1>4, <2>2 DEF AN!Next, AN!Server, AN!System, AN!Client, AN!Wait, AN!Skip, AN!Enumerate, AN!Accept,
         AN!AcceptError, AN!Receive, AN!Close, AN!DataArrives, AN!EndArrives, AN!Connect, AN!ReadReply,
         AN!Leave, AN!clients
    <3>2. QED BY <3>1
  <2>3. QED BY <2>1, <2>2
<1>5. QED BY <1>2, <1>3, <1>4

\* Once misled or spoiled, the server stays so, and every other step keeps the rest.
LEMMA ChatNext == ChatInv /\ WC!Next => ChatInv'
<1> SUFFICES ASSUME ChatInv, WC!Next, ~misled', ~spoiled' PROVE ChatOk'
  BY DEF ChatInv, ChatOk
<1>1. ASSUME NEW c \in Clients, WC!Client(c) PROVE ~misled /\ ~spoiled
  BY <1>1 DEF WC!Client, WC!Connect, WC!SendMsg, WC!RecvMsg, WC!Leave, WC!ghosts
<1>2. ASSUME WC!MainThread PROVE ~misled /\ ~spoiled
  BY <1>2 DEF WC!MainThread, WC!Accept, WC!AcceptError, WC!File, WC!Start, WC!ghosts
<1>3. ASSUME NEW t \in Clients, WC!Task(t) PROVE ~misled /\ ~spoiled
  <2>1. CASE WC!Copy(t)
    <3>1. misled' = (misled \/ hClntSock # handle[t]) /\ spoiled' = spoiled
      BY <2>1 DEF WC!Copy
    <3>2. QED BY <3>1
  <2>2. CASE WC!Shift(t)
    <3>1. misled' = misled /\ (spoiled' = (spoiled \/ k[t] < clntCnt - 2) \/ spoiled' = spoiled)
      BY <2>2 DEF WC!Shift
    <3>2. ~misled
      BY <3>1
    <3>3. CASE spoiled' = (spoiled \/ k[t] < clntCnt - 2)
      BY <3>2, <3>3
    <3>4. CASE spoiled' = spoiled
      BY <3>2, <3>4
    <3>5. QED BY <3>1, <3>3, <3>4
  <2>3. CASE WC!Recv(t) \/ WC!Send(t) \/ WC!Sent(t) \/ WC!Scan(t) \/ WC!Close(t)
    BY <2>3 DEF WC!Recv, WC!Send, WC!Sent, WC!Scan, WC!Close, WC!ghosts
  <2>4. QED BY <1>3, <2>1, <2>2, <2>3 DEF WC!Task
<1>4. ASSUME NEW t \in WC!Threads, WC!Lock(t) \/ WC!Load(t) \/ WC!Store(t) PROVE ~misled /\ ~spoiled
  <2>1. CASE WC!Lock(t)
    <3>1. misled' = misled /\ spoiled' = (spoiled \/ WC!Meets(t))
      BY <2>1 DEF WC!Lock
    <3>2. QED BY <3>1
  <2>2. CASE WC!Load(t) \/ WC!Store(t)
    BY <2>2 DEF WC!Load, WC!Store, WC!ghosts
  <2>3. QED BY <1>4, <2>1, <2>2
<1>5. ChatOk
  BY <1>1, <1>2, <1>3, <1>4 DEF WC!Next, WC!Server, ChatInv, ChatOk
<1>6. CASE \E c \in Clients : WC!Client(c)
  BY <1>5, <1>6, ChatClient
<1>7. CASE WC!AcceptError
  <2>1. UNCHANGED <<kind, at, k, cnt, cur, hClntSock, clntCnt, clntSocks, hMutex, handle, hSock, text,
                    backlog, conn, unread, lines, heard, misled, spoiled>>
    BY <1>7 DEF WC!AcceptError, WC!main, WC!registry, WC!tasks, WC!peers, WC!ghosts
  <2>2. ChatShape'
    BY <1>5, <2>1 DEF ChatOk, ChatShape
  <2>3. Owned' /\ Alone'
    BY <1>5, <2>1 DEF ChatOk, Owned, Known, Awaits, Alone, Busy, WC!Changing, WC!Reading
  <2>4. Registered' /\ Sent'
    BY <1>5, <2>1 DEF ChatOk, Registered, WC!Changing, Holds, All, Member, Gap, Sent, Pending, WC!Heard
  <2>5. QED BY <2>2, <2>3, <2>4 DEF ChatOk
<1>8. CASE WC!Accept \/ WC!File \/ WC!Start
  BY <1>5, <1>8, ChatAccept, ChatFile, ChatStart
<1>9. CASE \E t \in Clients : WC!Task(t)
  BY <1>5, <1>9, ChatCopy, ChatRecv, ChatSend, ChatSent, ChatScan, ChatShift, ChatClose DEF WC!Task
<1>10. CASE \E t \in WC!Threads : WC!Lock(t) \/ WC!Load(t) \/ WC!Store(t)
  BY <1>5, <1>10, ChatLock, ChatLoad, ChatStore
<1>11. QED BY <1>6, <1>7, <1>8, <1>9, <1>10 DEF WC!Next, WC!Server, WC!MainThread

\* Every step of the four machines keeps it.
LEMMA SocksNext == SocksInv /\ [OneNext]_allVars => SocksInv'
<1> SUFFICES ASSUME SocksInv, [OneNext]_allVars PROVE SocksInv'
  OBVIOUS
<1>1. CASE Chat(WC!Next)
  <2>1. ChatInv /\ WC!Next /\ machine = "chat" /\ machine' = "chat"
    BY <1>1 DEF Chat, SocksInv
  <2>2. QED BY <2>1, ChatNext DEF SocksInv
<1>2. CASE Port(Next) \/ Routine(RouNext) \/ Noti(AN!Next)
  <2>1. /\ UNCHANGED <<machine, at, clntCnt, heard>> /\ machine # "chat"
        /\ (Next \/ RouNext \/ AN!Next) /\ NoChat
    BY <1>2 DEF Port, Routine, Noti, chatOnly, SocksInv
  <2>2. lines' \in [Clients -> Nat]
    BY <2>1, LinesCounted DEF NoChat
  <2>3. QED BY <2>1, <2>2 DEF SocksInv, NoChat
<1>3. CASE UNCHANGED allVars
  <2>1. UNCHANGED <<machine, chatOnly, backlog, conn, lines>>
    BY <1>3 DEF allVars, vars, net, clients
  <2>2. NoChat => NoChat'
    BY <2>1 DEF NoChat, chatOnly
  <2>3. ChatShape => ChatShape'
    BY <2>1 DEF ChatShape, chatOnly
  <2>4. (Owned => Owned') /\ (Alone => Alone')
    BY <2>1 DEF Owned, Known, Awaits, Alone, Busy, WC!Changing, WC!Reading, chatOnly
  <2>5. (Registered => Registered') /\ (Sent => Sent')
    BY <2>1 DEF Registered, WC!Changing, Holds, All, Member, Gap, Sent, Pending, WC!Heard, chatOnly
  <2>6. QED BY <2>1, <2>2, <2>3, <2>4, <2>5 DEF SocksInv, ChatInv, chatOnly
<1>4. QED BY <1>1, <1>2, <1>3 DEF OneNext

\* The invariant says of the chat servers, and of the others at the start, both.
LEMMA SocksFollow == SocksInv => SocksExact /\ SentOnce
<1> SUFFICES ASSUME SocksInv PROVE SocksExact /\ SentOnce
  OBVIOUS
<1>1. ASSUME machine # "chat" PROVE SocksExact /\ SentOnce
  <2>1. NoChat
    BY <1>1 DEF SocksInv
  <2>2. WC!Members = {} /\ WC!Filed = {}
    BY <2>1, ChatNames DEF NoChat, WC!Members, WC!Filed
  <2>3. SocksExact
    BY <2>1, <2>2, SameCounts, FS_EmptySet DEF SocksExact, WC!SocksExact, NoChat
  <2>4. ASSUME NEW r \in Clients, NEW s \in Clients PROVE WC!Heard(r, s) <= lines[s]
    <3>1. {n \in DOMAIN heard[r] : heard[r][n] = s} = {} /\ lines[s] \in Nat
      BY <2>1 DEF NoChat
    <3>2. WC!Heard(r, s) = 0
      BY <3>1, SameCounts, FS_EmptySet DEF WC!Heard
    <3>3. QED BY <3>1, <3>2
  <2>5. QED BY <2>3, <2>4 DEF SentOnce, WC!SentOnce
<1>2. ASSUME machine = "chat" PROVE SocksExact /\ SentOnce
  <2>1. SUFFICES ASSUME ~misled, ~spoiled
                 PROVE  /\ (\A t \in WC!Threads : ~WC!Changing(t)) =>
                             /\ {clntSocks[n] : n \in WC!Filed} = {handle[c] : c \in WC!Members}
                             /\ clntCnt = WC!Cardinality(WC!Members)
                             /\ \A c \in WC!Members : handle[c] # WC!None
                        /\ \A r, s \in Clients : WC!Heard(r, s) <= lines[s]
    BY DEF SocksExact, WC!SocksExact, SentOnce, WC!SentOnce
  <2>2. ChatOk
    BY <1>2, <2>1 DEF SocksInv, ChatInv, ChatOk
  <2>3. \A r, s \in Clients : WC!Heard(r, s) <= lines[s]
    <3>1. ASSUME NEW r \in Clients, NEW s \in Clients PROVE WC!Heard(r, s) <= lines[s]
      <4>1. WC!Heard(r, s) \in Nat /\ unread[s] \in Nat /\ lines[s] \in Nat
        BY <2>2, HeardTypes DEF ChatOk
      <4>2. WC!Heard(r, s) + unread[s] + (IF Pending(r, s) THEN 1 ELSE 0) <= lines[s]
        BY <2>2 DEF ChatOk, Sent
      <4>3. QED BY <4>1, <4>2
    <3>2. QED BY <3>1
  <2>4. ASSUME \A t \in WC!Threads : ~WC!Changing(t)
        PROVE  /\ {clntSocks[n] : n \in WC!Filed} = {handle[c] : c \in WC!Members}
               /\ clntCnt = WC!Cardinality(WC!Members)
               /\ \A c \in WC!Members : handle[c] # WC!None
    <3>1. WC!Members = All /\ All \in SUBSET Clients /\ \A c \in All : handle[c] # 0
      <4>1. at[WC!Main] = "start" => cur \in Clients
        BY <2>2 DEF ChatOk, Owned, Joins
      <4>2. WC!Members = All
        BY <4>1 DEF WC!Members, All, Member, Joined
      <4>3. \A c \in All : handle[c] # 0
        BY <2>2 DEF ChatOk, Owned, All, Member, Known, Joins
      <4>4. QED BY <4>2, <4>3 DEF All
    <3>2. Holds(0..clntCnt - 1, All) /\ clntCnt \in Nat
      BY <2>2, <2>4 DEF ChatOk, Registered, ChatShape
    <3>3. {clntSocks[n] : n \in 0..clntCnt - 1} = {handle[c] : c \in All}
      BY <3>2 DEF Holds
    <3>4. clntCnt = Cardinality(All)
      <4>1. \A c, d \in All : handle[c] = handle[d] => c = d
        BY <2>2, <3>1 DEF ChatOk, Owned
      <4>2. QED BY <3>1, <3>2, <4>1, HoldsCount
    <3>5. clntCnt = WC!Cardinality(WC!Members)
      BY <3>1, <3>4, SameCounts
    <3>6. QED BY <3>1, <3>3, <3>5, ChatNames DEF WC!Filed
  <2>5. QED BY <2>3, <2>4
<1>3. QED BY <1>1, <1>2

\* For any number of clients: with a mutex, or where no two threads meet in the port
\* server, clntSocks holds the open sockets of the members, each once, as clntCnt
\* counts them, as long as no thread was misled and no entry has two or more behind
\* it when chat_serv_win.c removes it.
THEOREM SocksAreExact == OneSpec => []SocksExact
<1>1. QED BY SocksInit, SocksNext, SocksFollow, PTL DEF OneSpec

\* With the same exceptions, no line is sent twice to a client, although sockets are
\* used again and entries move while others wait to broadcast.
THEOREM LinesAreSentOnce == OneSpec => []SentOnce
<1>1. QED BY SocksInit, SocksNext, SocksFollow, PTL DEF OneSpec
=============================================================================
