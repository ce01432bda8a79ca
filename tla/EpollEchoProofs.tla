---------------------------- MODULE EpollEchoProofs ----------------------------
(***************************************************************************)
(* Proofs about the epoll echo servers, for any number of clients and      *)
(* descriptors, any sizes of the buffers and of an epoll_wait, and both    *)
(* ways of triggering: no event is lost or stale, and no echo is damaged.  *)
(***************************************************************************)
EXTENDS EpollEcho, ListProofs, SequenceTheorems

\* The types of what the network and the clients hold.
NetTypes ==
    /\ net \in [Clients -> Seq(1..MaxLine)] /\ inq \in [Clients -> Seq(1..MaxLine)]
    /\ outq \in [Clients -> Seq(1..MaxLine)] /\ message \in [Clients -> Seq(1..MaxLine)]
    /\ str_len \in [Clients -> 0..MaxLine] /\ lines \in [Clients -> 0..MaxLines]

\* The types of what the server and the kernel hold.
LoopTypes ==
    /\ edge \in BOOLEAN /\ up \in BOOLEAN
    /\ batch \in Seq(Sources) /\ Len(batch) <= EPOLL_SIZE
    /\ buf \in Seq(1..MaxLine) /\ Len(buf) <= BUF_SIZE
    /\ ready \in Seq(Sources) /\ IsInjective(ready)
    /\ backlog \in Seq(Clients) /\ fdOf \in [Clients -> FDs \cup {NoFd}]
    /\ conn \in [Clients -> {"idle", "open", "fin", "rst", "dead"}]

\* A descriptor is one connection's.  A connection has none before accept,
\* and is at most once in the listen queue.
FdsExact ==
    /\ \A c, d \in Clients : fdOf[c] = fdOf[d] /\ fdOf[c] # NoFd => c = d
    /\ \A c \in Clients : conn[c] = "idle" \/ c \in ToSet(backlog) => fdOf[c] = NoFd
    /\ \A c \in Clients : c \in ToSet(backlog) => conn[c] # "idle"
    /\ IsInjective(backlog)

\* A batch has a descriptor once, a level-triggered one is in the kernel's
\* list while it is in the batch, and an echo belongs to an event.
BatchExact ==
    /\ IsInjective(batch)
    /\ \A fd \in ToSet(batch) : Level(fd) => fd \in ToSet(ready)
    /\ buf # <<>> => batch # <<>>

\* NoStaleEvent over the members of the batch.
EventsOpen == \A fd \in ToSet(batch) : fd = ServFd \/ \E c \in Clients : fdOf[c] = fd

\* The events are exact because every list is without repetition and the
\* descriptors tell the connections apart.
EventsInv == NetTypes /\ LoopTypes /\ FdsExact /\ BatchExact /\ EventsOpen /\ NoLostWakeup

Text == Seq(1..MaxLine)

\* The end of a part of a text may as well be the beginning of the next.
Moves(x, q, a, b) == (x \o (q \o a)) \o b = (x \o q) \o (a \o b)

LEMMA MoveText == \A x, q, a, b \in Text : Moves(x, q, a, b)
  BY DEF Text, Moves

\* Nothing may be put between parts, and parts may be put together.
Joins(x, a, b) == (x \o <<>>) \o (a \o b) = (x \o a) \o b

LEMMA JoinText == \A x, a, b \in Text : Joins(x, a, b)
  BY DEF Text, Joins

\* What the loop holds may as well be put behind what is on its way back.
Puts(x, a, b) == (x \o (a \o b)) \o <<>> = (x \o a) \o b

LEMMA PutText == \A x, a, b \in Text : Puts(x, a, b)
  BY DEF Text, Puts

USE FDsAssumption, SizesAssumption

\* TypeOK in two parts.
LEMMA TypeParts == (TypeOK <=> NetTypes /\ LoopTypes) /\ (TypeOK' <=> NetTypes' /\ LoopTypes')
  BY Zenon DEF TypeOK, NetTypes, LoopTypes

\* Events over the indices of the batch and over its members.
LEMMA EventsOpenExact ==
    ASSUME LoopTypes
    PROVE  EventsOpen <=> NoStaleEvent
<1>1. \A fd : fd \in ToSet(batch) <=> \E k \in 1..Len(batch) : batch[k] = fd
  BY ToSetByIndex DEF LoopTypes
<1>2. DOMAIN batch = 1..Len(batch)
  BY DEF LoopTypes
<1>. QED  BY <1>1, <1>2, Zenon DEF EventsOpen, NoStaleEvent

\* A read takes a part of what is unread, not nothing, and leaves the rest.
LEMMA ReadParts ==
    ASSUME NEW T, NEW q \in Seq(T), q # <<>>
    PROVE  LET n == Min({BUF_SIZE, Len(q)})
           IN  /\ n \in 1..Len(q) /\ n <= BUF_SIZE
               /\ SubSeq(q, 1, n) \in Seq(T) /\ Len(SubSeq(q, 1, n)) = n /\ SubSeq(q, 1, n) # <<>>
               /\ SubSeq(q, n + 1, Len(q)) \in Seq(T)
               /\ SubSeq(q, 1, n) \o SubSeq(q, n + 1, Len(q)) = q
<1> DEFINE n == Min({BUF_SIZE, Len(q)})
<1>1. n \in 1..Len(q) /\ n <= BUF_SIZE
  <2>1. Len(q) \in Nat \ {0} /\ BUF_SIZE \in Nat \ {0}
    OBVIOUS
  <2>. QED  BY <2>1, MinOfTwo
<1>. HIDE DEF n
<1>2. /\ SubSeq(q, 1, n) \in Seq(T) /\ Len(SubSeq(q, 1, n)) = n
      /\ SubSeq(q, n + 1, Len(q)) \in Seq(T)
      /\ SubSeq(q, 1, n) \o SubSeq(q, n + 1, Len(q)) = q
  BY <1>1, CutParts
<1>3. SubSeq(q, 1, n) # <<>>
  BY <1>1, <1>2
<1>. QED  BY <1>1, <1>2, <1>3 DEF n

\* News on a connection puts its descriptor, if it has one, into the list.
LEMMA WokenByProperties ==
    ASSUME LoopTypes, NEW c \in Clients
    PROVE  /\ WokenBy(c) \in Seq(Sources) /\ IsInjective(WokenBy(c))
           /\ ToSet(ready) \subseteq ToSet(WokenBy(c))
           /\ fdOf[c] # NoFd => fdOf[c] \in ToSet(WokenBy(c))
<1>1. CASE fdOf[c] = NoFd
  BY <1>1 DEF WokenBy, LoopTypes
<1>2. CASE fdOf[c] # NoFd
  <2>1. fdOf[c] \in Sources /\ ready \in Seq(Sources) /\ IsInjective(ready)
    BY <1>2 DEF LoopTypes, Sources
  <2>. QED  BY <1>2, <2>1, WokenProperties DEF WokenBy
<1>. QED  BY <1>1, <1>2

-----------------------------------------------------------------------------
(* Types.                                                                  *)

\* The steps of the clients and of the network.
LEMMA TypeClient ==
    ASSUME NetTypes, LoopTypes, NEW c \in Clients, Client(c) \/ Arrive(c)
    PROVE  NetTypes' /\ LoopTypes'
<1>1. CASE Connect(c)
  <2>1. backlog' \in Seq(Clients)
    BY <1>1 DEF Connect, LoopTypes
  <2>2. ready' \in Seq(Sources) /\ IsInjective(ready')
    <3>1. ServFd \in Sources /\ ready \in Seq(Sources) /\ IsInjective(ready)
      BY DEF LoopTypes, Sources
    <3>. QED  BY <1>1, <3>1, WokenProperties DEF Connect
  <2>3. LoopTypes'
    BY <1>1, <2>1, <2>2 DEF Connect, LoopTypes, server
  <2>. QED  BY <1>1, <2>3 DEF Connect, NetTypes, clients
<1>2. CASE WriteLine(c)
  <2>1. PICK n \in 1..MaxLine : /\ str_len' = [str_len EXCEPT ![c] = n]
                                /\ net' = [net EXCEPT ![c] = [k \in 1..n |-> k]]
    BY <1>2 DEF WriteLine
  <2>2. [k \in 1..n |-> k] \in Seq(1..MaxLine)
    <3>1. n \in Nat /\ \A k \in 1..n : k \in 1..MaxLine
      OBVIOUS
    <3>. QED  BY <3>1
  <2>3. net' \in [Clients -> Seq(1..MaxLine)] /\ str_len' \in [Clients -> 0..MaxLine]
    BY <2>1, <2>2 DEF NetTypes
  <2>4. message' \in [Clients -> Seq(1..MaxLine)] /\ lines' \in [Clients -> 0..MaxLines]
    BY <1>2 DEF WriteLine, NetTypes
  <2>5. NetTypes'
    BY <1>2, <2>3, <2>4 DEF WriteLine, NetTypes
  <2>. QED  BY <1>2, <2>5 DEF WriteLine, LoopTypes, server
<1>3. CASE ReadReply(c)
  <2>1. message[c] \o outq[c] \in Seq(1..MaxLine)
    BY ConcatProperties DEF NetTypes
  <2>2. NetTypes'
    BY <1>3, <2>1 DEF ReadReply, NetTypes
  <2>. QED  BY <1>3, <2>2 DEF ReadReply, LoopTypes, server
<1>4. CASE Quit(c) \/ Killed(c)
  <2>1. conn' \in [Clients -> {"idle", "open", "fin", "rst", "dead"}]
    BY <1>4 DEF Quit, Killed, LoopTypes
  <2>2. LoopTypes'
    BY <1>4, <2>1, WokenByProperties DEF Quit, Killed, LoopTypes, server
  <2>3. outq' \in [Clients -> Seq(1..MaxLine)]
    BY <1>4 DEF Quit, Killed, NetTypes
  <2>. QED  BY <1>4, <2>2, <2>3 DEF Quit, Killed, NetTypes, clients
<1>5. CASE Arrive(c)
  <2>1. PICK n \in 1..Len(net[c]) : /\ inq' = [inq EXCEPT ![c] = @ \o SubSeq(net[c], 1, n)]
                                    /\ net' = [net EXCEPT ![c] = SubSeq(@, n + 1, Len(@))]
    BY <1>5 DEF Arrive
  <2>2. net[c] \in Seq(1..MaxLine) /\ inq[c] \in Seq(1..MaxLine) /\ n \in 0..Len(net[c])
    <3>1. net[c] \in Seq(1..MaxLine) /\ inq[c] \in Seq(1..MaxLine)
      BY DEF NetTypes
    <3>. QED  BY <3>1
  <2>3. SubSeq(net[c], 1, n) \in Seq(1..MaxLine) /\ SubSeq(net[c], n + 1, Len(net[c])) \in Seq(1..MaxLine)
    BY <2>2, SplitMembers
  <2>4. inq[c] \o SubSeq(net[c], 1, n) \in Seq(1..MaxLine)
    BY <2>2, <2>3, ConcatProperties
  <2>5. inq' \in [Clients -> Seq(1..MaxLine)] /\ net' \in [Clients -> Seq(1..MaxLine)]
    BY <2>1, <2>3, <2>4 DEF NetTypes
  <2>6. NetTypes'
    BY <1>5, <2>5 DEF Arrive, NetTypes, clients
  <2>. QED  BY <1>5, <2>6, WokenByProperties DEF Arrive, LoopTypes, server
<1>. QED  BY <1>1, <1>2, <1>3, <1>4, <1>5 DEF Client

\* What epoll_wait reports and leaves, of the list as it is.
LEMMA WaitParts ==
    ASSUME LoopTypes, EpollWait
    PROVE  /\ batch' \in Seq(Sources) /\ Len(batch') <= EPOLL_SIZE /\ IsInjective(batch')
           /\ ready' \in Seq(Sources) /\ IsInjective(ready')
           /\ ToSet(batch') \subseteq ReadableFds
           /\ ToSet(ready) \cap ReadableFds \subseteq ToSet(batch') \cup ToSet(ready')
           /\ \A fd \in ToSet(batch') : Level(fd) => fd \in ToSet(ready')
<1> DEFINE live == Filter(ready, ReadableFds)
           level == {fd \in Sources : Level(fd)}
<1>1. batch' = Reported(live, EPOLL_SIZE) /\ ready' = Requeued(live, level, EPOLL_SIZE)
  BY DEF EpollWait
<1>2. ready \in Seq(Sources) /\ IsInjective(ready) /\ EPOLL_SIZE \in Nat
  BY DEF LoopTypes
<1>3. live \in Seq(Sources) /\ ToSet(live) = ToSet(ready) \cap ReadableFds /\ IsInjective(live)
  <2>1. live \in Seq(Sources \cap ReadableFds)
    BY <1>2, FilterProperties
  <2>2. live \in Seq(Sources)
    BY <2>1
  <2>. QED  BY <1>2, <2>2, FilterProperties
<1>. HIDE DEF live, level
<1>4. /\ batch' \in Seq(Sources) /\ Len(batch') <= EPOLL_SIZE /\ IsInjective(batch')
      /\ ready' \in Seq(Sources) /\ IsInjective(ready')
      /\ ToSet(batch') \subseteq ToSet(live)
      /\ ToSet(live) \subseteq ToSet(batch') \cup ToSet(ready')
      /\ ToSet(batch') \cap level \subseteq ToSet(ready')
  BY <1>1, <1>2, <1>3, ReportedProperties
<1>5. ToSet(live) \subseteq ReadableFds /\ ReadableFds \subseteq Sources
  BY <1>3 DEF ReadableFds
<1>. QED  BY <1>3, <1>4, <1>5 DEF level

\* The steps of the loop that belong to no client.
LEMMA TypeLoop ==
    ASSUME NetTypes, LoopTypes, EpollWait \/ Accept \/ AcceptError
    PROVE  NetTypes' /\ LoopTypes'
<1>1. CASE EpollWait
  BY <1>1, WaitParts DEF EpollWait, NetTypes, LoopTypes, clients
<1>2. CASE Accept
  <2>1. batch # <<>> /\ backlog # <<>>
    BY <1>2 DEF Accept, Serving
  <2>2. PICK fd \in FDs : /\ fdOf' = [fdOf EXCEPT ![Head(backlog)] = fd]
                          /\ ready' = IF HasNews(Head(backlog)) THEN Woken(ready, fd) ELSE ready
    BY <1>2 DEF Accept, FreeFds
  <2>3. ready' \in Seq(Sources) /\ IsInjective(ready')
    <3>1. fd \in Sources /\ ready \in Seq(Sources) /\ IsInjective(ready)
      BY DEF LoopTypes, Sources
    <3>. QED  BY <2>2, <3>1, WokenProperties
  <2>4. batch' \in Seq(Sources) /\ Len(batch') <= EPOLL_SIZE
    <3>1. batch \in Seq(Sources) /\ Len(batch) <= EPOLL_SIZE /\ batch' = Tail(batch)
      BY <1>2 DEF Accept, LoopTypes
    <3>. QED  BY <2>1, <3>1
  <2>5. backlog' \in Seq(Clients) /\ fdOf' \in [Clients -> FDs \cup {NoFd}]
    <3>1. backlog \in Seq(Clients) /\ backlog' = Tail(backlog) /\ fdOf \in [Clients -> FDs \cup {NoFd}]
      BY <1>2 DEF Accept, LoopTypes
    <3>. QED  BY <2>1, <2>2, <3>1
  <2>. QED  BY <1>2, <2>3, <2>4, <2>5 DEF Accept, NetTypes, LoopTypes, clients
<1>3. CASE AcceptError
  BY <1>3 DEF AcceptError, NetTypes, LoopTypes, kernel, clients
<1>. QED  BY <1>1, <1>2, <1>3

\* A batch that goes on with the same or with the next event.
LEMMA TypeNextEvent ==
    ASSUME LoopTypes, batch # <<>>
    PROVE  Tail(batch) \in Seq(Sources) /\ Len(Tail(batch)) <= EPOLL_SIZE
<1>1. batch \in Seq(Sources) /\ Len(batch) <= EPOLL_SIZE
  BY DEF LoopTypes
<1>. QED  BY <1>1

\* The steps that serve a client.
LEMMA TypeServe ==
    ASSUME NetTypes, LoopTypes, BatchExact, NEW c \in Clients, Serve(c)
    PROVE  NetTypes' /\ LoopTypes'
<1>1. CASE ReadData(c)
  <2>1. /\ buf' = SubSeq(inq[c], 1, ReadLen(c))
        /\ inq' = [inq EXCEPT ![c] = SubSeq(@, ReadLen(c) + 1, Len(@))]
        /\ inq[c] # <<>>
    BY <1>1 DEF ReadData
  <2>2. inq[c] \in Seq(1..MaxLine)
    BY DEF NetTypes
  <2>3. /\ buf' \in Seq(1..MaxLine) /\ Len(buf') <= BUF_SIZE
        /\ SubSeq(inq[c], ReadLen(c) + 1, Len(inq[c])) \in Seq(1..MaxLine)
    BY <2>1, <2>2, ReadParts DEF ReadLen
  <2>4. inq' \in [Clients -> Seq(1..MaxLine)]
    BY <2>1, <2>3 DEF NetTypes
  <2>. QED  BY <1>1, <2>3, <2>4 DEF ReadData, NetTypes, LoopTypes, clients
<1>2. CASE ReadEof(c)
  <2>1. ready' \in Seq(Sources) /\ IsInjective(ready')
    BY <1>2, ForgottenProperties DEF ReadEof, LoopTypes
  <2>2. batch' \in Seq(Sources) /\ Len(batch') <= EPOLL_SIZE
    BY <1>2, TypeNextEvent DEF ReadEof, Serving
  <2>. QED  BY <1>2, <2>1, <2>2 DEF ReadEof, NetTypes, LoopTypes, clients
<1>3. CASE ReadReset(c)
  <2>1. batch' \in Seq(Sources) /\ Len(batch') <= EPOLL_SIZE
    BY <1>3, TypeNextEvent DEF ReadReset, Serving, AfterRead, LoopTypes
  <2>. QED  BY <1>3, <2>1 DEF ReadReset, NetTypes, LoopTypes, clients
<1>4. CASE Drained(c)
  <2>1. batch' \in Seq(Sources) /\ Len(batch') <= EPOLL_SIZE
    BY <1>4, TypeNextEvent DEF Drained, Serving
  <2>. QED  BY <1>4, <2>1 DEF Drained, NetTypes, LoopTypes, kernel, clients
<1>5. CASE WriteEcho(c)
  <2>1. batch' \in Seq(Sources) /\ Len(batch') <= EPOLL_SIZE
    BY <1>5, TypeNextEvent DEF WriteEcho, BatchExact, AfterRead, LoopTypes
  <2>2. outq' \in [Clients -> Seq(1..MaxLine)]
    <3>1. CASE outq' = [outq EXCEPT ![c] = @ \o SubSeq(buf, 1, Taken(c))]
      <4>1. buf \in Seq(1..MaxLine) /\ outq[c] \in Seq(1..MaxLine) /\ Len(buf) \in Nat /\ Len(outq[c]) \in Nat
        <5>1. buf \in Seq(1..MaxLine) /\ outq[c] \in Seq(1..MaxLine)
          BY DEF NetTypes, LoopTypes
        <5>. QED  BY <5>1
      <4>2. Taken(c) \in Int /\ Taken(c) <= Len(buf)
        <5>1. Len(buf) \in Int /\ SockBuf - Len(outq[c]) \in Int
          BY <4>1
        <5>2. Min({Len(buf), SockBuf - Len(outq[c])})
                  = IF Len(buf) <= SockBuf - Len(outq[c]) THEN Len(buf) ELSE SockBuf - Len(outq[c])
          BY <5>1, MinOfTwo
        <5>. QED  BY <4>1, <5>1, <5>2 DEF Taken
      <4>3. SubSeq(buf, 1, Taken(c)) \in Seq(1..MaxLine)
        BY <4>1, <4>2
      <4>4. outq[c] \o SubSeq(buf, 1, Taken(c)) \in Seq(1..MaxLine)
        BY <4>1, <4>3, ConcatProperties
      <4>. QED  BY <3>1, <4>4 DEF NetTypes
    <3>2. CASE UNCHANGED outq
      BY <3>2 DEF NetTypes
    <3>. QED  BY <1>5, <3>1, <3>2 DEF WriteEcho
  <2>3. ready' \in Seq(Sources) /\ IsInjective(ready')
    <3>1. fdOf[c] \in Sources
      <4>1. batch \in Seq(Sources) /\ batch # <<>> /\ Head(batch) = fdOf[c]
        BY <1>5 DEF WriteEcho, BatchExact, LoopTypes
      <4>. QED  BY <4>1
    <3>2. ready' \in {ready, Woken(ready, fdOf[c])}
      BY <1>5 DEF WriteEcho
    <3>3. ready \in Seq(Sources) /\ IsInjective(ready)
      BY DEF LoopTypes
    <3>4. Woken(ready, fdOf[c]) \in Seq(Sources) /\ IsInjective(Woken(ready, fdOf[c]))
      BY <3>1, <3>3, WokenProperties
    <3>. QED  BY <3>2, <3>3, <3>4
  <2>4. up' \in BOOLEAN /\ conn' \in [Clients -> {"idle", "open", "fin", "rst", "dead"}]
    BY <1>5 DEF WriteEcho, LoopTypes
  <2>5. UNCHANGED <<edge, backlog, fdOf, net, inq, clients>> /\ buf' = <<>>
    BY <1>5 DEF WriteEcho
  <2>6. NetTypes'
    BY <2>2, <2>5 DEF NetTypes, clients
  <2>7. buf' \in Seq(1..MaxLine) /\ Len(buf') <= BUF_SIZE
    BY <2>5
  <2>8. LoopTypes'
    BY <2>1, <2>3, <2>4, <2>5, <2>7 DEF LoopTypes
  <2>. QED  BY <2>6, <2>8
<1>. QED  BY <1>1, <1>2, <1>3, <1>4, <1>5 DEF Serve

-----------------------------------------------------------------------------
(* Descriptors and connections.                                            *)

\* Steps that neither accept nor close: a connection that is made stays made.
LEMMA FdsSame ==
    ASSUME FdsExact, UNCHANGED <<fdOf, backlog>>,
           \A c \in Clients : conn'[c] = "idle" <=> conn[c] = "idle"
    PROVE  FdsExact'
  BY DEF FdsExact

\* Every step keeps descriptors and connections one to one.
LEMMA FdsStep ==
    ASSUME EventsInv, [Next]_vars
    PROVE  FdsExact'
<1>1. FdsExact /\ LoopTypes
  BY DEF EventsInv
<1>2. ASSUME NEW c \in Clients, Connect(c) PROVE FdsExact'
  <2>1. /\ conn[c] = "idle" /\ conn' = [conn EXCEPT ![c] = "open"]
        /\ backlog' = Append(backlog, c) /\ fdOf' = fdOf
    BY <1>2 DEF Connect
  <2>2. c \notin ToSet(backlog) /\ fdOf[c] = NoFd
    BY <1>1, <2>1 DEF FdsExact
  <2>3. ToSet(backlog') = ToSet(backlog) \cup {c} /\ IsInjective(backlog')
    <3>1. backlog \in Seq(Clients) /\ IsInjective(backlog)
      BY <1>1 DEF LoopTypes, FdsExact
    <3>. QED  BY <2>1, <2>2, <3>1, AppendMembers
  <2>4. conn' \in [Clients -> {"idle", "open", "fin", "rst", "dead"}]
    BY <1>1, <2>1 DEF LoopTypes
  <2>5. \A d \in Clients : conn'[d] = "idle" => conn[d] = "idle" /\ d # c
    BY <1>1, <2>1 DEF LoopTypes
  <2>. QED  BY <1>1, <2>1, <2>2, <2>3, <2>5 DEF FdsExact
<1>3. CASE Accept
  <2>1. PICK fd \in FDs : /\ \A c \in Clients : fdOf[c] # fd
                          /\ fdOf' = [fdOf EXCEPT ![Head(backlog)] = fd]
    BY <1>3 DEF Accept, FreeFds
  <2>2. backlog # <<>> /\ backlog' = Tail(backlog) /\ conn' = conn
    BY <1>3 DEF Accept
  <2>3. /\ Head(backlog) \in Clients /\ ToSet(backlog) = ToSet(backlog') \cup {Head(backlog)}
        /\ IsInjective(backlog') /\ Head(backlog) \notin ToSet(backlog')
    <3>1. backlog \in Seq(Clients) /\ IsInjective(backlog)
      BY <1>1 DEF LoopTypes, FdsExact
    <3>. QED  BY <2>2, <3>1, TailMembers
  <2>4. \A c \in Clients : fdOf'[c] = IF c = Head(backlog) THEN fd ELSE fdOf[c]
    BY <1>1, <2>1, <2>3 DEF LoopTypes
  <2>. QED  BY <1>1, <2>1, <2>2, <2>3, <2>4 DEF FdsExact
<1>4. ASSUME NEW c \in Clients, ReadEof(c) PROVE FdsExact'
  <2>1. fdOf' = [fdOf EXCEPT ![c] = NoFd] /\ UNCHANGED <<conn, backlog>>
    BY <1>4 DEF ReadEof
  <2>2. \A d \in Clients : fdOf'[d] = IF d = c THEN NoFd ELSE fdOf[d]
    BY <1>1, <2>1 DEF LoopTypes
  <2>. QED  BY <1>1, <2>1, <2>2 DEF FdsExact
<1>5. ASSUME NEW c \in Clients, Quit(c) \/ Killed(c) \/ ReadReset(c) \/ WriteEcho(c) PROVE FdsExact'
  <2>1. UNCHANGED <<fdOf, backlog>> /\ \A d \in Clients : conn'[d] = "idle" <=> conn[d] = "idle"
    BY <1>1, <1>5 DEF Quit, Killed, Waiting, ReadReset, WriteEcho, LoopTypes, clients
  <2>. QED  BY <1>1, <2>1, FdsSame
<1>6. CASE UNCHANGED <<fdOf, backlog, conn>>
  BY <1>1, <1>6, FdsSame
<1>7. ASSUME NEW c \in Clients, WriteLine(c) \/ ReadReply(c) \/ Arrive(c) \/ ReadData(c) \/ Drained(c)
      PROVE  UNCHANGED <<fdOf, backlog, conn>>
  BY <1>7 DEF WriteLine, ReadReply, Arrive, ReadData, Drained, kernel
<1>8. ASSUME EpollWait \/ AcceptError \/ UNCHANGED vars PROVE UNCHANGED <<fdOf, backlog, conn>>
  BY <1>8 DEF EpollWait, AcceptError, kernel, vars
<1>. QED  BY <1>2, <1>3, <1>4, <1>5, <1>6, <1>7, <1>8 DEF Next, Server, Client, Serve

-----------------------------------------------------------------------------
(* The batch.                                                              *)

\* The event at the head of a batch and the others.
LEMMA HeadEvent ==
    ASSUME LoopTypes, BatchExact, batch # <<>>
    PROVE  /\ ToSet(batch) = ToSet(Tail(batch)) \cup {Head(batch)}
           /\ IsInjective(Tail(batch)) /\ Head(batch) \notin ToSet(Tail(batch))
           /\ Head(batch) \in Sources /\ ToSet(batch) \subseteq Sources
<1>1. batch \in Seq(Sources) /\ IsInjective(batch)
  BY DEF LoopTypes, BatchExact
<1>2. ToSet(batch) \subseteq Sources
  BY <1>1, ToSetByIndex
<1>. QED  BY <1>1, <1>2, TailMembers

\* The event that is served for a connection is the connection's descriptor.
LEMMA ServedEvent ==
    ASSUME EventsInv, NEW c \in Clients, batch # <<>>, Head(batch) = fdOf[c]
    PROVE  fdOf[c] \in FDs /\ fdOf[c] # ServFd /\ fdOf[c] # NoFd
<1>1. fdOf[c] \in Sources /\ fdOf[c] \in FDs \cup {NoFd}
  BY HeadEvent DEF EventsInv, LoopTypes
<1>. QED  BY <1>1 DEF Sources

\* Steps that leave the batch alone and take nothing out of the kernel's list.
LEMMA BatchSame ==
    ASSUME BatchExact, UNCHANGED <<edge, batch>>, ToSet(ready) \subseteq ToSet(ready'),
           buf' = <<>> \/ batch # <<>>
    PROVE  BatchExact'
  BY DEF BatchExact, Level

\* Steps that go on with the next event.
LEMMA BatchNext ==
    ASSUME LoopTypes, BatchExact, batch # <<>>, batch' = Tail(batch), UNCHANGED edge,
           ToSet(ready) \ {Head(batch)} \subseteq ToSet(ready'), buf' = <<>>
    PROVE  BatchExact'
<1>1. \A fd \in ToSet(batch') : fd \in ToSet(batch) /\ fd # Head(batch)
  BY HeadEvent
<1>2. IsInjective(batch')
  BY HeadEvent
<1>. QED  BY <1>1, <1>2 DEF BatchExact, Level

\* Every step keeps the batch exact.
LEMMA BatchStep ==
    ASSUME EventsInv, [Next]_vars
    PROVE  BatchExact'
<1>1. BatchExact /\ LoopTypes
  BY DEF EventsInv
<1>2. ASSUME NEW c \in Clients, Client(c) \/ Arrive(c) PROVE BatchExact'
  <2>1. UNCHANGED <<edge, batch, buf>>
    BY <1>2 DEF Client, Connect, WriteLine, ReadReply, Quit, Killed, Arrive, server
  <2>2. ToSet(ready) \subseteq ToSet(ready')
    <3>1. CASE ready' = ready
      BY <3>1
    <3>2. CASE ready' = WokenBy(c)
      BY <1>1, <3>2, WokenByProperties
    <3>3. CASE ready' = Woken(ready, ServFd)
      <4>1. ready \in Seq(Sources) /\ ServFd \in Sources
        BY <1>1 DEF LoopTypes, Sources
      <4>. QED  BY <3>3, <4>1, WokenProperties
    <3>. QED  BY <1>2, <3>1, <3>2, <3>3 DEF Client, Connect, WriteLine, ReadReply, Quit, Killed, Arrive
  <2>. QED  BY <1>1, <2>1, <2>2, BatchSame DEF BatchExact
<1>3. CASE EpollWait
  <2>1. UNCHANGED <<edge, buf>> /\ batch = <<>>
    BY <1>3 DEF EpollWait
  <2>. QED  BY <1>1, <1>3, <2>1, WaitParts DEF BatchExact, Level
<1>4. CASE Accept
  <2>1. /\ batch # <<>> /\ batch' = Tail(batch) /\ buf = <<>> /\ UNCHANGED <<edge, buf>>
    BY <1>4 DEF Accept, Serving
  <2>2. ToSet(ready) \subseteq ToSet(ready')
    <3>1. PICK fd \in FDs : ready' = IF HasNews(Head(backlog)) THEN Woken(ready, fd) ELSE ready
      BY <1>4 DEF Accept, FreeFds
    <3>2. fd \in Sources /\ ready \in Seq(Sources)
      BY <1>1 DEF LoopTypes, Sources
    <3>. QED  BY <3>1, <3>2, WokenProperties
  <2>. QED  BY <1>1, <2>1, <2>2, BatchNext
<1>5. CASE AcceptError \/ UNCHANGED vars
  BY <1>1, <1>5 DEF AcceptError, kernel, vars, server, BatchExact, Level
<1>6. ASSUME NEW c \in Clients, ReadData(c) PROVE BatchExact'
  <2>1. batch # <<>> /\ UNCHANGED <<edge, batch, ready>>
    BY <1>6 DEF ReadData, Serving
  <2>. QED  BY <1>1, <2>1, BatchSame
<1>7. ASSUME NEW c \in Clients, ReadEof(c) PROVE BatchExact'
  <2>1. /\ batch # <<>> /\ batch' = Tail(batch) /\ buf = <<>> /\ UNCHANGED <<edge, buf>>
        /\ ready' = Forgotten(ready, Head(batch))
    BY <1>7 DEF ReadEof, Serving
  <2>2. ToSet(ready') = ToSet(ready) \ {Head(batch)}
    BY <1>1, <2>1, ForgottenProperties DEF LoopTypes
  <2>. QED  BY <1>1, <2>1, <2>2, BatchNext
<1>8. ASSUME NEW c \in Clients, ReadReset(c) \/ Drained(c) PROVE BatchExact'
  <2>1. /\ batch # <<>> /\ batch' \in {batch, Tail(batch)} /\ buf = <<>>
        /\ UNCHANGED <<edge, buf, ready>>
    BY <1>8 DEF ReadReset, Drained, Serving, AfterRead, kernel
  <2>. QED  BY <1>1, <2>1, BatchNext, BatchSame
<1>9. ASSUME NEW c \in Clients, WriteEcho(c) PROVE BatchExact'
  <2>1. /\ batch # <<>> /\ Head(batch) = fdOf[c] /\ batch' \in {batch, Tail(batch)}
        /\ buf' = <<>> /\ UNCHANGED edge /\ ready' \in {ready, Woken(ready, fdOf[c])}
    BY <1>1, <1>9 DEF WriteEcho, AfterRead, BatchExact
  <2>2. ToSet(ready) \subseteq ToSet(ready')
    <3>1. fdOf[c] \in Sources /\ ready \in Seq(Sources)
      BY <1>1, <2>1, HeadEvent DEF LoopTypes
    <3>. QED  BY <2>1, <3>1, WokenProperties
  <2>. QED  BY <1>1, <2>1, <2>2, BatchNext, BatchSame
<1>. QED  BY <1>2, <1>3, <1>4, <1>5, <1>6, <1>7, <1>8, <1>9 DEF Next, Server, Serve

\* Every event still to be served is about an open descriptor: only the
\* event being served closes one, and the batch does not have it again.
LEMMA OpenStep ==
    ASSUME EventsInv, [Next]_vars
    PROVE  EventsOpen'
<1>1. BatchExact /\ LoopTypes /\ FdsExact /\ EventsOpen
  BY DEF EventsInv
<1>2. ASSUME fdOf' = fdOf, batch' = batch \/ (batch # <<>> /\ batch' = Tail(batch)) PROVE EventsOpen'
  <2>1. \A fd \in ToSet(batch') : fd \in ToSet(batch)
    BY <1>1, <1>2, HeadEvent
  <2>. QED  BY <1>1, <1>2, <2>1 DEF EventsOpen
<1>3. ASSUME NEW c \in Clients, Client(c) \/ Arrive(c) PROVE EventsOpen'
  BY <1>2, <1>3 DEF Client, Connect, WriteLine, ReadReply, Quit, Killed, Arrive, server
<1>4. CASE EpollWait
  <2>1. UNCHANGED fdOf
    BY <1>4 DEF EpollWait
  <2>2. \A fd \in ToSet(batch') : fd \in ReadableFds
    BY <1>1, <1>4, WaitParts
  <2>. QED  BY <2>1, <2>2 DEF EventsOpen, ReadableFds, Readable
<1>5. CASE Accept
  <2>1. batch # <<>> /\ batch' = Tail(batch) /\ backlog # <<>>
    BY <1>5 DEF Accept, Serving
  <2>2. PICK fd \in FDs : fdOf' = [fdOf EXCEPT ![Head(backlog)] = fd]
    BY <1>5 DEF Accept, FreeFds
  <2>3. Head(backlog) \in Clients /\ fdOf[Head(backlog)] = NoFd
    <3>1. Head(backlog) \in Clients /\ Head(backlog) \in ToSet(backlog)
      BY <1>1, <2>1, TailMembers DEF LoopTypes
    <3>. QED  BY <1>1, <3>1 DEF FdsExact
  <2>4. \A d \in Clients : d # Head(backlog) => fdOf'[d] = fdOf[d]
    BY <1>1, <2>2 DEF LoopTypes
  <2>5. \A f \in ToSet(batch') : f \in ToSet(batch) /\ f # NoFd
    BY <1>1, <2>1, HeadEvent DEF Sources
  <2>. QED  BY <1>1, <2>3, <2>4, <2>5 DEF EventsOpen
<1>6. CASE AcceptError \/ UNCHANGED vars
  BY <1>2, <1>6 DEF AcceptError, kernel, vars, server
<1>7. ASSUME NEW c \in Clients, ReadData(c) \/ ReadReset(c) \/ Drained(c) \/ WriteEcho(c)
      PROVE  EventsOpen'
  <2>1. fdOf' = fdOf /\ (batch' = batch \/ (batch # <<>> /\ batch' = Tail(batch)))
    BY <1>1, <1>7 DEF ReadData, ReadReset, Drained, WriteEcho, Serving, AfterRead, kernel, BatchExact
  <2>. QED  BY <1>2, <2>1
<1>8. ASSUME NEW c \in Clients, ReadEof(c) PROVE EventsOpen'
  <2>1. /\ batch # <<>> /\ batch' = Tail(batch) /\ Head(batch) = fdOf[c]
        /\ fdOf' = [fdOf EXCEPT ![c] = NoFd]
    BY <1>8 DEF ReadEof, Serving
  <2>2. \A d \in Clients : d # c => fdOf'[d] = fdOf[d]
    BY <1>1, <2>1 DEF LoopTypes
  <2>3. \A f \in ToSet(batch') : f \in ToSet(batch) /\ f # fdOf[c]
    BY <1>1, <2>1, HeadEvent
  <2>. QED  BY <1>1, <2>2, <2>3 DEF EventsOpen
<1>. QED  BY <1>3, <1>4, <1>5, <1>6, <1>7, <1>8 DEF Next, Server, Serve

-----------------------------------------------------------------------------
(* Wake-ups.                                                               *)

\* Steps after which nothing is readable that was not, and which forget no event.
LEMMA WakeupSame ==
    ASSUME NoLostWakeup, up' => up,
           \A fd \in Sources : Readable(fd)' => Readable(fd) \/ fd \in ToSet(ready'),
           ToSet(ready) \cup ToSet(batch) \subseteq ToSet(ready') \cup ToSet(batch')
    PROVE  NoLostWakeup'
  BY DEF NoLostWakeup

\* Steps that go on with the next event: the one left behind is reported
\* again if it is level-triggered, and has nothing to report otherwise.
LEMMA WakeupNext ==
    ASSUME LoopTypes, BatchExact, NoLostWakeup, up' => up, batch # <<>>, batch' = Tail(batch),
           \A fd \in Sources : Readable(fd)' => Readable(fd) \/ fd \in ToSet(ready'),
           ToSet(ready) \ {Head(batch)} \subseteq ToSet(ready'),
           \A fd \in Sources : fd = Head(batch) /\ Readable(fd)' => fd \in ToSet(ready')
    PROVE  NoLostWakeup'
<1>1. ToSet(batch) = ToSet(batch') \cup {Head(batch)}
  BY HeadEvent
<1>2. ASSUME up', NEW fd \in Sources, Readable(fd)' PROVE fd \in ToSet(ready') \cup ToSet(batch')
  <2>1. CASE fd = Head(batch)
    BY <1>2, <2>1
  <2>2. CASE fd # Head(batch)
    <3>1. Readable(fd) => fd \in ToSet(ready) \cup ToSet(batch)
      BY <1>2 DEF NoLostWakeup
    <3>. QED  BY <1>1, <1>2, <2>2, <3>1
  <2>. QED  BY <2>1, <2>2
<1>. QED  BY <1>2 DEF NoLostWakeup

\* News on one connection makes no descriptor readable but its own.
LEMMA NewsOf ==
    ASSUME LoopTypes, NEW c \in Clients, UNCHANGED <<backlog, fdOf>>,
           \A d \in Clients : d # c => inq'[d] = inq[d] /\ conn'[d] = conn[d],
           ready' = WokenBy(c)
    PROVE  \A fd \in Sources : Readable(fd)' => Readable(fd) \/ fd \in ToSet(ready')
<1>1. fdOf[c] # NoFd => fdOf[c] \in ToSet(ready')
  BY WokenByProperties
<1>2. \A fd \in Sources : fd # NoFd
  BY DEF Sources
<1>3. \A d \in Clients : d # c => (HasNews(d)' <=> HasNews(d))
  BY DEF HasNews
<1>4. ASSUME NEW fd \in Sources, Readable(fd)' PROVE Readable(fd) \/ fd \in ToSet(ready')
  <2>1. CASE fd = ServFd
    BY <1>4, <2>1 DEF Readable
  <2>2. CASE fd # ServFd
    <3>1. PICK d \in Clients : fdOf[d] = fd /\ HasNews(d)'
      BY <1>4, <2>2 DEF Readable
    <3>. QED  BY <1>1, <1>2, <1>3, <2>2, <3>1 DEF Readable
  <2>. QED  BY <2>1, <2>2
<1>. QED  BY <1>4

\* The steps of the clients and of the network lose no wake-up.
LEMMA WakeupClient ==
    ASSUME EventsInv, NEW c \in Clients, Client(c) \/ Arrive(c)
    PROVE  NoLostWakeup'
<1>1. LoopTypes /\ NoLostWakeup /\ FdsExact /\ NetTypes
  BY DEF EventsInv
<1>2. CASE Connect(c)
  <2>1. /\ conn[c] = "idle" /\ conn' = [conn EXCEPT ![c] = "open"]
        /\ UNCHANGED <<up, batch, fdOf, inq>> /\ ready' = Woken(ready, ServFd)
    BY <1>2 DEF Connect, server
  <2>2. ToSet(ready') = ToSet(ready) \cup {ServFd}
    <3>1. ready \in Seq(Sources) /\ ServFd \in Sources
      BY <1>1 DEF LoopTypes, Sources
    <3>. QED  BY <2>1, <3>1, WokenProperties
  <2>3. \A d \in Clients : HasNews(d)' => HasNews(d)
    BY <1>1, <2>1 DEF HasNews, LoopTypes
  <2>4. \A fd \in Sources : Readable(fd)' => Readable(fd) \/ fd = ServFd
    BY <2>1, <2>3 DEF Readable
  <2>. QED  BY <1>1, <2>1, <2>2, <2>4, WakeupSame
<1>3. CASE WriteLine(c) \/ ReadReply(c)
  BY <1>1, <1>3 DEF WriteLine, ReadReply, server, NoLostWakeup, Readable, HasNews
<1>4. CASE Quit(c) \/ Killed(c) \/ Arrive(c)
  <2>1. /\ UNCHANGED <<up, batch, backlog, fdOf>> /\ ready' = WokenBy(c)
        /\ \A d \in Clients : d # c => inq'[d] = inq[d] /\ conn'[d] = conn[d]
    BY <1>1, <1>4 DEF Quit, Killed, Arrive, server, LoopTypes, NetTypes
  <2>2. ToSet(ready) \subseteq ToSet(ready')
    BY <1>1, <2>1, WokenByProperties
  <2>3. \A fd \in Sources : Readable(fd)' => Readable(fd) \/ fd \in ToSet(ready')
    BY <1>1, <2>1, NewsOf
  <2>. QED  BY <1>1, <2>1, <2>2, <2>3, WakeupSame
<1>. QED  BY <1>2, <1>3, <1>4 DEF Client

\* The steps of the loop that belong to no client lose no wake-up.
LEMMA WakeupLoop ==
    ASSUME EventsInv, EpollWait \/ Accept \/ AcceptError
    PROVE  NoLostWakeup'
<1>1. LoopTypes /\ NoLostWakeup /\ FdsExact /\ BatchExact
  BY DEF EventsInv
<1>2. CASE EpollWait
  <2>1. batch = <<>> /\ UNCHANGED <<up, backlog, fdOf, conn, inq>>
    BY <1>2 DEF EpollWait
  <2>2. \A fd \in Sources : Readable(fd)' <=> Readable(fd)
    BY <2>1 DEF Readable, HasNews
  <2>3. ToSet(batch) = {}
    BY <2>1 DEF ToSet
  <2>4. \A fd \in Sources : Readable(fd) => fd \in ReadableFds
    BY DEF ReadableFds
  <2>. QED  BY <1>1, <1>2, <2>1, <2>2, <2>3, <2>4, WaitParts DEF NoLostWakeup
<1>3. CASE Accept
  <2>0. PICK a : a = Head(backlog)
    OBVIOUS
  <2>1. /\ batch # <<>> /\ batch' = Tail(batch) /\ Head(batch) = ServFd
        /\ backlog # <<>> /\ UNCHANGED <<up, conn, inq>>
    BY <1>3 DEF Accept, Serving
  <2>2. PICK fd \in FDs : /\ fdOf' = [fdOf EXCEPT ![a] = fd]
                          /\ ready' = IF HasNews(a) THEN Woken(ready, fd) ELSE ready
    BY <1>3, <2>0 DEF Accept, FreeFds
  <2>3. a \in Clients
    BY <1>1, <2>0, <2>1 DEF LoopTypes
  <2>4. /\ ToSet(ready) \subseteq ToSet(ready')
        /\ HasNews(a) => fd \in ToSet(ready')
    <3>1. ready \in Seq(Sources) /\ fd \in Sources
      BY <1>1 DEF LoopTypes, Sources
    <3>. QED  BY <2>2, <3>1, WokenProperties
  <2>5. \A d \in Clients : fdOf'[d] = IF d = a THEN fd ELSE fdOf[d]
    BY <1>1, <2>2, <2>3 DEF LoopTypes
  <2>6. ServFd \in ToSet(ready')
    <3>1. ServFd \in ToSet(batch)
      BY <1>1, <2>1, HeadEvent
    <3>2. Level(ServFd)
      BY DEF Level
    <3>3. ServFd \in ToSet(ready)
      BY <1>1, <3>1, <3>2, Zenon DEF BatchExact
    <3>. QED  BY <2>4, <3>3
  <2>7. \A d \in Clients : HasNews(d)' <=> HasNews(d)
    BY <2>1 DEF HasNews
  <2>8. ASSUME NEW f \in Sources, Readable(f)' PROVE Readable(f) \/ f \in ToSet(ready')
    <3>1. CASE f = ServFd
      BY <2>6, <3>1
    <3>2. CASE f # ServFd
      <4>1. PICK d \in Clients : fdOf'[d] = f /\ HasNews(d)
        BY <2>7, <2>8, <3>2 DEF Readable
      <4>2. CASE d = a
        BY <2>4, <2>5, <4>1, <4>2
      <4>3. CASE d # a
        BY <2>5, <3>2, <4>1, <4>3 DEF Readable
      <4>. QED  BY <4>2, <4>3
    <3>. QED  BY <3>1, <3>2
  <2>9. /\ \A f \in Sources : f = Head(batch) => f \in ToSet(ready')
        /\ ToSet(ready) \ {Head(batch)} \subseteq ToSet(ready')
    BY <2>1, <2>4, <2>6
  <2>. QED  BY <1>1, <2>1, <2>8, <2>9, WakeupNext
<1>4. CASE AcceptError
  BY <1>4 DEF AcceptError, NoLostWakeup
<1>. QED  BY <1>2, <1>3, <1>4

\* The steps that serve a client lose no wake-up.
LEMMA WakeupServe ==
    ASSUME EventsInv, NEW c \in Clients, Serve(c)
    PROVE  NoLostWakeup'
<1>1. LoopTypes /\ NoLostWakeup /\ FdsExact /\ BatchExact /\ NetTypes
  BY DEF EventsInv
<1>2. ASSUME ~edge, batch # <<>> PROVE Head(batch) \in ToSet(ready)
  BY <1>1, <1>2, HeadEvent DEF BatchExact, Level
<1>3. CASE ReadData(c)
  <2>1. /\ inq[c] # <<>> /\ \A d \in Clients : d # c => inq'[d] = inq[d]
        /\ UNCHANGED <<up, batch, ready, backlog, fdOf, conn>>
    BY <1>1, <1>3 DEF ReadData, NetTypes
  <2>2. \A d \in Clients : HasNews(d)' => HasNews(d)
    BY <2>1 DEF HasNews
  <2>3. \A fd \in Sources : Readable(fd)' => Readable(fd)
    BY <2>1, <2>2 DEF Readable
  <2>. QED  BY <1>1, <2>1, <2>3, WakeupSame
<1>4. CASE ReadEof(c)
  <2>1. /\ batch # <<>> /\ batch' = Tail(batch) /\ Head(batch) = fdOf[c]
        /\ fdOf' = [fdOf EXCEPT ![c] = NoFd] /\ ready' = Forgotten(ready, fdOf[c])
        /\ UNCHANGED <<up, backlog, conn, inq>>
    BY <1>4 DEF ReadEof, Serving
  <2>2. ToSet(ready') = ToSet(ready) \ {fdOf[c]}
    BY <1>1, <2>1, ForgottenProperties DEF LoopTypes
  <2>3. \A d \in Clients : fdOf'[d] = IF d = c THEN NoFd ELSE fdOf[d]
    BY <1>1, <2>1 DEF LoopTypes
  <2>4. fdOf[c] # NoFd /\ fdOf[c] # ServFd
    BY <2>1, ServedEvent
  <2>5. \A d \in Clients : HasNews(d)' <=> HasNews(d)
    BY <2>1 DEF HasNews
  <2>6. ASSUME NEW fd \in Sources, fd = Head(batch), Readable(fd)' PROVE FALSE
    <3>1. PICK d \in Clients : fdOf'[d] = fd
      BY <2>1, <2>4, <2>6 DEF Readable
    <3>. QED  BY <1>1, <2>1, <2>3, <2>4, <2>6, <3>1 DEF FdsExact
  <2>7. \A fd \in Sources : Readable(fd)' => Readable(fd)
    <3>1. \A fd \in Sources : fd # NoFd
      BY DEF Sources
    <3>. QED  BY <2>1, <2>3, <2>5, <3>1 DEF Readable
  <2>. QED  BY <1>1, <2>1, <2>2, <2>6, <2>7, WakeupNext
<1>5. CASE ReadReset(c)
  <2>1. /\ batch # <<>> /\ batch' = (IF edge THEN batch ELSE Tail(batch))
        /\ conn[c] = "rst" /\ conn' = [conn EXCEPT ![c] = "dead"]
        /\ UNCHANGED <<up, ready, backlog, fdOf, inq>>
    BY <1>5 DEF ReadReset, Serving, AfterRead
  <2>2. \A d \in Clients : HasNews(d)' => HasNews(d)
    BY <1>1, <2>1 DEF HasNews, LoopTypes
  <2>3. \A fd \in Sources : Readable(fd)' => Readable(fd)
    BY <2>1, <2>2 DEF Readable
  <2>. QED  BY <1>1, <1>2, <2>1, <2>3, WakeupSame, WakeupNext
<1>6. CASE Drained(c)
  <2>1. /\ batch # <<>> /\ batch' = Tail(batch) /\ Head(batch) = fdOf[c] /\ ~ HasNews(c)
        /\ UNCHANGED <<up, ready, backlog, fdOf, conn, inq>>
    BY <1>6 DEF Drained, Serving, kernel
  <2>2. \A fd : Readable(fd)' <=> Readable(fd)
    BY <2>1 DEF Readable, HasNews
  <2>3. ~ Readable(fdOf[c])
    <3>1. fdOf[c] # ServFd /\ fdOf[c] # NoFd
      BY <2>1, ServedEvent
    <3>. QED  BY <1>1, <2>1, <3>1 DEF Readable, FdsExact
  <2>4. \A fd : fd = Head(batch) => ~ Readable(fd)'
    BY <2>1, <2>2, <2>3
  <2>. QED  BY <1>1, <2>1, <2>2, <2>4, WakeupNext
<1>7. CASE WriteEcho(c)
  <2>1. /\ batch # <<>> /\ batch' = (IF edge THEN batch ELSE Tail(batch)) /\ Head(batch) = fdOf[c]
        /\ up /\ ready' \in {ready, Woken(ready, fdOf[c])} /\ UNCHANGED <<backlog, fdOf, inq>>
    BY <1>1, <1>7 DEF WriteEcho, AfterRead, BatchExact
  <2>2. \A d \in Clients : conn'[d] = conn[d] \/ conn[d] \in {"fin", "rst", "dead"}
    BY <1>1, <1>7 DEF WriteEcho, LoopTypes
  <2>3. \A d \in Clients : HasNews(d)' => HasNews(d)
    BY <2>1, <2>2 DEF HasNews
  <2>4. \A fd \in Sources : Readable(fd)' => Readable(fd)
    BY <2>1, <2>3 DEF Readable
  <2>5. ToSet(ready) \subseteq ToSet(ready')
    <3>1. fdOf[c] \in Sources /\ ready \in Seq(Sources)
      BY <1>1, <2>1, HeadEvent DEF LoopTypes
    <3>. QED  BY <2>1, <3>1, WokenProperties
  <2>. QED  BY <1>1, <1>2, <2>1, <2>4, <2>5, WakeupSame, WakeupNext
<1>. QED  BY <1>3, <1>4, <1>5, <1>6, <1>7 DEF Serve

-----------------------------------------------------------------------------
(* The invariant.                                                          *)

\* At the start there are no events, descriptors or connections.
LEMMA EventsInit ==
    ASSUME Init
    PROVE  EventsInv
<1>1. ToSet(<<>>) = {} /\ IsInjective(<<>>)
  BY DEF ToSet, IsInjective
<1>2. NetTypes
  BY DEF Init, NetTypes
<1>3. LoopTypes
  BY <1>1 DEF Init, LoopTypes
<1>4. FdsExact /\ BatchExact /\ EventsOpen
  BY <1>1 DEF Init, FdsExact, BatchExact, EventsOpen
<1>5. NoLostWakeup
  BY DEF Init, NoLostWakeup, Readable, HasNews
<1>. QED  BY <1>2, <1>3, <1>4, <1>5 DEF EventsInv

\* Every step keeps what is known of the events exact.
LEMMA EventsStep ==
    ASSUME EventsInv, [Next]_vars
    PROVE  EventsInv'
<1>1. NetTypes' /\ LoopTypes'
  <2>1. NetTypes /\ LoopTypes /\ BatchExact
    BY DEF EventsInv
  <2>2. CASE UNCHANGED vars
    BY <2>1, <2>2 DEF NetTypes, LoopTypes, vars, server, kernel, clients
  <2>3. CASE Next
    BY <2>1, <2>3, TypeClient, TypeLoop, TypeServe DEF Next, Server
  <2>. QED  BY <2>2, <2>3
<1>2. NoLostWakeup'
  <2>1. CASE UNCHANGED vars
    BY <2>1 DEF EventsInv, NoLostWakeup, Readable, HasNews, vars, server, kernel
  <2>2. CASE Next
    BY <2>2, WakeupClient, WakeupLoop, WakeupServe DEF Next, Server
  <2>. QED  BY <2>1, <2>2
<1>. QED  BY <1>1, <1>2, FdsStep, BatchStep, OpenStep DEF EventsInv

\* The strengthened invariant holds of every behaviour.
LEMMA EventsInvariant == Spec => []EventsInv
<1>1. Init => EventsInv
  BY EventsInit
<1>2. EventsInv /\ [Next]_vars => EventsInv'
  BY EventsStep
<1>. QED  BY <1>1, <1>2, PTL DEF Spec

\* Whatever can be read on a watched descriptor will be reported or is about
\* to be served, and no event of a batch is about a closed descriptor, however
\* data, connections and departures come in between, in the level-triggered
\* programs and in the edge-triggered one.
THEOREM EventsAreExact == Spec => []EventsExact
<1>1. EventsInv => EventsExact
  BY TypeParts, EventsOpenExact DEF EventsInv, EventsExact
<1>. QED  BY <1>1, EventsInvariant, PTL

-----------------------------------------------------------------------------
(* The echo.                                                               *)

\* What there is of c's line, from the client's end to the server's and back.
Whole(c) == message[c] \o outq[c] \o Held(c) \o inq[c] \o net[c]

Line(n) == [k \in 1..n |-> k]

\* A line is all there; a connection that was not made has no line.
EchoOf(c) ==
    /\ conn[c] = "open" => Whole(c) = Line(str_len[c])
    /\ conn[c] = "idle" =>
          /\ message[c] = <<>> /\ outq[c] = <<>> /\ inq[c] = <<>> /\ net[c] = <<>>
          /\ str_len[c] = 0

EchoInv == \A c \in Clients : EchoOf(c)

\* The five parts are sequences of units, and their lengths add up.
LEMMA WholeTypes ==
    ASSUME NetTypes, LoopTypes, NEW c \in Clients
    PROVE  /\ message[c] \in Seq(1..MaxLine) /\ outq[c] \in Seq(1..MaxLine)
           /\ Held(c) \in Seq(1..MaxLine)
           /\ inq[c] \in Seq(1..MaxLine) /\ net[c] \in Seq(1..MaxLine)
           /\ Len(Whole(c)) = Len(message[c]) + Len(outq[c]) + Len(Held(c)) + Len(inq[c]) + Len(net[c])
<1>1. /\ message[c] \in Seq(1..MaxLine) /\ outq[c] \in Seq(1..MaxLine)
      /\ inq[c] \in Seq(1..MaxLine) /\ net[c] \in Seq(1..MaxLine)
  BY DEF NetTypes
<1>2. Held(c) \in Seq(1..MaxLine)
  <2>1. buf \in Seq(1..MaxLine) /\ <<>> \in Seq(1..MaxLine)
    BY DEF LoopTypes
  <2>2. Held(c) \in {buf, <<>>}
    BY DEF Held
  <2>. QED  BY <2>1, <2>2
<1>3. Len(Whole(c)) = Len(message[c]) + Len(outq[c]) + Len(Held(c)) + Len(inq[c]) + Len(net[c])
  BY <1>1, <1>2 DEF Whole
<1>. QED  BY <1>1, <1>2, <1>3

\* What the loop holds does not change in a step that neither reads nor
\* writes, of any connection that stays as it is.
LEMMA HeldSame ==
    ASSUME buf' = buf, buf = <<>> \/ UNCHANGED <<batch, fdOf>>, NEW c
    PROVE  Held(c)' = Held(c)
  BY DEF Held

\* The whole of a line that no step of the client or the loop touches.
LEMMA WholeSame ==
    ASSUME NEW c, Held(c)' = Held(c), message'[c] = message[c], outq'[c] = outq[c],
           inq'[c] = inq[c], net'[c] = net[c]
    PROVE  Whole(c)' = Whole(c)
  BY DEF Whole

\* What the invariant says of the clients whose line no step touches.
LEMMA EchoOthers ==
    ASSUME EchoInv, NEW c \in Clients, Whole(c)' = Whole(c), str_len'[c] = str_len[c],
           conn'[c] = "open" => conn[c] = "open"
    PROVE  conn'[c] = "open" => Whole(c)' = Line(str_len'[c])
  BY DEF EchoInv, EchoOf

\* The client writes a line when it has all of the one before.
LEMMA EchoWriteLine ==
    ASSUME EventsInv, EchoInv, NEW c \in Clients, WriteLine(c)
    PROVE  EchoInv'
<1>1. NetTypes /\ LoopTypes
  BY DEF EventsInv
<1>2. PICK n \in 1..MaxLine : str_len' = [str_len EXCEPT ![c] = n] /\ net' = [net EXCEPT ![c] = Line(n)]
  BY DEF WriteLine, Line
<1>3. /\ conn[c] = "open" /\ ~ (Len(message[c]) < str_len[c])
      /\ message' = [message EXCEPT ![c] = <<>>]
      /\ UNCHANGED <<batch, buf, fdOf, conn, inq, outq>>
  BY DEF WriteLine, Waiting, server
<1>4. outq[c] = <<>> /\ Held(c) = <<>> /\ inq[c] = <<>>
  <2>1. Whole(c) = Line(str_len[c]) /\ str_len[c] \in Nat
    BY <1>1, <1>3 DEF EchoInv, EchoOf, NetTypes
  <2>2. Len(Whole(c)) = str_len[c]
    BY <2>1 DEF Line
  <2>3. Len(outq[c]) = 0 /\ Len(Held(c)) = 0 /\ Len(inq[c]) = 0
    <3>1. /\ Len(message[c]) \in Nat /\ Len(outq[c]) \in Nat /\ Len(Held(c)) \in Nat
          /\ Len(inq[c]) \in Nat /\ Len(net[c]) \in Nat
          /\ str_len[c] = Len(message[c]) + Len(outq[c]) + Len(Held(c)) + Len(inq[c]) + Len(net[c])
      <4>1. \A s \in Seq(1..MaxLine) : Len(s) \in Nat
        OBVIOUS
      <4>. QED  BY <1>1, <2>2, <4>1, WholeTypes
    <3>2. \A m, o, h, i, w \in Nat : ~ (m < m + o + h + i + w) => o = 0 /\ h = 0 /\ i = 0
      OBVIOUS
    <3>3. ~ (Len(message[c]) < str_len[c])
      BY <1>3
    <3>4. ~ (Len(message[c]) < Len(message[c]) + Len(outq[c]) + Len(Held(c)) + Len(inq[c]) + Len(net[c]))
      BY <3>1, <3>3
    <3>. QED  BY <3>1, <3>2, <3>4, Zenon
  <2>. QED  BY <1>1, <2>3, WholeTypes, EmptySeq
<1>5. Held(c)' = Held(c)
  BY <1>3, HeldSame
<1>6. Whole(c)' = Line(str_len'[c])
  <2>1. message'[c] = <<>> /\ net'[c] = Line(n) /\ str_len'[c] = n
    BY <1>1, <1>2, <1>3 DEF NetTypes
  <2>2. Line(n) \in Seq(1..MaxLine)
    <3>1. n \in Nat /\ \A k \in 1..n : k \in 1..MaxLine
      OBVIOUS
    <3>. QED  BY <3>1 DEF Line
  <2>3. Whole(c)' = <<>> \o <<>> \o <<>> \o <<>> \o Line(n)
    BY <1>3, <1>4, <1>5, <2>1 DEF Whole
  <2>. QED  BY <2>1, <2>2, <2>3
<1>7. ASSUME NEW d \in Clients PROVE EchoOf(d)'
  <2>1. CASE d = c
    BY <1>3, <1>6, <2>1 DEF EchoOf
  <2>2. CASE d # c
    <3>1. UNCHANGED <<message[d], outq[d], inq[d], net[d], str_len[d], conn[d]>>
      BY <1>1, <1>2, <1>3, <2>2 DEF NetTypes
    <3>2. Held(d)' = Held(d)
      BY <1>3, HeldSame
    <3>. QED  BY <3>1, <3>2, WholeSame DEF EchoInv, EchoOf
  <2>. QED  BY <2>1, <2>2
<1>. QED  BY <1>7 DEF EchoInv, EchoOf

\* The other steps of the clients and of the network move a part of a line
\* or end a connection.
LEMMA EchoClient ==
    ASSUME EventsInv, EchoInv, NEW c \in Clients,
           Connect(c) \/ ReadReply(c) \/ Quit(c) \/ Killed(c) \/ Arrive(c)
    PROVE  EchoInv'
<1>1. NetTypes /\ LoopTypes /\ FdsExact /\ BatchExact
  BY DEF EventsInv
<1>2. UNCHANGED <<batch, buf, fdOf, str_len>>
  BY DEF Connect, ReadReply, Quit, Killed, Arrive, server, clients
<1>3. \A d \in Clients : Held(d)' = Held(d)
  BY <1>2, HeldSame
<1>4. \A d \in Clients : d # c =>
        UNCHANGED <<message[d], outq[d], inq[d], net[d], str_len[d], conn[d]>>
  BY <1>1 DEF Connect, ReadReply, Quit, Killed, Arrive, clients, NetTypes, LoopTypes
<1>5. conn'[c] = "open" => Whole(c)' = Line(str_len'[c])
  <2>1. CASE Connect(c)
    <3>1. conn[c] = "idle" /\ UNCHANGED <<message, outq, inq, net, str_len>>
      BY <2>1 DEF Connect, clients
    <3>2. message[c] = <<>> /\ outq[c] = <<>> /\ inq[c] = <<>> /\ net[c] = <<>> /\ str_len[c] = 0
      BY <3>1 DEF EchoInv, EchoOf
    <3>3. Held(c) = <<>>
      <4>1. fdOf[c] = NoFd
        BY <1>1, <3>1 DEF FdsExact
      <4>2. buf # <<>> => Head(batch) # NoFd
        BY <1>1, HeadEvent DEF BatchExact, Sources
      <4>. QED  BY <4>1, <4>2 DEF Held
    <3>4. Whole(c)' = <<>> \o <<>> \o <<>> \o <<>> \o <<>>
      BY <1>3, <3>1, <3>2, <3>3 DEF Whole
    <3>. QED  BY <3>1, <3>2, <3>4 DEF Line
  <2>2. CASE ReadReply(c)
    <3>1. message'[c] = message[c] \o outq[c] /\ outq'[c] = <<>> /\ UNCHANGED <<inq, net, conn>>
      BY <1>1, <2>2 DEF ReadReply, NetTypes
    <3>2. message[c] \o outq[c] \in Seq(1..MaxLine)
      BY <1>1, WholeTypes, ConcatProperties
    <3>3. message'[c] \o outq'[c] = message[c] \o outq[c]
      BY <3>1, <3>2, ConcatEmptySeq
    <3>4. Whole(c)' = Whole(c)
      BY <1>3, <3>1, <3>3 DEF Whole
    <3>. QED  BY <1>2, <3>1, <3>4, EchoOthers
  <2>3. CASE Quit(c) \/ Killed(c)
    BY <1>1, <2>3 DEF Quit, Killed, LoopTypes
  <2>4. CASE Arrive(c)
    <3>1. PICK n \in 1..Len(net[c]) : /\ inq'[c] = inq[c] \o SubSeq(net[c], 1, n)
                                      /\ net'[c] = SubSeq(net[c], n + 1, Len(net[c]))
      BY <1>1, <2>4 DEF Arrive, NetTypes
    <3>2. UNCHANGED <<message, outq, conn>>
      BY <2>4 DEF Arrive, clients
    <3> DEFINE x == message[c] \o outq[c] \o Held(c)
               n1 == SubSeq(net[c], 1, n)
               n2 == SubSeq(net[c], n + 1, Len(net[c]))
    <3>3. x \in Seq(1..MaxLine)
      BY <1>1, WholeTypes, ConcatProperties
    <3>4. n1 \in Seq(1..MaxLine) /\ n2 \in Seq(1..MaxLine) /\ n1 \o n2 = net[c]
      BY <1>1, WholeTypes, CutParts
    <3>. HIDE DEF n1, n2
    <3>. HIDE DEF x
    <3>5. (x \o (inq[c] \o n1)) \o n2 = (x \o inq[c]) \o net[c]
      <4>1. inq[c] \in Seq(1..MaxLine)
        BY <1>1, WholeTypes
      <4>2. x \in Text /\ inq[c] \in Text /\ n1 \in Text /\ n2 \in Text
        BY <3>3, <3>4, <4>1 DEF Text
      <4>3. Moves(x, inq[c], n1, n2)
        BY <4>2, MoveText, Zenon
      <4>. QED  BY <3>4, <4>3, Zenon DEF Moves
    <3>6. Whole(c)' = Whole(c)
      BY <1>3, <3>1, <3>2, <3>5 DEF Whole, x, n1, n2
    <3>. QED  BY <1>2, <3>2, <3>6, EchoOthers
  <2>. QED  BY <2>1, <2>2, <2>3, <2>4
<1>6. conn'[c] # "idle"
  <2>1. Arrive(c) => conn[c] # "idle"
    BY <1>1 DEF Arrive, EchoInv, EchoOf
  <2>. QED  BY <1>1, <2>1 DEF Connect, ReadReply, Quit, Killed, Arrive, Waiting, LoopTypes
<1>7. ASSUME NEW d \in Clients PROVE EchoOf(d)'
  <2>1. CASE d = c
    BY <1>5, <1>6, <2>1 DEF EchoOf
  <2>2. CASE d # c
    BY <1>3, <1>4, <2>2, WholeSame DEF EchoInv, EchoOf
  <2>. QED  BY <2>1, <2>2
<1>. QED  BY <1>7 DEF EchoInv, EchoOf

\* The steps of the loop that neither read data nor write.
LEMMA EchoQuiet ==
    ASSUME EventsInv, EchoInv,
           \/ EpollWait \/ Accept \/ AcceptError
           \/ \E c \in Clients : ReadEof(c) \/ ReadReset(c) \/ Drained(c)
    PROVE  EchoInv'
<1>1. NetTypes /\ LoopTypes /\ BatchExact
  BY DEF EventsInv
<1>2. buf = <<>> /\ buf' = buf /\ UNCHANGED <<message, outq, inq, net, str_len>>
  BY <1>1 DEF BatchExact, EpollWait, Accept, AcceptError, ReadEof, ReadReset, Drained, Serving,
              kernel, clients
<1>3. \A d \in Clients : conn'[d] = conn[d] \/ (conn[d] = "rst" /\ conn'[d] = "dead")
  BY <1>1 DEF EpollWait, Accept, AcceptError, ReadEof, ReadReset, Drained, kernel, LoopTypes
<1>4. ASSUME NEW d \in Clients PROVE EchoOf(d)'
  <2>1. Whole(d)' = Whole(d)
    BY <1>2, HeldSame, WholeSame
  <2>. QED  BY <1>2, <1>3, <2>1 DEF EchoInv, EchoOf
<1>. QED  BY <1>4 DEF EchoInv, EchoOf

\* Of the connections, the loop holds an echo only for the one it serves.
LEMMA HeldByOne ==
    ASSUME EventsInv, batch # <<>>, NEW c \in Clients, Head(batch) = fdOf[c]
    PROVE  Held(c) = buf /\ \A d \in Clients : d # c => Held(d) = <<>> /\ fdOf[d] # Head(batch)
<1>1. fdOf[c] # NoFd
  BY ServedEvent
<1>2. \A d \in Clients : d # c => fdOf[d] # Head(batch)
  BY <1>1 DEF EventsInv, FdsExact
<1>. QED  BY <1>2 DEF Held

\* read takes from what is unread what the loop holds then.
LEMMA EchoReadData ==
    ASSUME EventsInv, EchoInv, NEW c \in Clients, ReadData(c)
    PROVE  EchoInv'
<1>1. NetTypes /\ LoopTypes /\ FdsExact /\ BatchExact /\ EventsOpen
  BY DEF EventsInv
<1>2. /\ buf = <<>> /\ inq[c] # <<>> /\ batch # <<>> /\ Head(batch) = fdOf[c]
      /\ buf' = SubSeq(inq[c], 1, ReadLen(c))
      /\ inq'[c] = SubSeq(inq[c], ReadLen(c) + 1, Len(inq[c]))
      /\ \A d \in Clients : d # c => inq'[d] = inq[d]
      /\ UNCHANGED <<batch, fdOf, conn, net, outq, message, str_len>>
  BY <1>1 DEF ReadData, Serving, NetTypes, clients
<1>3. /\ buf' \in Text /\ inq'[c] \in Text /\ buf' \o inq'[c] = inq[c]
  <2>1. inq[c] \in Seq(1..MaxLine)
    BY <1>1 DEF NetTypes
  <2>2. LET n == ReadLen(c)
        IN  /\ SubSeq(inq[c], 1, n) \in Seq(1..MaxLine)
            /\ SubSeq(inq[c], n + 1, Len(inq[c])) \in Seq(1..MaxLine)
            /\ SubSeq(inq[c], 1, n) \o SubSeq(inq[c], n + 1, Len(inq[c])) = inq[c]
    BY <1>2, <2>1, ReadParts DEF ReadLen
  <2>. QED  BY <1>2, <2>2, Zenon DEF Text
<1>4. \A d \in Clients : d # c => Held(d)' = Held(d)
  BY <1>1, <1>2, HeldByOne DEF Held
<1>5. Held(c) = <<>> /\ Held(c)' = buf'
  BY <1>2 DEF Held
<1>6. Whole(c)' = Whole(c)
  <2>. DEFINE x == message[c] \o outq[c]
  <2>1. x \in Text
    BY <1>1, WholeTypes, ConcatProperties DEF Text
  <2>2. Joins(x, buf', inq'[c])
    BY <1>3, <2>1, JoinText, Zenon
  <2>3. (x \o <<>>) \o inq[c] = (x \o buf') \o inq'[c]
    BY <1>3, <2>2, Zenon DEF Joins
  <2>4. Whole(c) = ((x \o <<>>) \o inq[c]) \o net[c]
    BY <1>5, Zenon DEF Whole
  <2>5. Whole(c)' = ((x \o buf') \o inq'[c]) \o net[c]
    BY <1>2, <1>5 DEF Whole
  <2>. HIDE DEF x
  <2>. QED  BY <2>3, <2>4, <2>5, Zenon
<1>7. ASSUME NEW d \in Clients PROVE EchoOf(d)'
  <2>1. Whole(d)' = Whole(d)
    BY <1>2, <1>4, <1>6, WholeSame
  <2>2. conn[c] # "idle"
    BY <1>2 DEF EchoInv, EchoOf
  <2>. QED  BY <1>2, <2>1, <2>2 DEF EchoInv, EchoOf
<1>. QED  BY <1>7 DEF EchoInv, EchoOf

\* A line is no longer than the room the client has for it, so a write that
\* need not be complete is complete all the same.
LEMMA TakenWhole ==
    ASSUME EventsInv, EchoInv, NEW c \in Clients, conn[c] = "open", Held(c) = buf
    PROVE  Taken(c) = Len(buf)
<1>1. NetTypes /\ LoopTypes
  BY DEF EventsInv
<1>2. Whole(c) = Line(str_len[c]) /\ str_len[c] \in 0..MaxLine
  BY <1>1 DEF EchoInv, EchoOf, NetTypes
<1>3. Len(Whole(c)) = str_len[c]
  BY <1>2 DEF Line
<1>4. /\ Len(message[c]) \in Nat /\ Len(outq[c]) \in Nat /\ Len(buf) \in Nat
      /\ Len(inq[c]) \in Nat /\ Len(net[c]) \in Nat
  <2>1. \A s \in Seq(1..MaxLine) : Len(s) \in Nat
    OBVIOUS
  <2>. QED  BY <1>1, <2>1, WholeTypes
<1>5. str_len[c] = Len(message[c]) + Len(outq[c]) + Len(buf) + Len(inq[c]) + Len(net[c])
  BY <1>1, <1>3, WholeTypes
<1>6. Len(buf) <= SockBuf - Len(outq[c])
  <2>1. \A l, m, o, b, i, n \in Nat :
          l <= SockBuf /\ l = m + o + b + i + n => b <= SockBuf - o
    OBVIOUS
  <2>2. str_len[c] \in Nat /\ str_len[c] <= SockBuf
    BY <1>2
  <2>. QED  BY <1>4, <1>5, <2>1, <2>2, Zenon
<1>7. Min({Len(buf), SockBuf - Len(outq[c])}) = Len(buf)
  <2>1. Len(buf) \in Int /\ SockBuf - Len(outq[c]) \in Int
    BY <1>4
  <2>. QED  BY <1>6, <2>1, MinOfTwo
<1>. QED  BY <1>7 DEF Taken

\* write puts what the loop holds behind what is on its way back.
LEMMA EchoWriteEcho ==
    ASSUME EventsInv, EchoInv, NEW c \in Clients, WriteEcho(c)
    PROVE  EchoInv'
<1>1. NetTypes /\ LoopTypes /\ FdsExact /\ BatchExact /\ EventsOpen
  BY DEF EventsInv
<1>2. /\ batch # <<>> /\ Head(batch) = fdOf[c] /\ buf' = <<>>
      /\ UNCHANGED <<fdOf, net, inq, message, str_len>>
  BY <1>1 DEF WriteEcho, BatchExact, clients
<1>3. \A d \in Clients : Held(d)' = <<>>
  BY <1>2 DEF Held
<1>4. Held(c) = buf /\ \A d \in Clients : d # c => Held(d)' = Held(d)
  BY <1>1, <1>2, <1>3, HeldByOne
<1>5. \A d \in Clients : d # c => conn'[d] = conn[d] /\ outq'[d] = outq[d]
  BY <1>1 DEF WriteEcho, NetTypes, LoopTypes
<1>6. EchoOf(c)'
  <2>1. CASE conn[c] = "open"
    <3>1. UNCHANGED conn /\ outq' = [outq EXCEPT ![c] = @ \o SubSeq(buf, 1, Taken(c))]
      BY <2>1 DEF WriteEcho
    <3>2. SubSeq(buf, 1, Taken(c)) = buf
      <4>1. Taken(c) = Len(buf) /\ buf \in Seq(1..MaxLine)
        BY <1>1, <1>4, <2>1, TakenWhole DEF LoopTypes
      <4>. QED  BY <4>1, SubSeqFull
    <3>3. outq'[c] = outq[c] \o buf
      BY <1>1, <3>1, <3>2 DEF NetTypes
    <3>4. Whole(c)' = Whole(c)
      <4>1. message[c] \in Text /\ outq[c] \in Text /\ buf \in Text /\ inq[c] \in Text
        BY <1>1, WholeTypes DEF LoopTypes, Text
      <4>2. Puts(message[c], outq[c], buf)
        BY <4>1, PutText, Zenon
      <4>3. Whole(c) = ((message[c] \o outq[c]) \o buf) \o inq[c] \o net[c]
        BY <1>4 DEF Whole
      <4>4. Whole(c)' = ((message[c] \o (outq[c] \o buf)) \o <<>>) \o inq[c] \o net[c]
        BY <1>2, <1>3, <3>3 DEF Whole
      <4>. QED  BY <4>2, <4>3, <4>4, Zenon DEF Puts
    <3>. QED  BY <1>2, <2>1, <3>1, <3>4 DEF EchoInv, EchoOf
  <2>2. CASE conn[c] # "open"
    <3>1. conn'[c] # "open" /\ conn'[c] # "idle"
      BY <1>1, <2>2 DEF WriteEcho, LoopTypes
    <3>. QED  BY <3>1 DEF EchoOf
  <2>. QED  BY <2>1, <2>2
<1>7. ASSUME NEW d \in Clients, d # c PROVE EchoOf(d)'
  <2>1. Whole(d)' = Whole(d)
    BY <1>2, <1>4, <1>5, <1>7, WholeSame
  <2>. QED  BY <1>2, <1>5, <1>7, <2>1 DEF EchoInv, EchoOf
<1>. QED  BY <1>6, <1>7 DEF EchoInv, EchoOf

\* At the start there are no lines.
LEMMA EchoInit ==
    ASSUME Init
    PROVE  EchoInv
  BY DEF Init, EchoInv, EchoOf

\* Every step keeps every line whole.
LEMMA EchoStep ==
    ASSUME EventsInv, EchoInv, [Next]_vars
    PROVE  EchoInv'
<1>1. CASE UNCHANGED vars
  <2>1. UNCHANGED <<buf, batch, fdOf, conn, message, outq, inq, net, str_len>>
    BY <1>1 DEF vars, server, kernel, clients
  <2>2. ASSUME NEW d \in Clients PROVE EchoOf(d)'
    <3>1. Whole(d)' = Whole(d)
      BY <2>1, HeldSame, WholeSame
    <3>. QED  BY <2>1, <3>1 DEF EchoInv, EchoOf
  <2>. QED  BY <2>2 DEF EchoInv, EchoOf
<1>2. CASE Server
  BY <1>2, EchoQuiet, EchoReadData, EchoWriteEcho DEF Server, Serve
<1>3. CASE \E c \in Clients : Client(c) \/ Arrive(c)
  BY <1>3, EchoWriteLine, EchoClient DEF Client
<1>. QED  BY <1>1, <1>2, <1>3 DEF Next

\* A line comes back whole and in order: whatever arrives in how many parts,
\* whichever events come in between, and though the edge-triggered program
\* does not look at how much a write took.
THEOREM EchoIsIntact == Spec => []EchoIntact
<1>1. EchoInv => EchoIntact
  BY DEF EchoInv, EchoOf, EchoIntact, Whole, Line
<1>2. Init => EventsInv /\ EchoInv
  BY EventsInit, EchoInit
<1>3. (EventsInv /\ EchoInv) /\ [Next]_vars => (EventsInv /\ EchoInv)'
  BY EventsStep, EchoStep
<1>. QED  BY <1>1, <1>2, <1>3, PTL DEF Spec
=============================================================================
