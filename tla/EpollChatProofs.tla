---------------------------- MODULE EpollChatProofs ----------------------------
(***************************************************************************)
(* Proofs about the epoll chat server, for any number of clients and       *)
(* descriptors and any sizes: the loop reaches every client, to read and   *)
(* to write.                                                               *)
(***************************************************************************)
EXTENDS EpollChat, ListProofs, SequenceTheorems, FiniteSetTheorems

\* The types of what the network and the clients hold.
NetTypes ==
    /\ inq \in [Clients -> Seq(Units)] /\ outq \in [Clients -> Seq(Units)]
    /\ got \in [Clients -> Seq(Units)] /\ sent \in [Clients -> 0..MaxSent]

\* The types of what the loop and the kernel hold.
LoopTypes ==
    /\ up \in BOOLEAN /\ batch \in Seq(Sources)
    /\ ready \in Seq(Sources) /\ IsInjective(ready)
    /\ buf \in Seq(Units) /\ j \in Nat
    /\ backlog \in Seq(Clients) /\ fdOf \in [Clients -> FDs \cup {NoFd}]
    /\ conn \in [Clients -> {"idle", "open", "fin", "rst", "dead"}]

\* The types of the array.
ArrayTypes == clnt_cnt \in 0..MAX_CLNT_SIZE /\ clnt_sock_arr \in [Slots -> FDs \cup {NoFd}]

\* A descriptor is one connection's.  A connection has none before accept,
\* and is at most once in the listen queue.
FdsExact ==
    /\ \A c, d \in Clients : fdOf[c] = fdOf[d] /\ fdOf[c] # NoFd => c = d
    /\ \A c \in Clients : conn[c] = "idle" \/ c \in ToSet(backlog) => fdOf[c] = NoFd
    /\ \A c \in Clients : c \in ToSet(backlog) => conn[c] # "idle"
    /\ IsInjective(backlog)

\* A batch has a descriptor once, serv_sock is in the kernel's list while it
\* is in the batch, and a chunk belongs to an event.
BatchExact ==
    /\ IsInjective(batch)
    /\ ServFd \in ToSet(batch) => ServFd \in ToSet(ready)
    /\ buf # <<>> => batch # <<>>

\* The array has no descriptor twice, and has those of the connections.
SlotsExact ==
    /\ \A k, l \in 0..(clnt_cnt - 1) : clnt_sock_arr[k] = clnt_sock_arr[l] => k = l
    /\ \A k \in 0..(clnt_cnt - 1) : \E c \in Registered : clnt_sock_arr[k] = fdOf[c]
    /\ \A c \in Registered : \E k \in 0..(clnt_cnt - 1) : clnt_sock_arr[k] = fdOf[c]
    /\ IsFiniteSet(Registered) /\ Cardinality(Registered) = clnt_cnt

\* The loop reaches every client because every list is without repetition and
\* the descriptors tell the connections apart.
LoopInv == NetTypes /\ LoopTypes /\ ArrayTypes /\ FdsExact /\ BatchExact /\ SlotsExact /\ NoLostWakeup

USE FDsAssumption, SizesAssumption

\* TypeOK in three parts, of an invariant that says more.
LEMMA TypeParts == NetTypes /\ LoopTypes /\ ArrayTypes => TypeOK
  BY Zenon DEF TypeOK, NetTypes, LoopTypes, ArrayTypes

\* News on a connection puts its descriptor, if it has one, into the list.
LEMMA WokenByProperties ==
    ASSUME LoopTypes, NEW c \in Clients
    PROVE  /\ WokenBy(c) \in Seq(Sources) /\ IsInjective(WokenBy(c))
           /\ ToSet(ready) \subseteq ToSet(WokenBy(c))
           /\ fdOf[c] # NoFd => fdOf[c] \in ToSet(WokenBy(c))
<1>1. CASE fdOf[c] = NoFd
  BY <1>1 DEF WokenBy, LoopTypes
<1>2. CASE fdOf[c] # NoFd
  <2>1. fdOf[c] \in Sources /\ ready \in Seq(Sources) /\ IsInjective(ready)
    BY <1>2 DEF LoopTypes, Sources
  <2>. QED  BY <1>2, <2>1, WokenProperties DEF WokenBy
<1>. QED  BY <1>1, <1>2

\* A read takes a part of what is unread, not nothing, and leaves the rest.
LEMMA ReadParts ==
    ASSUME NetTypes, NEW c \in Clients, inq[c] # <<>>
    PROVE  LET n == Min({BUF_SIZE, Len(inq[c])})
           IN  /\ n \in 1..Len(inq[c])
               /\ SubSeq(inq[c], 1, n) \in Seq(Units) /\ Len(SubSeq(inq[c], 1, n)) = n
               /\ SubSeq(inq[c], 1, n) # <<>>
               /\ Unread(inq[c], n) \in Seq(Units)
<1> DEFINE q == inq[c]
           n == Min({BUF_SIZE, Len(q)})
<1>1. q \in Seq(Units)
  BY DEF NetTypes
<1>2. n \in 1..Len(q)
  <2>1. Len(q) \in Nat \ {0} /\ BUF_SIZE \in Nat \ {0}
    BY <1>1
  <2>. QED  BY <2>1, MinOfTwo
<1>. HIDE DEF n
<1>3. /\ SubSeq(q, 1, n) \in Seq(Units) /\ Len(SubSeq(q, 1, n)) = n
      /\ SubSeq(q, n + 1, Len(q)) \in Seq(Units)
  BY <1>1, <1>2, SplitMembers
<1>4. SubSeq(q, 1, n) # <<>>
  BY <1>1, <1>2, <1>3
<1>. QED  BY <1>2, <1>3, <1>4 DEF n, Unread

-----------------------------------------------------------------------------
(* Types.                                                                  *)

\* The steps of the clients.
LEMMA TypeClient ==
    ASSUME NetTypes, LoopTypes, ArrayTypes, NEW c \in Clients, Client(c)
    PROVE  NetTypes' /\ LoopTypes' /\ ArrayTypes'
<1>0. ArrayTypes'
  BY DEF Client, Connect, Say, Quit, Display, server, ArrayTypes
<1>1. CASE Connect(c)
  <2>1. backlog' \in Seq(Clients)
    BY <1>1 DEF Connect, LoopTypes
  <2>2. ready' \in Seq(Sources) /\ IsInjective(ready')
    <3>1. ServFd \in Sources /\ ready \in Seq(Sources) /\ IsInjective(ready)
      BY DEF LoopTypes, Sources
    <3>. QED  BY <1>1, <3>1, WokenProperties DEF Connect
  <2>3. LoopTypes'
    BY <1>1, <2>1, <2>2 DEF Connect, LoopTypes, server
  <2>. QED  BY <1>0, <1>1, <2>3 DEF Connect, NetTypes, clients
<1>2. CASE Say(c)
  <2>1. inq[c] \in Seq(Units) /\ <<c, sent[c] + 1>> \in Units /\ sent[c] + 1 \in 0..MaxSent
    BY <1>2 DEF Say, NetTypes, Units
  <2>2. Append(inq[c], <<c, sent[c] + 1>>) \in Seq(Units)
    BY <2>1
  <2>3. inq' \in [Clients -> Seq(Units)] /\ sent' \in [Clients -> 0..MaxSent]
    BY <1>2, <2>1, <2>2 DEF Say, NetTypes
  <2>4. NetTypes'
    BY <1>2, <2>3 DEF Say, NetTypes
  <2>. QED  BY <1>0, <1>2, <2>4, WokenByProperties DEF Say, LoopTypes, server
<1>3. CASE Display(c)
  <2>1. got[c] \o outq[c] \in Seq(Units)
    BY ConcatProperties DEF NetTypes
  <2>2. NetTypes'
    BY <1>3, <2>1 DEF Display, NetTypes
  <2>. QED  BY <1>0, <1>3, <2>2 DEF Display, LoopTypes, server
<1>4. CASE Quit(c)
  <2>1. conn' \in [Clients -> {"idle", "open", "fin", "rst", "dead"}]
    BY <1>4 DEF Quit, LoopTypes
  <2>2. LoopTypes'
    BY <1>4, <2>1, WokenByProperties DEF Quit, LoopTypes, server
  <2>3. outq' \in [Clients -> Seq(Units)]
    BY <1>4 DEF Quit, NetTypes
  <2>. QED  BY <1>0, <1>4, <2>2, <2>3 DEF Quit, NetTypes, clients
<1>. QED  BY <1>1, <1>2, <1>3, <1>4 DEF Client

\* What epoll_wait reports and leaves, of the list as it is.
LEMMA WaitParts ==
    ASSUME LoopTypes, EpollWait
    PROVE  /\ batch' \in Seq(Sources) /\ IsInjective(batch')
           /\ ready' \in Seq(Sources) /\ IsInjective(ready')
           /\ ToSet(batch') \subseteq ReadableFds
           /\ ToSet(ready) \cap ReadableFds \subseteq ToSet(batch') \cup ToSet(ready')
           /\ ServFd \in ToSet(batch') => ServFd \in ToSet(ready')
<1> DEFINE live == Filter(ready, ReadableFds)
           level == {fd \in Sources : Level(fd)}
<1>1. batch' = Reported(live, EPOLL_SIZE) /\ ready' = Requeued(live, level, EPOLL_SIZE)
  BY DEF EpollWait
<1>2. ready \in Seq(Sources) /\ IsInjective(ready) /\ EPOLL_SIZE \in Nat
  BY DEF LoopTypes
<1>3. live \in Seq(Sources) /\ ToSet(live) = ToSet(ready) \cap ReadableFds /\ IsInjective(live)
  <2>1. live \in Seq(Sources \cap ReadableFds)
    BY <1>2, FilterProperties
  <2>2. live \in Seq(Sources)
    BY <2>1
  <2>. QED  BY <1>2, <2>2, FilterProperties
<1>. HIDE DEF live, level
<1>4. /\ batch' \in Seq(Sources) /\ IsInjective(batch')
      /\ ready' \in Seq(Sources) /\ IsInjective(ready')
      /\ ToSet(batch') \subseteq ToSet(live)
      /\ ToSet(live) \subseteq ToSet(batch') \cup ToSet(ready')
      /\ ToSet(batch') \cap level \subseteq ToSet(ready')
  BY <1>1, <1>2, <1>3, ReportedProperties
<1>5. ToSet(live) \subseteq ReadableFds /\ ReadableFds \subseteq Sources
  BY <1>3 DEF ReadableFds
<1>6. ServFd \in level
  BY DEF level, Level, Sources
<1>. QED  BY <1>3, <1>4, <1>5, <1>6

\* What accept does: a descriptor that no connection has, for the connection
\* at the head of the listen queue, goes behind the others.
LEMMA AcceptParts ==
    ASSUME LoopTypes, FdsExact, Accept
    PROVE  \E fd \in FDs, a \in Clients :
              /\ \A c \in Clients : fdOf[c] # fd
              /\ fdOf[a] = NoFd /\ a \notin ToSet(backlog')
              /\ ToSet(backlog) = ToSet(backlog') \cup {a} /\ IsInjective(backlog')
              /\ \A c \in Clients : fdOf'[c] = IF c = a THEN fd ELSE fdOf[c]
              /\ clnt_sock_arr' = [clnt_sock_arr EXCEPT ![clnt_cnt] = fd]
              /\ ready' = IF HasNews(a) THEN Woken(ready, fd) ELSE ready
<1>1. PICK a : a = Head(backlog)
  OBVIOUS
<1>2. PICK fd \in FDs : /\ \A c \in Clients : fdOf[c] # fd
                        /\ fdOf' = [fdOf EXCEPT ![a] = fd]
                        /\ clnt_sock_arr' = [clnt_sock_arr EXCEPT ![clnt_cnt] = fd]
                        /\ ready' = IF HasNews(a) THEN Woken(ready, fd) ELSE ready
  BY <1>1 DEF Accept, FreeFds
<1>3. backlog # <<>> /\ backlog' = Tail(backlog)
  BY DEF Accept
<1>4. /\ a \in Clients /\ ToSet(backlog) = ToSet(backlog') \cup {a}
      /\ IsInjective(backlog') /\ a \notin ToSet(backlog')
  <2>1. backlog \in Seq(Clients) /\ IsInjective(backlog)
    BY DEF LoopTypes, FdsExact
  <2>. QED  BY <1>1, <1>3, <2>1, TailMembers
<1>5. fdOf[a] = NoFd
  BY <1>4 DEF FdsExact
<1>6. \A c \in Clients : fdOf'[c] = IF c = a THEN fd ELSE fdOf[c]
  BY <1>2, <1>4 DEF LoopTypes
<1>. QED  BY <1>2, <1>4, <1>5, <1>6

\* The array has room for a connection that is accepted: the others that have
\* descriptors are fewer than the clients.
LEMMA RoomForOne ==
    ASSUME LoopInv, Accept
    PROVE  clnt_cnt < MAX_CLNT_SIZE
<1>1. LoopTypes /\ FdsExact /\ ArrayTypes /\ SlotsExact
  BY DEF LoopInv
<1>2. PICK a \in Clients : fdOf[a] = NoFd
  BY <1>1, AcceptParts, Zenon
<1>3. Registered \subseteq Clients \ {a}
  BY <1>2 DEF Registered
<1>4. /\ IsFiniteSet(Clients \ {a}) /\ Cardinality(Clients \ {a}) = Cardinality(Clients) - 1
      /\ Cardinality(Clients) \in Nat
  BY CapacityAssumption, FS_RemoveElement, FS_CardinalityType
<1>5. clnt_cnt \in Nat /\ clnt_cnt <= Cardinality(Clients \ {a})
  <2>1. Cardinality(Registered) = clnt_cnt
    BY <1>1 DEF SlotsExact
  <2>. QED  BY <1>3, <1>4, <2>1, FS_Subset, FS_CardinalityType
<1>. QED  BY <1>4, <1>5, CapacityAssumption

\* The steps of the loop that belong to no client.
LEMMA TypeLoop ==
    ASSUME LoopInv, EpollWait \/ Accept \/ AcceptError \/ BroadcastDone
    PROVE  NetTypes' /\ LoopTypes' /\ ArrayTypes'
<1>0. NetTypes /\ LoopTypes /\ ArrayTypes
  BY DEF LoopInv
<1>1. CASE EpollWait
  BY <1>0, <1>1, WaitParts DEF EpollWait, NetTypes, LoopTypes, ArrayTypes, clients
<1>2. CASE Accept
  <2>1. batch # <<>> /\ backlog # <<>> /\ clnt_cnt < MAX_CLNT_SIZE /\ clnt_cnt' = clnt_cnt + 1
    BY <1>2, RoomForOne DEF Accept, Serving
  <2>2. PICK fd \in FDs : /\ fdOf' = [fdOf EXCEPT ![Head(backlog)] = fd]
                          /\ clnt_sock_arr' = [clnt_sock_arr EXCEPT ![clnt_cnt] = fd]
                          /\ ready' = IF HasNews(Head(backlog)) THEN Woken(ready, fd) ELSE ready
    BY <1>2 DEF Accept, FreeFds
  <2>3. ready' \in Seq(Sources) /\ IsInjective(ready')
    <3>1. fd \in Sources /\ ready \in Seq(Sources) /\ IsInjective(ready)
      BY <1>0 DEF LoopTypes, Sources
    <3>. QED  BY <2>2, <3>1, WokenProperties
  <2>4. batch' \in Seq(Sources)
    <3>1. batch \in Seq(Sources) /\ batch' = Tail(batch)
      BY <1>0, <1>2 DEF Accept, LoopTypes
    <3>. QED  BY <2>1, <3>1
  <2>5. backlog' \in Seq(Clients) /\ fdOf' \in [Clients -> FDs \cup {NoFd}]
    <3>1. backlog \in Seq(Clients) /\ backlog' = Tail(backlog) /\ fdOf \in [Clients -> FDs \cup {NoFd}]
      BY <1>0, <1>2 DEF Accept, LoopTypes
    <3>. QED  BY <2>1, <2>2, <3>1
  <2>6. ArrayTypes'
    <3>1. MAX_CLNT_SIZE \in Nat /\ clnt_cnt \in 0..MAX_CLNT_SIZE
      BY <1>0 DEF ArrayTypes
    <3>2. clnt_cnt' \in 0..MAX_CLNT_SIZE
      BY <2>1, <3>1
    <3>. QED  BY <1>0, <2>2, <3>2 DEF ArrayTypes
  <2>. QED  BY <1>0, <1>2, <2>3, <2>4, <2>5, <2>6 DEF Accept, NetTypes, LoopTypes, clients
<1>3. CASE AcceptError
  BY <1>0, <1>3 DEF AcceptError, NetTypes, LoopTypes, ArrayTypes, network, clients
<1>4. CASE BroadcastDone
  BY <1>0, <1>4 DEF BroadcastDone, SameEvent, NetTypes, LoopTypes, ArrayTypes, network, clients
<1>. QED  BY <1>1, <1>2, <1>3, <1>4

\* A batch that goes on with the next event.
LEMMA TypeNextEvent ==
    ASSUME LoopTypes, batch # <<>>
    PROVE  Tail(batch) \in Seq(Sources)
<1>1. batch \in Seq(Sources)
  BY DEF LoopTypes
<1>. QED  BY <1>1

\* The event at the head of a batch and the others.
LEMMA HeadEvent ==
    ASSUME LoopTypes, BatchExact, batch # <<>>
    PROVE  /\ ToSet(batch) = ToSet(Tail(batch)) \cup {Head(batch)}
           /\ IsInjective(Tail(batch)) /\ Head(batch) \notin ToSet(Tail(batch))
           /\ Head(batch) \in Sources /\ ToSet(batch) \subseteq Sources
<1>1. batch \in Seq(Sources) /\ IsInjective(batch)
  BY DEF LoopTypes, BatchExact
<1>2. ToSet(batch) \subseteq Sources
  BY <1>1, ToSetByIndex
<1>. QED  BY <1>1, <1>2, TailMembers

\* The event that is served for a connection is the connection's descriptor.
LEMMA ServedEvent ==
    ASSUME LoopInv, NEW c \in Clients, batch # <<>>, Head(batch) = fdOf[c]
    PROVE  fdOf[c] \in FDs /\ fdOf[c] # ServFd /\ fdOf[c] # NoFd
<1>1. fdOf[c] \in Sources /\ fdOf[c] \in FDs \cup {NoFd}
  BY HeadEvent DEF LoopInv, LoopTypes
<1>. QED  BY <1>1 DEF Sources

\* The array after an entry is taken out.
LEMMA ShiftType ==
    ASSUME ArrayTypes, NEW k
    PROVE  ShiftDown(k) \in [Slots -> FDs \cup {NoFd}]
<1>1. \A i \in Slots : i < clnt_cnt - 1 => i + 1 \in Slots
  BY DEF ArrayTypes, Slots
<1>. QED  BY <1>1 DEF ArrayTypes, ShiftDown

\* A client in the part of the array that is in use has a descriptor.
LEMMA WrittenTo ==
    ASSUME LoopTypes, ArrayTypes, SlotsExact, NEW c \in Clients, WriteTo(c)
    PROVE  fdOf[c] \in FDs /\ j \in 0..(clnt_cnt - 1) /\ clnt_sock_arr[j] = fdOf[c]
<1>1. j < clnt_cnt /\ clnt_sock_arr[j] = fdOf[c]
  BY DEF WriteTo
<1>2. j \in 0..(clnt_cnt - 1)
  BY <1>1 DEF LoopTypes, ArrayTypes
<1>3. PICK d \in Registered : clnt_sock_arr[j] = fdOf[d]
  BY <1>2 DEF SlotsExact
<1>4. fdOf[c] # NoFd
  BY <1>1, <1>3 DEF Registered
<1>. QED  BY <1>1, <1>2, <1>4 DEF LoopTypes

\* What a write puts on its way is a first part of the chunk.
LEMMA TakenPart ==
    ASSUME NetTypes, LoopTypes, NEW c \in Clients
    PROVE  /\ Taken(c) \in Int /\ Taken(c) <= Len(buf)
           /\ SubSeq(buf, 1, Taken(c)) \in Seq(Units)
           /\ Len(SubSeq(buf, 1, Taken(c))) <= Len(buf)
           /\ \A k \in 1..Len(SubSeq(buf, 1, Taken(c))) : SubSeq(buf, 1, Taken(c))[k] = buf[k]
<1>1. buf \in Seq(Units) /\ Len(buf) \in Nat /\ Len(outq[c]) \in Nat
  <2>1. buf \in Seq(Units) /\ outq[c] \in Seq(Units)
    BY DEF NetTypes, LoopTypes
  <2>. QED  BY <2>1
<1>2. Taken(c) \in Int /\ Taken(c) <= Len(buf)
  <2>1. Len(buf) \in Int /\ SockBuf - Len(outq[c]) \in Int
    BY <1>1
  <2>2. Min({Len(buf), SockBuf - Len(outq[c])})
            = IF Len(buf) <= SockBuf - Len(outq[c]) THEN Len(buf) ELSE SockBuf - Len(outq[c])
    BY <2>1, MinOfTwo
  <2>. QED  BY <1>1, <2>1, <2>2 DEF Taken
<1>. QED  BY <1>1, <1>2

\* The steps that serve a client.
LEMMA TypeServe ==
    ASSUME LoopInv, NEW c \in Clients, Serve(c)
    PROVE  NetTypes' /\ LoopTypes' /\ ArrayTypes'
<1>0. NetTypes /\ LoopTypes /\ ArrayTypes /\ SlotsExact
  BY DEF LoopInv
<1>1. CASE ReadData(c)
  <2> DEFINE n == Min({BUF_SIZE, Len(inq[c])})
  <2>1. /\ buf' = SubSeq(inq[c], 1, n) /\ inq' = [inq EXCEPT ![c] = Unread(@, n)]
        /\ inq[c] # <<>> /\ j' = 0
    BY <1>1 DEF ReadData
  <2>2. buf' \in Seq(Units) /\ Unread(inq[c], n) \in Seq(Units)
    BY <1>0, <2>1, ReadParts
  <2>. HIDE DEF n
  <2>3. inq' \in [Clients -> Seq(Units)]
    BY <1>0, <2>1, <2>2 DEF NetTypes
  <2>4. UNCHANGED <<up, batch, clnt_sock_arr, clnt_cnt, ready, backlog, fdOf, conn, outq, got, sent>>
    BY <1>1 DEF ReadData, clients
  <2>5. NetTypes'
    BY <1>0, <2>3, <2>4 DEF NetTypes
  <2>6. j' \in Nat
    BY <2>1
  <2>7. LoopTypes'
    BY <1>0, <2>2, <2>4, <2>6 DEF LoopTypes
  <2>. QED  BY <1>0, <2>4, <2>5, <2>7 DEF ArrayTypes
<1>2. CASE ReadEof(c)
  <2>1. ready' \in Seq(Sources) /\ IsInjective(ready')
    BY <1>0, <1>2, ForgottenProperties DEF ReadEof, LoopTypes
  <2>2. batch' \in Seq(Sources)
    BY <1>0, <1>2, TypeNextEvent DEF ReadEof, Serving
  <2>3. LoopTypes'
    BY <1>0, <1>2, <2>1, <2>2 DEF ReadEof, LoopTypes
  <2>4. NetTypes'
    BY <1>0, <1>2 DEF ReadEof, NetTypes, clients
  <2>5. clnt_cnt' \in 0..MAX_CLNT_SIZE
    <3>1. clnt_cnt # 0
      <4>1. fdOf[c] # NoFd
        BY <1>2, ServedEvent DEF ReadEof, Serving
      <4>2. PICK k \in 0..(clnt_cnt - 1) : clnt_sock_arr[k] = fdOf[c]
        BY <1>0, <4>1 DEF SlotsExact, Registered
      <4>. QED  BY <1>0, <4>2 DEF ArrayTypes
    <3>2. clnt_cnt' = clnt_cnt - 1
      BY <1>2 DEF ReadEof
    <3>. QED  BY <1>0, <3>1, <3>2 DEF ArrayTypes
  <2>6. clnt_sock_arr' \in [Slots -> FDs \cup {NoFd}]
    BY <1>0, <1>2, ShiftType DEF ReadEof
  <2>. QED  BY <2>3, <2>4, <2>5, <2>6 DEF ArrayTypes
<1>3. CASE ReadReset(c)
  BY <1>0, <1>3 DEF ReadReset, NetTypes, LoopTypes, ArrayTypes, server, clients
<1>4. CASE Drained(c)
  <2>1. batch' \in Seq(Sources)
    BY <1>0, <1>4, TypeNextEvent DEF Drained, Serving
  <2>. QED  BY <1>0, <1>4, <2>1 DEF Drained, NetTypes, LoopTypes, ArrayTypes, network, clients
<1>5. CASE WriteTo(c)
  <2>1. outq' \in [Clients -> Seq(Units)]
    <3>1. CASE outq' = [outq EXCEPT ![c] = @ \o SubSeq(buf, 1, Taken(c))]
      <4>1. outq[c] \in Seq(Units) /\ SubSeq(buf, 1, Taken(c)) \in Seq(Units)
        BY <1>0, TakenPart DEF NetTypes
      <4>2. outq[c] \o SubSeq(buf, 1, Taken(c)) \in Seq(Units)
        BY <4>1, ConcatProperties
      <4>. QED  BY <1>0, <3>1, <4>2 DEF NetTypes
    <3>2. CASE UNCHANGED outq
      BY <1>0, <3>2 DEF NetTypes
    <3>. QED  BY <1>5, <3>1, <3>2 DEF WriteTo
  <2>2. ready' \in Seq(Sources) /\ IsInjective(ready')
    <3>1. fdOf[c] \in Sources /\ ready \in Seq(Sources) /\ IsInjective(ready)
      BY <1>0, <1>5, WrittenTo DEF Sources, LoopTypes
    <3>2. Woken(ready, fdOf[c]) \in Seq(Sources) /\ IsInjective(Woken(ready, fdOf[c]))
      BY <3>1, WokenProperties
    <3>. QED  BY <1>5, <3>1, <3>2 DEF WriteTo
  <2>3. up' \in BOOLEAN /\ conn' \in [Clients -> {"idle", "open", "fin", "rst", "dead"}]
    BY <1>0, <1>5 DEF WriteTo, LoopTypes
  <2>4. j' = j + 1 /\ UNCHANGED <<batch, buf, clnt_sock_arr, clnt_cnt, backlog, fdOf, inq, clients>>
    BY <1>5 DEF WriteTo
  <2>5. NetTypes'
    BY <1>0, <2>1, <2>4 DEF NetTypes, clients
  <2>6. LoopTypes'
    BY <1>0, <2>2, <2>3, <2>4 DEF LoopTypes
  <2>. QED  BY <1>0, <2>4, <2>5, <2>6 DEF ArrayTypes
<1>. QED  BY <1>1, <1>2, <1>3, <1>4, <1>5 DEF Serve

-----------------------------------------------------------------------------
(* Descriptors and connections.                                            *)

\* Steps that neither accept nor close: a connection that is made stays made.
LEMMA FdsSame ==
    ASSUME FdsExact, UNCHANGED <<fdOf, backlog>>,
           \A c \in Clients : conn'[c] = "idle" <=> conn[c] = "idle"
    PROVE  FdsExact'
  BY DEF FdsExact

\* Every step keeps descriptors and connections one to one.
LEMMA FdsStep ==
    ASSUME LoopInv, [Next]_vars
    PROVE  FdsExact'
<1>1. FdsExact /\ LoopTypes
  BY DEF LoopInv
<1>2. ASSUME NEW c \in Clients, Connect(c) PROVE FdsExact'
  <2>1. /\ conn[c] = "idle" /\ conn' = [conn EXCEPT ![c] = "open"]
        /\ backlog' = Append(backlog, c) /\ fdOf' = fdOf
    BY <1>2 DEF Connect
  <2>2. c \notin ToSet(backlog) /\ fdOf[c] = NoFd
    BY <1>1, <2>1 DEF FdsExact
  <2>3. ToSet(backlog') = ToSet(backlog) \cup {c} /\ IsInjective(backlog')
    <3>1. backlog \in Seq(Clients) /\ IsInjective(backlog)
      BY <1>1 DEF LoopTypes, FdsExact
    <3>. QED  BY <2>1, <2>2, <3>1, AppendMembers
  <2>4. \A d \in Clients : conn'[d] = "idle" => conn[d] = "idle" /\ d # c
    BY <1>1, <2>1 DEF LoopTypes
  <2>. QED  BY <1>1, <2>1, <2>2, <2>3, <2>4 DEF FdsExact
<1>3. CASE Accept
  <2>1. PICK fd \in FDs, a \in Clients :
              /\ \A c \in Clients : fdOf[c] # fd
              /\ fdOf[a] = NoFd /\ a \notin ToSet(backlog')
              /\ ToSet(backlog) = ToSet(backlog') \cup {a} /\ IsInjective(backlog')
              /\ \A c \in Clients : fdOf'[c] = IF c = a THEN fd ELSE fdOf[c]
    BY <1>1, <1>3, AcceptParts, Zenon
  <2>2. conn' = conn
    BY <1>3 DEF Accept
  <2>. QED  BY <1>1, <2>1, <2>2 DEF FdsExact
<1>4. ASSUME NEW c \in Clients, ReadEof(c) PROVE FdsExact'
  <2>1. fdOf' = [fdOf EXCEPT ![c] = NoFd] /\ UNCHANGED <<conn, backlog>>
    BY <1>4 DEF ReadEof
  <2>2. \A d \in Clients : fdOf'[d] = IF d = c THEN NoFd ELSE fdOf[d]
    BY <1>1, <2>1 DEF LoopTypes
  <2>. QED  BY <1>1, <2>1, <2>2 DEF FdsExact
<1>5. ASSUME NEW c \in Clients, Quit(c) \/ ReadReset(c) \/ WriteTo(c) PROVE FdsExact'
  <2>1. UNCHANGED <<fdOf, backlog>> /\ \A d \in Clients : conn'[d] = "idle" <=> conn[d] = "idle"
    BY <1>1, <1>5 DEF Quit, ReadReset, WriteTo, LoopTypes, clients
  <2>. QED  BY <1>1, <2>1, FdsSame
<1>6. CASE UNCHANGED <<fdOf, backlog, conn>>
  BY <1>1, <1>6, FdsSame
<1>7. ASSUME NEW c \in Clients, Say(c) \/ Display(c) \/ ReadData(c) \/ Drained(c)
      PROVE  UNCHANGED <<fdOf, backlog, conn>>
  BY <1>7 DEF Say, Display, ReadData, Drained, network
<1>8. ASSUME EpollWait \/ AcceptError \/ BroadcastDone \/ UNCHANGED vars
      PROVE UNCHANGED <<fdOf, backlog, conn>>
  BY <1>8 DEF EpollWait, AcceptError, BroadcastDone, network, vars
<1>. QED  BY <1>2, <1>3, <1>4, <1>5, <1>6, <1>7, <1>8 DEF Next, Server, Client, Serve

-----------------------------------------------------------------------------
(* The batch.                                                              *)

\* Steps that leave the batch alone and take nothing out of the kernel's list.
LEMMA BatchSame ==
    ASSUME BatchExact, UNCHANGED batch, ToSet(ready) \subseteq ToSet(ready'),
           buf' = <<>> \/ batch # <<>>
    PROVE  BatchExact'
  BY DEF BatchExact

\* Steps that go on with the next event.
LEMMA BatchNext ==
    ASSUME LoopTypes, BatchExact, batch # <<>>, batch' = Tail(batch),
           ToSet(ready) \ {Head(batch)} \subseteq ToSet(ready'), buf' = <<>>
    PROVE  BatchExact'
<1>1. \A fd \in ToSet(batch') : fd \in ToSet(batch) /\ fd # Head(batch)
  BY HeadEvent
<1>2. IsInjective(batch')
  BY HeadEvent
<1>. QED  BY <1>1, <1>2 DEF BatchExact

\* What the clients do only adds to the kernel's list.
LEMMA ClientWakes ==
    ASSUME LoopTypes, NEW c \in Clients, Client(c)
    PROVE  ToSet(ready) \subseteq ToSet(ready')
<1>1. CASE ready' = ready
  BY <1>1
<1>2. CASE ready' = WokenBy(c)
  BY <1>2, WokenByProperties
<1>3. CASE ready' = Woken(ready, ServFd)
  <2>1. ready \in Seq(Sources) /\ ServFd \in Sources
    BY DEF LoopTypes, Sources
  <2>. QED  BY <1>3, <2>1, WokenProperties
<1>. QED  BY <1>1, <1>2, <1>3 DEF Client, Connect, Say, Quit, Display

\* Every step keeps the batch exact.
LEMMA BatchStep ==
    ASSUME LoopInv, [Next]_vars
    PROVE  BatchExact'
<1>1. BatchExact /\ LoopTypes /\ FdsExact /\ ArrayTypes /\ SlotsExact
  BY DEF LoopInv
<1>2. ASSUME NEW c \in Clients, Client(c) PROVE BatchExact'
  <2>1. UNCHANGED <<batch, buf>>
    BY <1>2 DEF Client, Connect, Say, Quit, Display, server
  <2>. QED  BY <1>1, <1>2, <2>1, ClientWakes, BatchSame DEF BatchExact
<1>3. CASE EpollWait
  <2>1. buf' = buf /\ batch = <<>>
    BY <1>3 DEF EpollWait
  <2>. QED  BY <1>1, <1>3, <2>1, WaitParts DEF BatchExact
<1>4. CASE Accept
  <2>1. batch # <<>> /\ batch' = Tail(batch) /\ buf' = <<>>
    BY <1>4 DEF Accept, Serving
  <2>2. ToSet(ready) \subseteq ToSet(ready')
    <3>1. PICK fd \in FDs, a \in Clients : ready' = IF HasNews(a) THEN Woken(ready, fd) ELSE ready
      BY <1>1, <1>4, AcceptParts, Zenon
    <3>2. fd \in Sources /\ ready \in Seq(Sources)
      BY <1>1 DEF LoopTypes, Sources
    <3>. QED  BY <3>1, <3>2, WokenProperties
  <2>. QED  BY <1>1, <2>1, <2>2, BatchNext
<1>5. CASE AcceptError \/ BroadcastDone \/ UNCHANGED vars
  BY <1>1, <1>5 DEF AcceptError, BroadcastDone, SameEvent, network, vars, server, BatchExact
<1>6. ASSUME NEW c \in Clients, ReadData(c) PROVE BatchExact'
  <2>1. batch # <<>> /\ UNCHANGED <<batch, ready>>
    BY <1>6 DEF ReadData, Serving
  <2>. QED  BY <1>1, <2>1, BatchSame
<1>7. ASSUME NEW c \in Clients, ReadEof(c) PROVE BatchExact'
  <2>1. batch # <<>> /\ batch' = Tail(batch) /\ buf' = <<>> /\ ready' = Forgotten(ready, Head(batch))
    BY <1>7 DEF ReadEof, Serving
  <2>2. ToSet(ready') = ToSet(ready) \ {Head(batch)}
    BY <1>1, <2>1, ForgottenProperties DEF LoopTypes
  <2>. QED  BY <1>1, <2>1, <2>2, BatchNext
<1>8. ASSUME NEW c \in Clients, ReadReset(c) \/ Drained(c) PROVE BatchExact'
  <2>1. batch # <<>> /\ batch' \in {batch, Tail(batch)} /\ buf' = <<>> /\ ready' = ready
    BY <1>8 DEF ReadReset, Drained, Serving, server, network
  <2>. QED  BY <1>1, <2>1, BatchNext, BatchSame
<1>9. ASSUME NEW c \in Clients, WriteTo(c) PROVE BatchExact'
  <2>1. batch # <<>> /\ batch' = batch /\ ready' \in {ready, Woken(ready, fdOf[c])}
    BY <1>1, <1>9 DEF WriteTo, BatchExact
  <2>2. ToSet(ready) \subseteq ToSet(ready')
    <3>1. fdOf[c] \in Sources /\ ready \in Seq(Sources)
      BY <1>1, <1>9, WrittenTo DEF LoopTypes, Sources
    <3>. QED  BY <2>1, <3>1, WokenProperties
  <2>. QED  BY <1>1, <2>1, <2>2, BatchSame
<1>. QED  BY <1>2, <1>3, <1>4, <1>5, <1>6, <1>7, <1>8, <1>9 DEF Next, Server, Serve

-----------------------------------------------------------------------------
(* Wake-ups.                                                               *)

\* Steps after which nothing is readable that was not, and which forget no event.
LEMMA WakeupSame ==
    ASSUME NoLostWakeup, up' => up,
           \A fd \in Sources : Readable(fd)' => Readable(fd) \/ fd \in ToSet(ready'),
           ToSet(ready) \cup ToSet(batch) \subseteq ToSet(ready') \cup ToSet(batch')
    PROVE  NoLostWakeup'
  BY DEF NoLostWakeup

\* Steps that go on with the next event: the one left behind is reported
\* again if it is serv_sock, and has nothing to report otherwise.
LEMMA WakeupNext ==
    ASSUME LoopTypes, BatchExact, NoLostWakeup, up' => up, batch # <<>>, batch' = Tail(batch),
           \A fd \in Sources : Readable(fd)' => Readable(fd) \/ fd \in ToSet(ready'),
           ToSet(ready) \ {Head(batch)} \subseteq ToSet(ready'),
           \A fd \in Sources : fd = Head(batch) /\ Readable(fd)' => fd \in ToSet(ready')
    PROVE  NoLostWakeup'
<1>1. ToSet(batch) = ToSet(batch') \cup {Head(batch)}
  BY HeadEvent
<1>2. ASSUME up', NEW fd \in Sources, Readable(fd)' PROVE fd \in ToSet(ready') \cup ToSet(batch')
  <2>1. CASE fd = Head(batch)
    BY <1>2, <2>1
  <2>2. CASE fd # Head(batch)
    <3>1. Readable(fd) => fd \in ToSet(ready) \cup ToSet(batch)
      BY <1>2 DEF NoLostWakeup
    <3>. QED  BY <1>1, <1>2, <2>2, <3>1
  <2>. QED  BY <2>1, <2>2
<1>. QED  BY <1>2 DEF NoLostWakeup

\* News on one connection makes no descriptor readable but its own.
LEMMA NewsOf ==
    ASSUME LoopTypes, NEW c \in Clients, UNCHANGED <<backlog, fdOf>>,
           \A d \in Clients : d # c => inq'[d] = inq[d] /\ conn'[d] = conn[d],
           ready' = WokenBy(c)
    PROVE  \A fd \in Sources : Readable(fd)' => Readable(fd) \/ fd \in ToSet(ready')
<1>1. fdOf[c] # NoFd => fdOf[c] \in ToSet(ready')
  BY WokenByProperties
<1>2. \A fd \in Sources : fd # NoFd
  BY DEF Sources
<1>3. \A d \in Clients : d # c => (HasNews(d)' <=> HasNews(d))
  BY DEF HasNews
<1>4. ASSUME NEW fd \in Sources, Readable(fd)' PROVE Readable(fd) \/ fd \in ToSet(ready')
  <2>1. CASE fd = ServFd
    BY <1>4, <2>1 DEF Readable
  <2>2. CASE fd # ServFd
    <3>1. PICK d \in Clients : fdOf[d] = fd /\ HasNews(d)'
      BY <1>4, <2>2 DEF Readable
    <3>. QED  BY <1>1, <1>2, <1>3, <2>2, <3>1 DEF Readable
  <2>. QED  BY <2>1, <2>2
<1>. QED  BY <1>4

\* The steps of the clients lose no wake-up.
LEMMA WakeupClient ==
    ASSUME LoopInv, NEW c \in Clients, Client(c)
    PROVE  NoLostWakeup'
<1>1. LoopTypes /\ NoLostWakeup /\ FdsExact /\ NetTypes
  BY DEF LoopInv
<1>2. CASE Connect(c)
  <2>1. /\ conn[c] = "idle" /\ conn' = [conn EXCEPT ![c] = "open"]
        /\ UNCHANGED <<up, batch, fdOf, inq>> /\ ready' = Woken(ready, ServFd)
    BY <1>2 DEF Connect, server
  <2>2. ToSet(ready') = ToSet(ready) \cup {ServFd}
    <3>1. ready \in Seq(Sources) /\ ServFd \in Sources
      BY <1>1 DEF LoopTypes, Sources
    <3>. QED  BY <2>1, <3>1, WokenProperties
  <2>3. \A d \in Clients : HasNews(d)' => HasNews(d)
    BY <1>1, <2>1 DEF HasNews, LoopTypes
  <2>4. \A fd \in Sources : Readable(fd)' => Readable(fd) \/ fd = ServFd
    BY <2>1, <2>3 DEF Readable
  <2>. QED  BY <1>1, <2>1, <2>2, <2>4, WakeupSame
<1>3. CASE Display(c)
  BY <1>1, <1>3 DEF Display, server, NoLostWakeup, Readable, HasNews
<1>4. CASE Quit(c) \/ Say(c)
  <2>1. /\ UNCHANGED <<up, batch, backlog, fdOf>> /\ ready' = WokenBy(c)
        /\ \A d \in Clients : d # c => inq'[d] = inq[d] /\ conn'[d] = conn[d]
    BY <1>1, <1>4 DEF Quit, Say, server, LoopTypes, NetTypes
  <2>2. ToSet(ready) \subseteq ToSet(ready')
    BY <1>1, <2>1, WokenByProperties
  <2>3. \A fd \in Sources : Readable(fd)' => Readable(fd) \/ fd \in ToSet(ready')
    BY <1>1, <2>1, NewsOf
  <2>. QED  BY <1>1, <2>1, <2>2, <2>3, WakeupSame
<1>. QED  BY <1>2, <1>3, <1>4 DEF Client

\* The steps of the loop that belong to no client lose no wake-up.
LEMMA WakeupLoop ==
    ASSUME LoopInv, EpollWait \/ Accept \/ AcceptError \/ BroadcastDone
    PROVE  NoLostWakeup'
<1>1. LoopTypes /\ NoLostWakeup /\ FdsExact /\ BatchExact
  BY DEF LoopInv
<1>2. CASE EpollWait
  <2>1. batch = <<>> /\ UNCHANGED <<up, backlog, fdOf, conn, inq>>
    BY <1>2 DEF EpollWait
  <2>2. \A fd \in Sources : Readable(fd)' <=> Readable(fd)
    BY <2>1 DEF Readable, HasNews
  <2>3. ToSet(batch) = {}
    BY <2>1 DEF ToSet
  <2>4. \A fd \in Sources : Readable(fd) => fd \in ReadableFds
    BY DEF ReadableFds
  <2>. QED  BY <1>1, <1>2, <2>1, <2>2, <2>3, <2>4, WaitParts DEF NoLostWakeup
<1>3. CASE Accept
  <2>1. /\ batch # <<>> /\ batch' = Tail(batch) /\ Head(batch) = ServFd
        /\ UNCHANGED <<up, conn, inq>>
    BY <1>3 DEF Accept, Serving
  <2>2. PICK fd \in FDs, a \in Clients :
              /\ \A d \in Clients : fdOf'[d] = IF d = a THEN fd ELSE fdOf[d]
              /\ ready' = IF HasNews(a) THEN Woken(ready, fd) ELSE ready
    BY <1>1, <1>3, AcceptParts, Zenon
  <2>3. /\ ToSet(ready) \subseteq ToSet(ready')
        /\ HasNews(a) => fd \in ToSet(ready')
    <3>1. ready \in Seq(Sources) /\ fd \in Sources
      BY <1>1 DEF LoopTypes, Sources
    <3>. QED  BY <2>2, <3>1, WokenProperties
  <2>4. ServFd \in ToSet(ready')
    <3>1. ServFd \in ToSet(batch)
      BY <1>1, <2>1, HeadEvent
    <3>. QED  BY <1>1, <2>3, <3>1 DEF BatchExact
  <2>5. \A d \in Clients : HasNews(d)' <=> HasNews(d)
    BY <2>1 DEF HasNews
  <2>6. ASSUME NEW f \in Sources, Readable(f)' PROVE Readable(f) \/ f \in ToSet(ready')
    <3>1. CASE f = ServFd
      BY <2>4, <3>1
    <3>2. CASE f # ServFd
      <4>1. PICK d \in Clients : fdOf'[d] = f /\ HasNews(d)
        BY <2>5, <2>6, <3>2 DEF Readable
      <4>2. CASE d = a
        BY <2>2, <2>3, <4>1, <4>2
      <4>3. CASE d # a
        BY <2>2, <3>2, <4>1, <4>3 DEF Readable
      <4>. QED  BY <4>2, <4>3
    <3>. QED  BY <3>1, <3>2
  <2>7. /\ \A f \in Sources : f = Head(batch) => f \in ToSet(ready')
        /\ ToSet(ready) \ {Head(batch)} \subseteq ToSet(ready')
    BY <2>1, <2>3, <2>4
  <2>. QED  BY <1>1, <2>1, <2>6, <2>7, WakeupNext
<1>4. CASE AcceptError
  BY <1>4 DEF AcceptError, NoLostWakeup
<1>5. CASE BroadcastDone
  BY <1>1, <1>5 DEF BroadcastDone, SameEvent, network, NoLostWakeup, Readable, HasNews
<1>. QED  BY <1>2, <1>3, <1>4, <1>5

\* The steps that serve a client lose no wake-up.
LEMMA WakeupServe ==
    ASSUME LoopInv, NEW c \in Clients, Serve(c)
    PROVE  NoLostWakeup'
<1>1. LoopTypes /\ NoLostWakeup /\ FdsExact /\ BatchExact /\ NetTypes /\ ArrayTypes /\ SlotsExact
  BY DEF LoopInv
<1>2. CASE ReadData(c)
  <2>1. /\ inq[c] # <<>> /\ \A d \in Clients : d # c => inq'[d] = inq[d]
        /\ UNCHANGED <<up, batch, ready, backlog, fdOf, conn>>
    BY <1>1, <1>2 DEF ReadData, NetTypes
  <2>2. \A d \in Clients : HasNews(d)' => HasNews(d)
    BY <2>1 DEF HasNews
  <2>3. \A fd \in Sources : Readable(fd)' => Readable(fd)
    BY <2>1, <2>2 DEF Readable
  <2>. QED  BY <1>1, <2>1, <2>3, WakeupSame
<1>3. CASE ReadEof(c)
  <2>1. /\ batch # <<>> /\ batch' = Tail(batch) /\ Head(batch) = fdOf[c]
        /\ fdOf' = [fdOf EXCEPT ![c] = NoFd] /\ ready' = Forgotten(ready, fdOf[c])
        /\ UNCHANGED <<up, backlog, conn, inq>>
    BY <1>3 DEF ReadEof, Serving
  <2>2. ToSet(ready') = ToSet(ready) \ {fdOf[c]}
    BY <1>1, <2>1, ForgottenProperties DEF LoopTypes
  <2>3. \A d \in Clients : fdOf'[d] = IF d = c THEN NoFd ELSE fdOf[d]
    BY <1>1, <2>1 DEF LoopTypes
  <2>4. fdOf[c] # NoFd /\ fdOf[c] # ServFd
    BY <2>1, ServedEvent
  <2>5. \A d \in Clients : HasNews(d)' <=> HasNews(d)
    BY <2>1 DEF HasNews
  <2>6. ASSUME NEW fd \in Sources, fd = Head(batch), Readable(fd)' PROVE FALSE
    <3>1. PICK d \in Clients : fdOf'[d] = fd
      BY <2>1, <2>4, <2>6 DEF Readable
    <3>. QED  BY <1>1, <2>1, <2>3, <2>4, <2>6, <3>1 DEF FdsExact
  <2>7. \A fd \in Sources : Readable(fd)' => Readable(fd)
    <3>1. \A fd \in Sources : fd # NoFd
      BY DEF Sources
    <3>. QED  BY <2>1, <2>3, <2>5, <3>1 DEF Readable
  <2>. QED  BY <1>1, <2>1, <2>2, <2>6, <2>7, WakeupNext
<1>4. CASE ReadReset(c)
  <2>1. /\ conn[c] = "rst" /\ conn' = [conn EXCEPT ![c] = "dead"]
        /\ UNCHANGED <<up, batch, ready, backlog, fdOf, inq>>
    BY <1>4 DEF ReadReset, server
  <2>2. \A d \in Clients : HasNews(d)' => HasNews(d)
    BY <1>1, <2>1 DEF HasNews, LoopTypes
  <2>3. \A fd \in Sources : Readable(fd)' => Readable(fd)
    BY <2>1, <2>2 DEF Readable
  <2>. QED  BY <1>1, <2>1, <2>3, WakeupSame
<1>5. CASE Drained(c)
  <2>1. /\ batch # <<>> /\ batch' = Tail(batch) /\ Head(batch) = fdOf[c] /\ ~ HasNews(c)
        /\ UNCHANGED <<up, ready, backlog, fdOf, conn, inq>>
    BY <1>5 DEF Drained, Serving, network
  <2>2. \A fd : Readable(fd)' <=> Readable(fd)
    BY <2>1 DEF Readable, HasNews
  <2>3. ~ Readable(fdOf[c])
    <3>1. fdOf[c] # ServFd /\ fdOf[c] # NoFd
      BY <2>1, ServedEvent
    <3>. QED  BY <1>1, <2>1, <3>1 DEF Readable, FdsExact
  <2>4. \A fd : fd = Head(batch) => ~ Readable(fd)'
    BY <2>1, <2>2, <2>3
  <2>. QED  BY <1>1, <2>1, <2>2, <2>4, WakeupNext
<1>6. CASE WriteTo(c)
  <2>1. up /\ ready' \in {ready, Woken(ready, fdOf[c])} /\ UNCHANGED <<batch, backlog, fdOf, inq>>
    BY <1>6 DEF WriteTo
  <2>2. \A d \in Clients : conn'[d] = conn[d] \/ conn[d] \in {"fin", "rst", "dead"}
    BY <1>1, <1>6 DEF WriteTo, LoopTypes
  <2>3. \A d \in Clients : HasNews(d)' => HasNews(d)
    BY <2>1, <2>2 DEF HasNews
  <2>4. \A fd \in Sources : Readable(fd)' => Readable(fd)
    BY <2>1, <2>3 DEF Readable
  <2>5. ToSet(ready) \subseteq ToSet(ready')
    <3>1. fdOf[c] \in Sources /\ ready \in Seq(Sources)
      BY <1>1, <1>6, WrittenTo DEF LoopTypes, Sources
    <3>. QED  BY <2>1, <3>1, WokenProperties
  <2>. QED  BY <1>1, <2>1, <2>4, <2>5, WakeupSame
<1>. QED  BY <1>2, <1>3, <1>4, <1>5, <1>6 DEF Serve

-----------------------------------------------------------------------------
(* The array.                                                              *)

\* Steps that neither accept nor close.
LEMMA SlotsSame ==
    ASSUME SlotsExact, UNCHANGED <<fdOf, clnt_sock_arr, clnt_cnt>>
    PROVE  SlotsExact'
<1>1. Registered' = Registered
  BY DEF Registered
<1>. QED  BY <1>1 DEF SlotsExact

\* accept puts a new descriptor behind those in use.
LEMMA SlotsAccept ==
    ASSUME LoopInv, Accept
    PROVE  SlotsExact'
<1>1. LoopTypes /\ FdsExact /\ ArrayTypes /\ SlotsExact
  BY DEF LoopInv
<1>2. PICK fd \in FDs, a \in Clients :
              /\ \A c \in Clients : fdOf[c] # fd
              /\ fdOf[a] = NoFd
              /\ \A c \in Clients : fdOf'[c] = IF c = a THEN fd ELSE fdOf[c]
              /\ clnt_sock_arr' = [clnt_sock_arr EXCEPT ![clnt_cnt] = fd]
  BY <1>1, AcceptParts, Zenon
<1>3. clnt_cnt' = clnt_cnt + 1 /\ clnt_cnt \in Slots /\ clnt_cnt \in Nat
  <2>1. clnt_cnt < MAX_CLNT_SIZE
    BY RoomForOne
  <2>. QED  BY <1>1, <2>1 DEF Accept, ArrayTypes, Slots
<1>4. /\ clnt_sock_arr'[clnt_cnt] = fd
      /\ \A k \in 0..(clnt_cnt - 1) : clnt_sock_arr'[k] = clnt_sock_arr[k]
  <2>1. \A k \in 0..(clnt_cnt - 1) : k \in Slots /\ k # clnt_cnt
    BY <1>3 DEF Slots
  <2>. QED  BY <1>1, <1>2, <1>3, <2>1 DEF ArrayTypes
<1>5. \A k \in 0..(clnt_cnt' - 1) : k \in 0..(clnt_cnt - 1) \/ k = clnt_cnt
  BY <1>3
<1>6. clnt_cnt \in 0..(clnt_cnt' - 1) /\ 0..(clnt_cnt - 1) \subseteq 0..(clnt_cnt' - 1)
  BY <1>3
<1>7. \A k \in 0..(clnt_cnt - 1) : clnt_sock_arr[k] # fd
  BY <1>1, <1>2 DEF SlotsExact, Registered
<1>8. Registered' = Registered \cup {a} /\ a \notin Registered
  BY <1>2 DEF Registered
<1>9. \A k, l \in 0..(clnt_cnt' - 1) : clnt_sock_arr'[k] = clnt_sock_arr'[l] => k = l
  BY <1>1, <1>4, <1>5, <1>7 DEF SlotsExact
<1>10. \A k \in 0..(clnt_cnt' - 1) : \E c \in Registered' : clnt_sock_arr'[k] = fdOf'[c]
  <2>1. \A c \in Registered : fdOf'[c] = fdOf[c] /\ c \in Registered'
    BY <1>2, <1>8 DEF Registered
  <2>. QED  BY <1>1, <1>2, <1>4, <1>5, <1>8, <2>1 DEF SlotsExact
<1>11. \A c \in Registered' : \E k \in 0..(clnt_cnt' - 1) : clnt_sock_arr'[k] = fdOf'[c]
  <2>1. \A c \in Registered : fdOf'[c] = fdOf[c]
    BY <1>2, <1>8 DEF Registered
  <2>. QED  BY <1>1, <1>2, <1>4, <1>6, <1>8, <2>1 DEF SlotsExact
<1>12. IsFiniteSet(Registered') /\ Cardinality(Registered') = clnt_cnt'
  <2>1. IsFiniteSet(Registered) /\ Cardinality(Registered) = clnt_cnt
    BY <1>1 DEF SlotsExact
  <2>. QED  BY <1>3, <1>8, <2>1, FS_AddElement
<1>. QED  BY <1>9, <1>10, <1>11, <1>12 DEF SlotsExact

\* The slot of a descriptor in use is found.
LEMMA SlotFound ==
    ASSUME ArrayTypes, SlotsExact, NEW c \in Registered
    PROVE  SlotOf(fdOf[c]) \in 0..(clnt_cnt - 1) /\ clnt_sock_arr[SlotOf(fdOf[c])] = fdOf[c]
<1>1. PICK k \in 0..(clnt_cnt - 1) : clnt_sock_arr[k] = fdOf[c]
  BY DEF SlotsExact
<1>2. clnt_cnt \in Nat /\ k \in Slots /\ k < clnt_cnt /\ k \in Int
  BY DEF ArrayTypes, Slots
<1>3. \A l \in Slots : l < clnt_cnt /\ clnt_sock_arr[l] = fdOf[c] => l = k
  BY <1>1, <1>2 DEF SlotsExact, Slots
<1>4. {l \in Slots : l < clnt_cnt /\ clnt_sock_arr[l] = fdOf[c]} = {k}
  BY <1>1, <1>2, <1>3
<1>5. SlotOf(fdOf[c]) = Min({clnt_cnt, k})
  BY <1>4 DEF SlotOf
<1>6. SlotOf(fdOf[c]) = k
  BY <1>2, <1>5, MinOfTwo
<1>. QED  BY <1>1, <1>6

\* Taking an entry out and moving the others down loses only that entry.
LEMMA SlotsEof ==
    ASSUME LoopInv, NEW c \in Clients, ReadEof(c)
    PROVE  SlotsExact'
<1>1. LoopTypes /\ FdsExact /\ ArrayTypes /\ SlotsExact
  BY DEF LoopInv
<1>2. fdOf[c] # NoFd
  BY ServedEvent DEF ReadEof, Serving
<1>3. PICK s : s = SlotOf(fdOf[c])
  OBVIOUS
<1>4. c \in Registered /\ s \in 0..(clnt_cnt - 1) /\ clnt_sock_arr[s] = fdOf[c]
  <2>1. c \in Registered
    BY <1>2 DEF Registered
  <2>. QED  BY <1>1, <1>3, <2>1, SlotFound
<1>5. clnt_cnt' = clnt_cnt - 1 /\ clnt_cnt \in Nat \ {0} /\ clnt_cnt' \in Nat
  BY <1>1, <1>4 DEF ReadEof, ArrayTypes
<1>6. \A d \in Clients : fdOf'[d] = IF d = c THEN NoFd ELSE fdOf[d]
  BY <1>1 DEF ReadEof, LoopTypes
<1>7. \A k \in 0..(clnt_cnt' - 1) :
         clnt_sock_arr'[k] = IF s <= k THEN clnt_sock_arr[k + 1] ELSE clnt_sock_arr[k]
  <2>1. clnt_sock_arr' = ShiftDown(s)
    BY <1>3 DEF ReadEof
  <2>2. \A k \in 0..(clnt_cnt' - 1) : k \in Slots /\ k < clnt_cnt - 1
    BY <1>1, <1>5 DEF ArrayTypes, Slots
  <2>. QED  BY <2>1, <2>2 DEF ShiftDown
<1>8. Registered' = Registered \ {c}
  BY <1>6 DEF Registered
<1>9. \A k, l \in 0..(clnt_cnt' - 1) : clnt_sock_arr'[k] = clnt_sock_arr'[l] => k = l
  <2>. DEFINE from(k) == IF s <= k THEN k + 1 ELSE k
  <2>1. \A k \in 0..(clnt_cnt' - 1) : from(k) \in 0..(clnt_cnt - 1) /\ clnt_sock_arr'[k] = clnt_sock_arr[from(k)]
    BY <1>4, <1>5, <1>7
  <2>2. \A k, l \in 0..(clnt_cnt' - 1) : from(k) = from(l) => k = l
    BY <1>4, <1>5
  <2>. HIDE DEF from
  <2>. QED  BY <1>1, <2>1, <2>2 DEF SlotsExact
<1>10. ASSUME NEW k \in 0..(clnt_cnt' - 1)
       PROVE  \E d \in Registered' : clnt_sock_arr'[k] = fdOf'[d]
  <2>1. PICK l \in 0..(clnt_cnt - 1) : l # s /\ clnt_sock_arr'[k] = clnt_sock_arr[l]
    <3>1. CASE s <= k
      <4>1. k + 1 \in 0..(clnt_cnt - 1) /\ k + 1 # s
        BY <1>4, <1>5, <3>1
      <4>. QED  BY <1>7, <3>1, <4>1
    <3>2. CASE ~ (s <= k)
      <4>1. k \in 0..(clnt_cnt - 1) /\ k # s
        BY <1>4, <1>5, <3>2
      <4>. QED  BY <1>7, <3>2, <4>1
    <3>. QED  BY <3>1, <3>2
  <2>2. PICK d \in Registered : clnt_sock_arr[l] = fdOf[d]
    BY <1>1 DEF SlotsExact
  <2>3. d # c
    BY <1>1, <1>4, <2>1, <2>2 DEF SlotsExact
  <2>. QED  BY <1>6, <1>8, <2>1, <2>2, <2>3 DEF Registered
<1>11. ASSUME NEW d \in Registered'
       PROVE  \E k \in 0..(clnt_cnt' - 1) : clnt_sock_arr'[k] = fdOf'[d]
  <2>1. d \in Registered /\ d # c /\ d \in Clients
    BY <1>8 DEF Registered
  <2>2. PICK l \in 0..(clnt_cnt - 1) : clnt_sock_arr[l] = fdOf[d]
    BY <1>1, <2>1 DEF SlotsExact
  <2>3. l # s
    BY <1>1, <1>2, <1>4, <2>1, <2>2 DEF FdsExact
  <2>4. CASE l < s
    <3>1. l \in 0..(clnt_cnt' - 1) /\ ~ (s <= l)
      BY <1>4, <1>5, <2>4
    <3>. QED  BY <1>6, <1>7, <2>1, <2>2, <3>1
  <2>5. CASE s < l
    <3>1. l - 1 \in 0..(clnt_cnt' - 1) /\ s <= l - 1 /\ (l - 1) + 1 = l
      BY <1>4, <1>5, <2>5
    <3>. QED  BY <1>6, <1>7, <2>1, <2>2, <3>1
  <2>. QED  BY <1>4, <2>3, <2>4, <2>5
<1>12. IsFiniteSet(Registered') /\ Cardinality(Registered') = clnt_cnt'
  <2>1. IsFiniteSet(Registered) /\ Cardinality(Registered) = clnt_cnt
    BY <1>1 DEF SlotsExact
  <2>. QED  BY <1>4, <1>5, <1>8, <2>1, FS_RemoveElement
<1>. QED  BY <1>9, <1>10, <1>11, <1>12 DEF SlotsExact

\* Every step keeps the array exact.
LEMMA SlotsStep ==
    ASSUME LoopInv, [Next]_vars
    PROVE  SlotsExact'
<1>1. SlotsExact
  BY DEF LoopInv
<1>2. CASE UNCHANGED <<fdOf, clnt_sock_arr, clnt_cnt>>
  BY <1>1, <1>2, SlotsSame
<1>3. CASE EpollWait \/ AcceptError \/ BroadcastDone \/ UNCHANGED vars
  BY <1>2, <1>3 DEF EpollWait, AcceptError, BroadcastDone, vars, server, network
<1>4. ASSUME NEW c \in Clients,
             Client(c) \/ ReadData(c) \/ ReadReset(c) \/ Drained(c) \/ WriteTo(c)
      PROVE  SlotsExact'
  BY <1>2, <1>4 DEF Client, Connect, Say, Quit, Display, ReadData, ReadReset, Drained, WriteTo,
                    server, network
<1>. QED  BY <1>3, <1>4, SlotsAccept, SlotsEof DEF Next, Server, Serve

-----------------------------------------------------------------------------
(* The invariant.                                                          *)

\* At the start there are no events, descriptors or connections.
LEMMA LoopInit ==
    ASSUME Init
    PROVE  LoopInv
<1>1. ToSet(<<>>) = {} /\ IsInjective(<<>>)
  BY DEF ToSet, IsInjective
<1>2. NetTypes
  BY DEF Init, NetTypes
<1>3. LoopTypes
  BY <1>1 DEF Init, LoopTypes
<1>4. ArrayTypes
  BY DEF Init, ArrayTypes
<1>5. FdsExact /\ BatchExact
  BY <1>1 DEF Init, FdsExact, BatchExact
<1>6. SlotsExact
  <2>1. Registered = {} /\ clnt_cnt = 0
    BY DEF Init, Registered
  <2>2. 0..(0 - 1) = {}
    OBVIOUS
  <2>. QED  BY <2>1, <2>2, FS_EmptySet DEF SlotsExact
<1>7. NoLostWakeup
  BY DEF Init, NoLostWakeup, Readable, HasNews
<1>. QED  BY <1>2, <1>3, <1>4, <1>5, <1>6, <1>7 DEF LoopInv

\* Every step keeps what the loop knows exact.
LEMMA LoopStep ==
    ASSUME LoopInv, [Next]_vars
    PROVE  LoopInv'
<1>1. NetTypes' /\ LoopTypes' /\ ArrayTypes'
  <2>1. NetTypes /\ LoopTypes /\ ArrayTypes
    BY DEF LoopInv
  <2>2. CASE UNCHANGED vars
    BY <2>1, <2>2 DEF NetTypes, LoopTypes, ArrayTypes, vars, server, network, clients
  <2>3. CASE Next
    BY <2>1, <2>3, TypeClient, TypeLoop, TypeServe DEF Next, Server
  <2>. QED  BY <2>2, <2>3
<1>2. NoLostWakeup'
  <2>1. CASE UNCHANGED vars
    BY <2>1 DEF LoopInv, NoLostWakeup, Readable, HasNews, vars, server, network
  <2>2. CASE Next
    BY <2>2, WakeupClient, WakeupLoop, WakeupServe DEF Next, Server
  <2>. QED  BY <2>1, <2>2
<1>. QED  BY <1>1, <1>2, FdsStep, BatchStep, SlotsStep DEF LoopInv

\* The array as it is used: the first clnt_cnt entries are the descriptors.
LEMMA ArrayIsExact ==
    ASSUME LoopInv
    PROVE  ArrayExact
<1>1. SlotsExact
  BY DEF LoopInv
<1>. QED  BY <1>1 DEF SlotsExact, ArrayExact

\* The loop reaches every client, to read and to write: whatever can be read
\* will be reported or is about to be, and clnt_sock_arr has the descriptors
\* of all connected clients, each once, whichever come, go and reuse numbers.
THEOREM LoopIsExact == Spec => []LoopExact
<1>1. LoopInv => LoopExact
  BY TypeParts, ArrayIsExact DEF LoopInv, LoopExact
<1>2. Init => LoopInv
  BY LoopInit
<1>3. LoopInv /\ [Next]_vars => LoopInv'
  BY LoopStep
<1>. QED  BY <1>1, <1>2, <1>3, PTL DEF Spec

=============================================================================
