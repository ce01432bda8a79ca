--------------------------- MODULE SelectEchoProofs ---------------------------
(***************************************************************************)
(* Proofs about the select echo servers, for any number of clients and     *)
(* descriptors, any size of a Windows set and of the buffers: the set and  *)
(* its snapshot stay right while the loop changes them, no echo is         *)
(* damaged, and on Linux only a connection that ended is closed.           *)
(***************************************************************************)
EXTENDS SelectEcho, ListProofs

Sources == FDs \cup {ServFd}

\* The types of what the network and the clients hold.
NetTypes ==
    /\ inq \in [Clients -> Seq(Nat)] /\ outq \in [Clients -> Seq(Nat)] /\ got \in [Clients -> Seq(Nat)]
    /\ asked \in [Clients -> BOOLEAN] /\ sent \in [Clients -> Nat] /\ lines \in [Clients -> 0..MaxLines]

\* The types of what the server holds.
LoopTypes ==
    /\ win \in BOOLEAN /\ up \in BOOLEAN /\ misclosed \in BOOLEAN /\ FD_SETSIZE \in SetSizes \cup {0}
    /\ reads \in Seq(Sources) /\ cpy_reads \in Seq(Sources)
    /\ fd_num \in 0..Len(cpy_reads) /\ fd_max \in Sources /\ i \in Nat
    /\ buf \in Seq(Nat) /\ Len(buf) <= BUF_SIZE
    /\ fdOf \in [Clients -> FDs \cup {NoFd}] /\ backlog \in Seq(Clients)
    /\ conn \in [Clients -> {"idle", "open", "fin", "rst", "dead", "closed"}]
    /\ refused \subseteq Clients

\* What select reported.
News == ToSet(SubSeq(cpy_reads, 1, fd_num))

\* The first entry of an array, and the smallest descriptor, is the listener.
FirstTurn == IF win THEN 1 ELSE ServFd

\* A descriptor is one connection's.  A connection has none before accept,
\* and is at most once in the listen queue.
FdsExact ==
    /\ \A c, d \in Clients : fdOf[c] = fdOf[d] /\ fdOf[c] # NoFd => c = d
    /\ \A c \in Clients : conn[c] = "idle" \/ c \in ToSet(backlog) => fdOf[c] = NoFd /\ c \notin refused
    /\ \A c \in Clients : c \in ToSet(backlog) => conn[c] # "idle"
    /\ IsInjective(backlog)

\* While the loop has not looked at the listener, what select reported is
\* open, and the array of Windows is as long as its copy.  After it the array
\* can be longer, by sockets that select has not reported.
TurnExact ==
    /\ reads # <<>> /\ reads[1] = ServFd
    /\ \A k \in 1..Len(reads) : reads[k] = ServFd => k = 1
    /\ i \in 1..FirstTurn => \A fd \in News : Open(fd)
    /\ win /\ i = 1 => Len(cpy_reads) = Len(reads)
    /\ \A k \in 1..Len(reads) : win /\ k > Len(cpy_reads) => reads[k] \notin News
    /\ ~win => \A fd \in News : fd <= fd_max

\* What has been read belongs to the socket the loop is at.
HoldExact == buf # <<>> => i \in 1..Limit /\ Slot(i) \in FDs

\* The loop of Linux closes the descriptor it is at.
LinuxExact == ~win => ~misclosed

SetInv == NetTypes /\ LoopTypes /\ FdsExact /\ TurnExact /\ HoldExact /\ LinuxExact /\ ReadsExact /\ NeverBlocksOnRead

Text == Seq(Nat)

\* What the server holds of a connection's text.
Held(c) == IF buf # <<>> /\ Slot(i) = fdOf[c] THEN buf ELSE <<>>

\* All of a connection's text, wherever it is.
Whole(c) == got[c] \o outq[c] \o Held(c) \o inq[c]

Line(n) == [k \in 1..n |-> k]

\* Before there is a connection nothing is written, and while there is one
\* nothing is missing, twice or out of place.
EchoOf(c) ==
    /\ conn[c] = "idle" => got[c] = <<>> /\ outq[c] = <<>> /\ inq[c] = <<>> /\ sent[c] = 0
    /\ conn[c] = "open" => Whole(c) = Line(sent[c])

EchoInv == \A c \in Clients : EchoOf(c)

\* Nothing may be put between parts, and parts may be put together.
Joins(x, a, b) == (x \o <<>>) \o (a \o b) = (x \o a) \o b

LEMMA JoinText == \A x, a, b \in Text : Joins(x, a, b)
  BY DEF Text, Joins

\* What the loop holds may as well be put behind what is on its way back.
Puts(x, a, b) == (x \o (a \o b)) \o <<>> = (x \o a) \o b

LEMMA PutText == \A x, a, b \in Text : Puts(x, a, b)
  BY DEF Text, Puts

\* What is put behind the last part is behind the whole.
Ends(x, a, b) == x \o (a \o b) = (x \o a) \o b

LEMMA EndText == \A x, a, b \in Text : Ends(x, a, b)
  BY DEF Text, Ends

\* What has been read may be put together with what is before it.
Moved(x, a) == (x \o a) \o <<>> = x \o a

LEMMA MovedText == \A x, a \in Text : Moved(x, a)
  BY DEF Text, Moved

\* A line goes on where the last one ended.
GoesOn(s, n) == Line(s) \o [k \in 1..n |-> s + k] = Line(s + n)

LEMMA LineGoesOn == \A s, n \in Nat : GoesOn(s, n)
  BY DEF GoesOn, Line

USE FDsAssumption, LowestAssumption, SizesAssumption

\* TypeOK in two parts.
LEMMA TypeParts == NetTypes /\ LoopTypes => TypeOK
  BY Zenon DEF TypeOK, NetTypes, LoopTypes, Sources

\* A read takes a part of what is unread, not nothing, and leaves the rest.
LEMMA ReadParts ==
    ASSUME NetTypes, NEW c \in Clients, inq[c] # <<>>
    PROVE  LET n == ReadLen(c)
               a == SubSeq(inq[c], 1, n)
               b == SubSeq(inq[c], n + 1, Len(inq[c]))
           IN  a \in Seq(Nat) /\ Len(a) <= BUF_SIZE /\ a # <<>> /\ b \in Seq(Nat) /\ a \o b = inq[c]
<1> DEFINE n == ReadLen(c)
<1>1. inq[c] \in Seq(Nat)
  BY DEF NetTypes
<1>2. n \in 1..Len(inq[c]) /\ n <= BUF_SIZE
  <2>1. Len(inq[c]) \in Nat \ {0} /\ BUF_SIZE \in Nat \ {0}
    BY <1>1
  <2>. QED  BY <2>1, MinOfTwo DEF ReadLen
<1>. HIDE DEF n
<1>3. /\ SubSeq(inq[c], 1, n) \in Seq(Nat) /\ Len(SubSeq(inq[c], 1, n)) = n
      /\ SubSeq(inq[c], n + 1, Len(inq[c])) \in Seq(Nat)
      /\ SubSeq(inq[c], 1, n) \o SubSeq(inq[c], n + 1, Len(inq[c])) = inq[c]
  BY <1>1, <1>2, CutParts
<1>4. SubSeq(inq[c], 1, n) # <<>>
  <2>1. n # 0
    BY <1>1, <1>2
  <2>2. Len(SubSeq(inq[c], 1, n)) # Len(<<>>)
    BY <1>3, <2>1
  <2>. QED  BY <2>2, Zenon
<1>. QED  BY <1>2, <1>3, <1>4 DEF n

\* What select reported are sockets of the set.
LEMMA NewsTypes ==
    ASSUME LoopTypes
    PROVE  News \subseteq Sources
<1>1. cpy_reads \in Seq(Sources) /\ fd_num \in 0..Len(cpy_reads)
  BY DEF LoopTypes
<1>2. SubSeq(cpy_reads, 1, fd_num) \in Seq(Sources)
  BY <1>1, SplitMembers
<1>3. PICK q : q = SubSeq(cpy_reads, 1, fd_num)
  OBVIOUS
<1>4. q \in Seq(Sources) /\ \A k \in 1..Len(q) : q[k] \in Sources
  BY <1>2, <1>3
<1>5. \A e : e \in ToSet(q) => \E k \in 1..Len(q) : q[k] = e
  BY <1>4, ToSetByIndex
<1>. QED  BY <1>3, <1>4, <1>5, Zenon DEF News

\* The loop serves a socket that a connection has.
LEMMA Served ==
    ASSUME LoopTypes, NEW c \in Clients, Serving(fdOf[c])
    PROVE  /\ i \in 1..Limit /\ Slot(i) = fdOf[c] /\ fdOf[c] \in FDs /\ fdOf[c] \in News
           /\ fdOf[c] # NoFd /\ buf = <<>> /\ up
<1>1. i \in 1..Limit /\ Slot(i) = fdOf[c] /\ fdOf[c] \in News /\ buf = <<>> /\ up
  BY DEF Serving, Scanning, FdIsSet, News
<1>2. fdOf[c] \in FDs /\ fdOf[c] # NoFd
  BY <1>1, NewsTypes DEF LoopTypes, Sources
<1>. QED  BY <1>1, <1>2

\* A loop's counter and limit are numbers.
LEMMA Counters ==
    ASSUME LoopTypes
    PROVE  i \in Nat /\ Limit \in Nat /\ Len(reads) \in Nat /\ Len(cpy_reads) \in Nat /\ ServFd \in Nat \ {0}
<1>1. reads \in Seq(Sources) /\ cpy_reads \in Seq(Sources) /\ fd_max \in Nat /\ i \in Nat
  BY DEF LoopTypes, Sources
<1>. QED  BY <1>1 DEF Limit

-----------------------------------------------------------------------------
(* Types.                                                                  *)

\* The steps of the clients leave the server alone, but for what they put
\* into the listen queue.
LEMMA ClientFrame ==
    ASSUME NEW c \in Clients, Client(c)
    PROVE  UNCHANGED <<win, FD_SETSIZE, up, cpy_reads, fd_num, i, reads, fd_max, refused, buf, fdOf, misclosed>>
  BY DEF Client, Connect, WriteLine, ReadReply, Leave, program, scan, sets

\* The steps of the clients.
LEMMA TypeClient ==
    ASSUME NetTypes, LoopTypes, NEW c \in Clients, Client(c)
    PROVE  NetTypes' /\ LoopTypes'
<1>1. CASE Connect(c)
  <2>1. backlog' \in Seq(Clients)
    BY <1>1 DEF Connect, LoopTypes
  <2>2. LoopTypes'
    BY <1>1, <2>1, ClientFrame DEF Connect, LoopTypes
  <2>. QED  BY <1>1, <2>2 DEF Connect, NetTypes, clients
<1>2. CASE WriteLine(c)
  <2>1. PICK n \in 1..MaxLine : /\ inq' = [inq EXCEPT ![c] = @ \o [k \in 1..n |-> sent[c] + k]]
                                /\ sent' = [sent EXCEPT ![c] = @ + n]
    BY <1>2 DEF WriteLine
  <2>2. inq[c] \in Seq(Nat) /\ sent[c] \in Nat /\ lines[c] \in 0..MaxLines /\ n \in Nat
    BY DEF NetTypes
  <2>3. [k \in 1..n |-> sent[c] + k] \in Seq(Nat)
    BY <2>2
  <2>4. inq[c] \o [k \in 1..n |-> sent[c] + k] \in Seq(Nat)
    BY <2>2, <2>3, ConcatProperties
  <2>5. inq' \in [Clients -> Seq(Nat)] /\ sent' \in [Clients -> Nat]
    BY <2>1, <2>2, <2>4 DEF NetTypes
  <2>6. asked' \in [Clients -> BOOLEAN] /\ lines' \in [Clients -> 0..MaxLines]
    BY <1>2, <2>2 DEF WriteLine, NetTypes
  <2>7. NetTypes'
    BY <1>2, <2>5, <2>6 DEF WriteLine, NetTypes
  <2>. QED  BY <1>2, <2>7, ClientFrame DEF WriteLine, LoopTypes
<1>3. CASE ReadReply(c)
  <2>1. got[c] \o outq[c] \in Seq(Nat)
    BY ConcatProperties DEF NetTypes
  <2>2. NetTypes'
    BY <1>3, <2>1 DEF ReadReply, NetTypes
  <2>. QED  BY <1>3, <2>2, ClientFrame DEF ReadReply, LoopTypes
<1>4. CASE Leave(c)
  <2>1. conn' \in [Clients -> {"idle", "open", "fin", "rst", "dead", "closed"}]
    BY <1>4 DEF Leave, LoopTypes
  <2>2. NetTypes'
    <3>1. <<>> \in Seq(Nat)
      OBVIOUS
    <3>. QED  BY <1>4, <3>1 DEF Leave, NetTypes
  <2>3. LoopTypes'
    BY <1>4, <2>1, ClientFrame DEF Leave, LoopTypes
  <2>. QED  BY <2>2, <2>3
<1>. QED  BY <1>1, <1>2, <1>3, <1>4 DEF Client

\* What select reports, and what else it leaves in its copy.
LEMMA SelectParts ==
    ASSUME LoopTypes, Select
    PROVE  /\ cpy_reads' \in Seq(Sources) /\ fd_num' \in 0..Len(cpy_reads')
           /\ Len(cpy_reads') = Len(reads) /\ News' = ReadyFds
<1> DEFINE r == Filter(reads, ReadyFds)
           rest == SubSeq(reads, Len(r) + 1, Len(reads))
<1>1. cpy_reads' = r \o rest /\ fd_num' = Len(r)
  BY DEF Select
<1>2. reads \in Seq(Sources)
  BY DEF LoopTypes
<1>3. r \in Seq(Sources) /\ Len(r) <= Len(reads) /\ ToSet(r) = ReadyFds
  <2>1. r \in Seq(Sources \cap ReadyFds) /\ Len(r) <= Len(reads) /\ ToSet(r) = ToSet(reads) \cap ReadyFds
    BY <1>2, FilterProperties
  <2>2. r \in Seq(Sources)
    <3>. HIDE DEF r
    <3>. QED  BY <2>1
  <2>. QED  BY <2>1, <2>2 DEF ReadyFds
<1>. HIDE DEF r
<1>4. rest \in Seq(Sources) /\ Len(rest) = Len(reads) - Len(r) /\ Len(r) \in 0..Len(reads)
  <2>1. Len(r) \in 0..Len(reads)
    BY <1>2, <1>3
  <2>. QED  BY <1>2, <2>1, SplitMembers
<1>. HIDE DEF rest
<1>5. /\ r \o rest \in Seq(Sources) /\ Len(r \o rest) = Len(r) + Len(rest)
      /\ SubSeq(r \o rest, 1, Len(r)) = r
  BY <1>3, <1>4
<1>6. Len(r \o rest) = Len(reads) /\ Len(r) \in 0..Len(r \o rest)
  BY <1>2, <1>4, <1>5
<1>. QED  BY <1>1, <1>3, <1>5, <1>6 DEF News

\* The turns that Skip counts are forward.
LEMMA SkipParts ==
    ASSUME LoopTypes, Skip
    PROVE  i' \in Nat /\ i' > i
<1> DEFINE M == {k \in i..(Limit + 1) : k > Limit \/ FdIsSet(Slot(k))}
<1>1. i \in Nat /\ Limit \in Nat /\ i \in 1..Limit
  BY Counters DEF Skip, Scanning
<1>2. M \subseteq Nat /\ Limit + 1 \in M
  BY <1>1
<1>3. i' \in M
  <2>1. i' = Min(M)
    BY DEF Skip
  <2>. HIDE DEF M
  <2>. QED  BY <1>2, <2>1, MinOfSet
<1>4. i \notin M
  BY <1>1 DEF Skip
<1>. QED  BY <1>1, <1>3, <1>4

\* The steps of the loop that serve no client.
LEMMA TypeLoop ==
    ASSUME NetTypes, LoopTypes,
           Select \/ SelectError \/ Skip \/ EndOfLoop \/ Accept \/ AcceptError \/ ReadClosed
    PROVE  NetTypes' /\ LoopTypes'
<1>1. NetTypes'
  BY DEF Select, SelectError, Skip, EndOfLoop, Accept, AcceptError, ReadClosed, net, clients, NetTypes
<1>2. CASE Select
  BY <1>1, <1>2, SelectParts DEF Select, LoopTypes, program, sets, net
<1>3. CASE SelectError \/ AcceptError
  BY <1>1, <1>3 DEF SelectError, AcceptError, LoopTypes, program, scan, sets, net
<1>4. CASE Skip
  BY <1>1, <1>4, SkipParts DEF Skip, LoopTypes, program, sets, net
<1>5. CASE EndOfLoop
  <2>1. cpy_reads' \in Seq(Sources) /\ fd_num' \in 0..Len(cpy_reads') /\ i' \in Nat
    BY <1>5 DEF EndOfLoop
  <2>. QED  BY <1>1, <1>5, <2>1 DEF EndOfLoop, LoopTypes, program, sets, net
<1>6. CASE Accept
  <2>1. backlog # <<>> /\ backlog \in Seq(Clients) /\ reads \in Seq(Sources)
    BY <1>6 DEF Accept, LoopTypes
  <2>2. PICK fd \in FDs : /\ fdOf' = [fdOf EXCEPT ![Head(backlog)] = fd]
                          /\ \/ reads' = reads /\ refused' = refused \cup {Head(backlog)}
                             \/ reads' = Append(reads, fd) /\ refused' = refused
                          /\ fd_max' = NewMax(fd)
    BY <1>6 DEF Accept, FreeFds
  <2>3. Head(backlog) \in Clients /\ backlog' \in Seq(Clients)
    BY <1>6, <2>1 DEF Accept
  <2>4. reads' \in Seq(Sources)
    BY <2>1, <2>2 DEF Sources
  <2>5. refused' \subseteq Clients /\ fdOf' \in [Clients -> FDs \cup {NoFd}]
    BY <2>2, <2>3 DEF LoopTypes
  <2>6. fd_max' \in Sources /\ i' \in Nat
    BY <1>6, <2>2 DEF Accept, LoopTypes, NewMax, Sources
  <2>. QED  BY <1>1, <1>6, <2>3, <2>4, <2>5, <2>6 DEF Accept, LoopTypes, program
<1>7. CASE ReadClosed
  BY <1>1, <1>7 DEF ReadClosed, LoopTypes, program, sets, net
<1>. QED  BY <1>1, <1>2, <1>3, <1>4, <1>5, <1>6, <1>7

\* Of the array: FD_CLR takes one entry out and moves others to the front.
LEMMA ClrParts ==
    ASSUME LoopTypes, TurnExact, NEW fd \in FDs
    PROVE  /\ FdClr(fd) \in Seq(Sources) /\ Len(FdClr(fd)) <= Len(reads)
           /\ ToSet(FdClr(fd)) = ToSet(reads) \ {fd}
           /\ IsInjective(reads) => IsInjective(FdClr(fd))
           /\ \A k \in 1..Len(FdClr(fd)) : \E m \in k..Len(reads) : FdClr(fd)[k] = reads[m]
           /\ FdClr(fd) # <<>> /\ FdClr(fd)[1] = ServFd
<1> DEFINE F == FdClr(fd)
           keep == ToSet(reads) \ {fd}
<1>1. reads \in Seq(Sources) /\ reads # <<>> /\ reads[1] = ServFd /\ F = Filter(reads, keep)
  BY DEF LoopTypes, TurnExact, FdClr
<1>2. reads[1] \in keep
  <2>1. ServFd \in ToSet(reads)
    <3>1. 1 \in 1..Len(reads)
      BY <1>1
    <3>. QED  BY <1>1, <3>1, ToSetByIndex
  <2>. QED  BY <1>1, <2>1
<1>. HIDE DEF F, keep
<1>3. /\ F \in Seq(Sources \cap keep) /\ Len(F) <= Len(reads) /\ ToSet(F) = ToSet(reads) \cap keep
      /\ IsInjective(reads) => IsInjective(F)
  BY <1>1, FilterProperties
<1>4. /\ \A k \in 1..Len(F) : \E m \in k..Len(reads) : F[k] = reads[m]
      /\ F # <<>> /\ F[1] = reads[1]
  BY <1>1, <1>2, FilterOrder
<1>5. F \in Seq(Sources)
  BY <1>3
<1>6. ToSet(F) = ToSet(reads) \ {fd}
  BY <1>3 DEF keep
<1>. QED  BY <1>1, <1>3, <1>4, <1>5, <1>6 DEF F

\* The steps that serve a client.
LEMMA TypeServe ==
    ASSUME NetTypes, LoopTypes, TurnExact, NEW c \in Clients, Serve(c)
    PROVE  NetTypes' /\ LoopTypes'
<1>1. CASE ReadData(c)
  <2>1. /\ buf' = SubSeq(inq[c], 1, ReadLen(c))
        /\ inq' = [inq EXCEPT ![c] = SubSeq(@, ReadLen(c) + 1, Len(@))]
        /\ inq[c] # <<>>
    BY <1>1 DEF ReadData
  <2>2. buf' \in Seq(Nat) /\ Len(buf') <= BUF_SIZE /\ inq' \in [Clients -> Seq(Nat)]
    BY <2>1, ReadParts DEF NetTypes
  <2>3. NetTypes'
    BY <1>1, <2>2 DEF ReadData, NetTypes, clients
  <2>. QED  BY <1>1, <2>2, <2>3 DEF ReadData, LoopTypes, program, scan, sets
<1>2. CASE ReadEof(c)
  <2>1. fdOf[c] \in FDs
    BY <1>2, Served DEF ReadEof
  <2>2. reads' \in Seq(Sources)
    BY <1>2, <2>1, ClrParts DEF ReadEof
  <2>3. /\ fdOf' \in [Clients -> FDs \cup {NoFd}]
        /\ conn' \in [Clients -> {"idle", "open", "fin", "rst", "dead", "closed"}]
        /\ misclosed' \in BOOLEAN /\ i' \in Nat
    BY <1>2 DEF ReadEof, LoopTypes
  <2>4. inq' \in [Clients -> Seq(Nat)] /\ outq' \in [Clients -> Seq(Nat)]
    <3>1. <<>> \in Seq(Nat)
      OBVIOUS
    <3>. QED  BY <1>2, <3>1 DEF ReadEof, NetTypes
  <2>5. NetTypes'
    BY <1>2, <2>4 DEF ReadEof, NetTypes, clients
  <2>. QED  BY <1>2, <2>2, <2>3, <2>5 DEF ReadEof, LoopTypes, program
<1>3. CASE ReadReset(c)
  <2>1. conn' \in [Clients -> {"idle", "open", "fin", "rst", "dead", "closed"}] /\ i' \in Nat
    BY <1>3 DEF ReadReset, LoopTypes, AfterReset
  <2>2. NetTypes'
    BY <1>3 DEF ReadReset, NetTypes, clients
  <2>. QED  BY <1>3, <2>1, <2>2 DEF ReadReset, LoopTypes, program, sets
<1>4. CASE WriteEcho(c)
  <2>1. outq' \in [Clients -> Seq(Nat)]
    <3>1. outq[c] \o buf \in Seq(Nat)
      BY ConcatProperties DEF NetTypes, LoopTypes
    <3>. QED  BY <1>4, <3>1 DEF WriteEcho, Echoed, NetTypes
  <2>2. /\ conn' \in [Clients -> {"idle", "open", "fin", "rst", "dead", "closed"}]
        /\ up' \in BOOLEAN /\ i' \in Nat
    <3>1. \A s \in {"fin", AfterReset} : s \in {"idle", "open", "fin", "rst", "dead", "closed"}
      BY DEF AfterReset
    <3>2. \/ UNCHANGED conn
          \/ \E s \in {"fin", AfterReset} : conn' = [conn EXCEPT ![c] = s]
      BY <1>4 DEF WriteEcho
    <3>3. (up' = up \/ up' = FALSE) /\ i' = i + 1
      BY <1>4 DEF WriteEcho
    <3>4. conn \in [Clients -> {"idle", "open", "fin", "rst", "dead", "closed"}] /\ up \in BOOLEAN /\ i \in Nat
      BY DEF LoopTypes
    <3>5. conn' \in [Clients -> {"idle", "open", "fin", "rst", "dead", "closed"}]
      BY <3>1, <3>2, <3>4
    <3>6. up' \in BOOLEAN
      BY <3>3, <3>4, Zenon
    <3>. QED  BY <3>3, <3>4, <3>5, <3>6
  <2>3. buf' \in Seq(Nat) /\ Len(buf') <= BUF_SIZE
    BY <1>4 DEF WriteEcho
  <2>4. NetTypes'
    BY <1>4, <2>1 DEF WriteEcho, NetTypes, clients
  <2>. QED  BY <1>4, <2>2, <2>3, <2>4 DEF WriteEcho, LoopTypes, program, sets
<1>. QED  BY <1>1, <1>2, <1>3, <1>4 DEF Serve
-----------------------------------------------------------------------------
(* The descriptors.                                                        *)

\* What the end of a connection closes is a socket, on Linux that connection's.
LEMMA EofParts ==
    ASSUME LoopTypes, TurnExact, NEW c \in Clients, ReadEof(c)
    PROVE  /\ Closed \in Sources /\ Closed # NoFd /\ (~win => Closed = fdOf[c])
           /\ \A d \in Clients : fdOf[d] = Closed => fdOf'[d] = NoFd /\ conn'[d] = "closed"
           /\ \A d \in Clients : fdOf[d] # Closed =>
                  fdOf'[d] = fdOf[d] /\ conn'[d] = conn[d] /\ inq'[d] = inq[d] /\ outq'[d] = outq[d]
           /\ UNCHANGED <<win, cpy_reads, fd_num, fd_max, refused, buf, backlog>>
           /\ i' = i + 1 /\ reads' = FdClr(fdOf[c]) /\ (~misclosed' => ~misclosed /\ Closed = fdOf[c])
<1>1. /\ i \in 1..Limit /\ Slot(i) = fdOf[c] /\ fdOf[c] \in FDs /\ fdOf[c] \in News
  BY Served DEF ReadEof
<1>2. Closed \in Sources /\ (~win => Closed = fdOf[c])
  <2>1. CASE win
    <3>1. i \in 1..Len(reads) /\ reads[i] \in News
      BY <1>1, <2>1 DEF Limit, Slot
    <3>2. i \in 1..Len(cpy_reads)
      BY <2>1, <3>1, Counters DEF TurnExact
    <3>3. cpy_reads[i] \in Sources
      BY <3>2 DEF LoopTypes
    <3>. QED  BY <2>1, <3>3 DEF Closed
  <2>2. CASE ~win
    BY <1>1, <2>2 DEF Closed, Slot, Sources
  <2>. QED  BY <2>1, <2>2
<1>3. Closed # NoFd
  BY <1>2 DEF Sources
<1>. QED  BY <1>2, <1>3 DEF ReadEof, program

\* A step that leaves descriptors, the listen queue and idle clients alone.
LEMMA FdsSame ==
    ASSUME FdsExact, UNCHANGED <<fdOf, backlog, refused>>,
           \A d \in Clients : conn'[d] = "idle" <=> conn[d] = "idle"
    PROVE  FdsExact'
  BY DEF FdsExact

\* accept takes the first of the listen queue and gives it a free descriptor.
LEMMA AcceptParts ==
    ASSUME LoopTypes, FdsExact, Accept
    PROVE  \E fd \in FDs, c \in Clients :
             /\ c = Head(backlog) /\ fdOf[c] = NoFd /\ c \notin refused /\ conn[c] # "idle"
             /\ ~Open(fd) /\ \A d \in Clients : fdOf[d] # fd
             /\ fdOf' = [fdOf EXCEPT ![c] = fd]
             /\ \/ reads' = reads /\ refused' = refused \cup {c}
                \/ reads' = Append(reads, fd) /\ refused' = refused
             /\ c \notin ToSet(backlog') /\ ToSet(backlog') \subseteq ToSet(backlog)
             /\ IsInjective(backlog')
             /\ i' = i + 1 /\ buf = <<>> /\ i \in 1..Limit /\ Slot(i) = ServFd
             /\ UNCHANGED <<win, cpy_reads, fd_num, buf, conn, misclosed, inq>>
<1>1. backlog \in Seq(Clients) /\ backlog # <<>> /\ backlog' = Tail(backlog)
  BY DEF Accept, LoopTypes
<1>2. PICK fd \in FDs :
         /\ ~Open(fd) /\ fdOf' = [fdOf EXCEPT ![Head(backlog)] = fd]
         /\ \/ reads' = reads /\ refused' = refused \cup {Head(backlog)}
            \/ reads' = Append(reads, fd) /\ refused' = refused
  BY DEF Accept, FreeFds
<1>3. Head(backlog) \in Clients /\ Head(backlog) \in ToSet(backlog)
  BY <1>1, TailMembers
<1>4. /\ Head(backlog) \notin ToSet(backlog') /\ ToSet(backlog') \subseteq ToSet(backlog)
      /\ IsInjective(backlog')
  <2>1. IsInjective(backlog)
    BY DEF FdsExact
  <2>. QED  BY <1>1, <2>1, TailMembers
<1>5. fdOf[Head(backlog)] = NoFd /\ Head(backlog) \notin refused /\ conn[Head(backlog)] # "idle"
  BY <1>3 DEF FdsExact
<1>6. \A d \in Clients : fdOf[d] # fd
  BY <1>2 DEF Open
<1>7. /\ i' = i + 1 /\ buf = <<>> /\ i \in 1..Limit /\ Slot(i) = ServFd
      /\ UNCHANGED <<win, cpy_reads, fd_num, buf, conn, misclosed, inq>>
  BY DEF Accept, Serving, Scanning, program
<1>. QED  BY <1>2, <1>3, <1>4, <1>5, <1>6, <1>7

\* Every step keeps the descriptors apart.
LEMMA FdsStep ==
    ASSUME LoopTypes, FdsExact, TurnExact, [Next]_vars
    PROVE  FdsExact'
<1>1. CASE UNCHANGED vars
  BY <1>1 DEF vars, net, sets, FdsExact
<1>2. ASSUME NEW c \in Clients, Connect(c) PROVE FdsExact'
  <2>1. /\ conn[c] = "idle" /\ fdOf[c] = NoFd /\ c \notin refused
        /\ conn' = [conn EXCEPT ![c] = "open"] /\ backlog' = Append(backlog, c)
        /\ UNCHANGED <<fdOf, refused>>
    BY <1>2 DEF Connect, sets, FdsExact
  <2>2. c \notin ToSet(backlog) /\ backlog \in Seq(Clients) /\ IsInjective(backlog)
    BY <2>1 DEF FdsExact, LoopTypes
  <2>3. ToSet(backlog') = ToSet(backlog) \cup {c} /\ IsInjective(backlog')
    BY <2>1, <2>2, AppendMembers
  <2>4. \A d \in Clients : conn'[d] = IF d = c THEN "open" ELSE conn[d]
    BY <2>1 DEF LoopTypes
  <2>. QED  BY <2>1, <2>3, <2>4 DEF FdsExact
<1>3. ASSUME NEW c \in Clients, WriteLine(c) \/ ReadReply(c) \/ Leave(c) PROVE FdsExact'
  <2>1. UNCHANGED <<fdOf, backlog, refused>>
    BY <1>3 DEF WriteLine, ReadReply, Leave, sets
  <2>2. \A d \in Clients : conn'[d] = "idle" <=> conn[d] = "idle"
    BY <1>3 DEF WriteLine, ReadReply, Leave, LoopTypes
  <2>. QED  BY <2>1, <2>2, FdsSame
<1>4. CASE Select \/ SelectError \/ Skip \/ EndOfLoop \/ AcceptError \/ ReadClosed
  <2>1. UNCHANGED <<fdOf, backlog, refused, conn>>
    BY <1>4 DEF Select, SelectError, Skip, EndOfLoop, AcceptError, ReadClosed, sets, net
  <2>. QED  BY <2>1, FdsSame
<1>5. CASE Accept
  <2>1. PICK fd \in FDs, c \in Clients :
           /\ c \notin refused /\ conn[c] # "idle" /\ \A d \in Clients : fdOf[d] # fd
           /\ fdOf' = [fdOf EXCEPT ![c] = fd] /\ refused' \subseteq refused \cup {c}
           /\ c \notin ToSet(backlog') /\ ToSet(backlog') \subseteq ToSet(backlog)
           /\ IsInjective(backlog') /\ UNCHANGED conn
    BY <1>5, AcceptParts
  <2>2. \A d \in Clients : fdOf'[d] = IF d = c THEN fd ELSE fdOf[d]
    BY <2>1 DEF LoopTypes
  <2>. QED  BY <2>1, <2>2 DEF FdsExact
<1>6. ASSUME NEW c \in Clients, ReadEof(c) PROVE FdsExact'
  BY <1>6, EofParts DEF FdsExact
<1>7. ASSUME NEW c \in Clients, ReadData(c) \/ ReadReset(c) \/ WriteEcho(c) PROVE FdsExact'
  <2>1. UNCHANGED <<fdOf, backlog, refused>>
    BY <1>7 DEF ReadData, ReadReset, WriteEcho, sets
  <2>2. \A d \in Clients : conn'[d] = "idle" <=> conn[d] = "idle"
    BY <1>7 DEF ReadData, ReadReset, WriteEcho, AfterReset, LoopTypes
  <2>. QED  BY <2>1, <2>2, FdsSame
<1>. QED  BY <1>1, <1>2, <1>3, <1>4, <1>5, <1>6, <1>7 DEF Next, Server, Serve, Client

-----------------------------------------------------------------------------
(* The loop.                                                               *)

\* A step that leaves sets and descriptors alone, and counts or does not.
LEMMA TurnSame ==
    ASSUME LoopTypes, TurnExact, UNCHANGED <<win, reads, cpy_reads, fd_num, fd_max, fdOf>>,
           i' = i \/ (i > 0 /\ i' \in Nat /\ i' > i)
    PROVE  TurnExact'
<1>1. News' = News /\ FirstTurn' = FirstTurn /\ \A fd : Open(fd)' <=> Open(fd)
  BY DEF News, FirstTurn, Open
<1>2. /\ i' \in 1..FirstTurn => i \in 1..FirstTurn
      /\ win /\ i' = 1 => i = 1
  BY Counters DEF FirstTurn
<1>. QED  BY <1>1, <1>2 DEF TurnExact

\* A socket with news is open.
LEMMA ReadableOpen == \A fd : Readable(fd) => Open(fd)
  BY DEF Readable, Open

\* Every step keeps the sets and the loop's counter in step.
LEMMA TurnStep ==
    ASSUME LoopTypes, LoopTypes', FdsExact, TurnExact, HoldExact, [Next]_vars
    PROVE  TurnExact'
<1>. i \in Nat /\ Limit \in Nat
  BY Counters
<1>1. CASE UNCHANGED vars
  <2>1. UNCHANGED <<win, reads, cpy_reads, fd_num, fd_max, fdOf, i>>
    BY <1>1 DEF vars, program, scan, sets, net
  <2>. QED  BY <2>1, TurnSame
<1>2. ASSUME NEW c \in Clients, Client(c) PROVE TurnExact'
  BY <1>2, ClientFrame, TurnSame
<1>3. CASE Select
  <2>1. /\ Len(cpy_reads') = Len(reads) /\ News' = ReadyFds /\ i' = 1
        /\ UNCHANGED <<win, reads, fd_max, fdOf>>
    BY <1>3, SelectParts DEF Select, program, sets, net
  <2>2. \A fd \in News' : Open(fd)'
    <3>1. \A fd : Open(fd)' <=> Open(fd)
      BY <2>1 DEF Open
    <3>. QED  BY <2>1, <3>1, ReadableOpen DEF ReadyFds
  <2>3. ~win => \A fd \in News' : fd <= fd_max
    BY <2>1 DEF ReadyFds, Examined
  <2>. QED  BY <2>1, <2>2, <2>3, Counters DEF TurnExact
<1>4. CASE SelectError \/ AcceptError
  <2>1. UNCHANGED <<win, reads, cpy_reads, fd_num, fd_max, fdOf, i>>
    BY <1>4 DEF SelectError, AcceptError, program, scan, sets, net
  <2>. QED  BY <2>1, TurnSame
<1>5. CASE Skip
  <2>1. UNCHANGED <<win, reads, cpy_reads, fd_num, fd_max, fdOf>> /\ i > 0
    BY <1>5 DEF Skip, Scanning, program, sets, net
  <2>. QED  BY <1>5, <2>1, SkipParts, TurnSame
<1>6. CASE EndOfLoop
  <2>1. UNCHANGED <<win, reads, fdOf>> /\ i' = 0 /\ cpy_reads' = <<>> /\ fd_num' = 0
    BY <1>6 DEF EndOfLoop, program, sets, net
  <2>2. News' = {}
    BY <2>1 DEF News, ToSet
  <2>. QED  BY <2>1, <2>2 DEF TurnExact
<1>7. CASE Accept
  <2>1. PICK fd \in FDs :
           /\ ~Open(fd) /\ reads' \in {reads, Append(reads, fd)}
           /\ i' = i + 1 /\ i \in 1..Limit /\ Slot(i) = ServFd
           /\ UNCHANGED <<win, cpy_reads, fd_num>>
    BY <1>7, AcceptParts
  <2>. fd_max \in Nat /\ fd_max' \in Nat /\ fd_max <= fd_max'
    BY <1>7 DEF Accept, NewMax, FreeFds, LoopTypes, Sources
  <2>2. i \in 1..FirstTurn /\ i' \notin 1..FirstTurn' /\ ~ (win /\ i' = 1)
    <3>1. CASE win
      <4>1. i = 1
        BY <2>1, <3>1 DEF TurnExact, Slot, Limit
      <4>. QED  BY <2>1, <3>1, <4>1 DEF FirstTurn
    <3>2. CASE ~win
      <4>1. i = ServFd /\ ServFd \in Nat \ {0}
        BY <2>1, <3>2, Counters DEF Slot
      <4>. QED  BY <2>1, <3>2, <4>1 DEF FirstTurn
    <3>. QED  BY <3>1, <3>2
  <2>3. fd \notin News /\ News' = News
    BY <2>1, <2>2 DEF TurnExact, News
  <2>4. reads \in Seq(Sources) /\ reads # <<>> /\ fd # ServFd
    BY DEF LoopTypes, TurnExact
  <2>5. /\ reads' # <<>> /\ reads'[1] = ServFd
        /\ \A k \in 1..Len(reads') : (k \in 1..Len(reads) /\ reads'[k] = reads[k]) \/ reads'[k] = fd
    BY <2>1, <2>4 DEF TurnExact
  <2>6. ASSUME ~win', NEW g \in News' PROVE g <= fd_max'
    <3>1. g \in Nat /\ g <= fd_max
      BY <2>1, <2>3, <2>6, NewsTypes DEF TurnExact, Sources
    <3>. QED  BY <3>1
  <2>. QED  BY <2>1, <2>2, <2>3, <2>4, <2>5, <2>6 DEF TurnExact
<1>8. ASSUME NEW c \in Clients, ReadEof(c) PROVE TurnExact'
  <2>1. /\ i \in 1..Limit /\ Slot(i) = fdOf[c] /\ fdOf[c] \in FDs
        /\ UNCHANGED <<win, cpy_reads, fd_num, fd_max>> /\ i' = i + 1 /\ reads' = FdClr(fdOf[c])
    BY <1>8, Served, EofParts DEF ReadEof
  <2>2. i' \notin 1..FirstTurn' /\ ~ (win /\ i' = 1)
    <3>1. CASE win
      BY <2>1, <3>1 DEF FirstTurn
    <3>2. CASE ~win
      <4>1. i = fdOf[c] /\ ServFd < i /\ ServFd \in Nat
        BY <2>1, <3>2, Counters DEF Slot
      <4>. QED  BY <2>1, <3>2, <4>1 DEF FirstTurn
    <3>. QED  BY <3>1, <3>2
  <2>3. /\ reads' # <<>> /\ reads'[1] = ServFd
        /\ \A k \in 1..Len(reads') : \E m \in k..Len(reads) : reads'[k] = reads[m]
    BY <2>1, ClrParts
  <2>4. \A k \in 1..Len(reads') : reads'[k] = ServFd => k = 1
    BY <2>3, Counters DEF TurnExact
  <2>5. News' = News
    BY <2>1 DEF News
  <2>6. ASSUME NEW k \in 1..Len(reads'), win, k > Len(cpy_reads) PROVE reads'[k] \notin News
    <3>1. PICK m \in k..Len(reads) : reads'[k] = reads[m]
      BY <2>3
    <3>2. m \in 1..Len(reads) /\ m > Len(cpy_reads)
      BY <2>6, Counters
    <3>. QED  BY <2>6, <3>1, <3>2 DEF TurnExact
  <2>. QED  BY <2>1, <2>2, <2>3, <2>4, <2>5, <2>6 DEF TurnExact
<1>9. ASSUME NEW c \in Clients, ReadData(c) \/ ReadReset(c) \/ WriteEcho(c) PROVE TurnExact'
  <2>1. UNCHANGED <<win, reads, cpy_reads, fd_num, fd_max, fdOf>>
    BY <1>9 DEF ReadData, ReadReset, WriteEcho, program, scan, sets, net
  <2>2. i' = i \/ (i > 0 /\ i' = i + 1)
    BY <1>9 DEF ReadData, ReadReset, WriteEcho, Serving, Scanning, scan, HoldExact
  <2>. QED  BY <2>1, <2>2, TurnSame
<1>10. CASE ReadClosed
  <2>1. UNCHANGED <<win, reads, cpy_reads, fd_num, fd_max, fdOf>> /\ i > 0 /\ i' = i + 1
    BY <1>10 DEF ReadClosed, Scanning, program, sets, net
  <2>. QED  BY <2>1, TurnSame
<1>. QED  BY <1>1, <1>2, <1>3, <1>4, <1>5, <1>6, <1>7, <1>8, <1>9, <1>10 DEF Next, Server, Serve
\* Every step keeps what the loop holds with the socket it is at.
LEMMA HoldStep ==
    ASSUME LoopTypes, HoldExact, [Next]_vars
    PROVE  HoldExact'
<1>. i \in Nat /\ Limit \in Nat
  BY Counters
<1>1. ASSUME UNCHANGED <<win, reads, fd_max, i, buf>> PROVE HoldExact'
  BY <1>1 DEF HoldExact, Limit, Slot
<1>2. CASE UNCHANGED vars
  BY <1>1, <1>2 DEF vars, program, scan, sets
<1>3. ASSUME NEW c \in Clients, Client(c) PROVE HoldExact'
  BY <1>1, <1>3, ClientFrame
<1>4. CASE SelectError \/ AcceptError
  BY <1>1, <1>4 DEF SelectError, AcceptError, program, scan, sets
<1>5. CASE Select \/ EndOfLoop
  <2>1. buf = <<>> /\ buf' = buf
    BY <1>5 DEF Select, EndOfLoop, HoldExact
  <2>. QED  BY <2>1 DEF HoldExact
<1>6. CASE Skip \/ Accept \/ ReadClosed
  <2>1. buf = <<>> /\ buf' = buf
    BY <1>6 DEF Skip, Accept, ReadClosed, Serving, Scanning
  <2>. QED  BY <2>1 DEF HoldExact
<1>7. ASSUME NEW c \in Clients, ReadEof(c) \/ ReadReset(c) PROVE HoldExact'
  <2>1. buf = <<>> /\ buf' = buf
    BY <1>7 DEF ReadEof, ReadReset, Serving, Scanning
  <2>. QED  BY <2>1 DEF HoldExact
<1>8. ASSUME NEW c \in Clients, ReadData(c) PROVE HoldExact'
  <2>1. i \in 1..Limit /\ Slot(i) = fdOf[c] /\ fdOf[c] \in FDs
    BY <1>8, Served DEF ReadData
  <2>2. UNCHANGED <<win, reads, fd_max, i>>
    BY <1>8 DEF ReadData, program, scan, sets
  <2>. QED  BY <2>1, <2>2 DEF HoldExact, Limit, Slot
<1>9. ASSUME NEW c \in Clients, WriteEcho(c) PROVE HoldExact'
  BY <1>9 DEF WriteEcho, HoldExact
<1>. QED  BY <1>2, <1>3, <1>4, <1>5, <1>6, <1>7, <1>8, <1>9 DEF Next, Server, Serve

\* Only ReadEof closes, and on Linux what it should.
LEMMA LinuxStep ==
    ASSUME LoopTypes, TurnExact, LinuxExact, [Next]_vars
    PROVE  LinuxExact'
<1>1. CASE UNCHANGED vars
  BY <1>1 DEF vars, program, LinuxExact
<1>2. ASSUME NEW c \in Clients, Client(c) PROVE LinuxExact'
  BY <1>2, ClientFrame DEF LinuxExact
<1>3. CASE Select \/ SelectError \/ Skip \/ EndOfLoop \/ Accept \/ AcceptError \/ ReadClosed
  BY <1>3 DEF Select, SelectError, Skip, EndOfLoop, Accept, AcceptError, ReadClosed, program, LinuxExact
<1>4. ASSUME NEW c \in Clients, ReadData(c) \/ ReadReset(c) \/ WriteEcho(c) PROVE LinuxExact'
  BY <1>4 DEF ReadData, ReadReset, WriteEcho, program, LinuxExact
<1>5. ASSUME NEW c \in Clients, ReadEof(c) PROVE LinuxExact'
  <2>1. misclosed' = (misclosed \/ Closed # fdOf[c]) /\ win' = win
    BY <1>5 DEF ReadEof, program
  <2>2. ~win => Closed = fdOf[c]
    BY <1>5, EofParts
  <2>. QED  BY <2>1, <2>2 DEF LinuxExact
<1>. QED  BY <1>1, <1>2, <1>3, <1>4, <1>5 DEF Next, Server, Serve

-----------------------------------------------------------------------------
(* The watched set and its snapshot.                                       *)

\* The sockets that should be watched.
Watched == {ServFd} \cup {fdOf[c] : c \in {d \in Clients \ refused : fdOf[d] # NoFd}}

\* A socket is watched exactly if it is the listener, or of a connection that
\* was not refused.
LEMMA WatchedExact ==
    /\ \A fd : fd \in Watched <=>
          fd = ServFd \/ \E c \in Clients : c \notin refused /\ fdOf[c] # NoFd /\ fdOf[c] = fd
    /\ (\A fd : fd \in Watched <=>
          fd = ServFd \/ \E c \in Clients : c \notin refused /\ fdOf[c] # NoFd /\ fdOf[c] = fd)'
  BY DEF Watched

\* Every step keeps exactly the open sockets watched.
LEMMA ReadsStep ==
    ASSUME LoopTypes, FdsExact, TurnExact, ReadsExact, [Next]_vars
    PROVE  ReadsExact'
<1>1. ASSUME UNCHANGED <<reads, fdOf, refused, misclosed>> PROVE ReadsExact'
  BY <1>1 DEF ReadsExact
<1>2. CASE UNCHANGED vars
  BY <1>1, <1>2 DEF vars, sets, net
<1>3. ASSUME NEW c \in Clients, Client(c) PROVE ReadsExact'
  BY <1>1, <1>3, ClientFrame
<1>4. CASE Select \/ SelectError \/ Skip \/ EndOfLoop \/ AcceptError \/ ReadClosed
  BY <1>1, <1>4 DEF Select, SelectError, Skip, EndOfLoop, AcceptError, ReadClosed, sets, net
<1>5. ASSUME NEW c \in Clients, ReadData(c) \/ ReadReset(c) \/ WriteEcho(c) PROVE ReadsExact'
  BY <1>1, <1>5 DEF ReadData, ReadReset, WriteEcho, sets
<1>6. CASE Accept
  <2>1. SUFFICES ASSUME ~misclosed' PROVE IsInjective(reads') /\ ToSet(reads') = Watched'
    BY DEF ReadsExact, Watched
  <2>2. PICK fd \in FDs, c \in Clients :
           /\ fdOf[c] = NoFd /\ c \notin refused /\ \A d \in Clients : fdOf[d] # fd
           /\ fdOf' = [fdOf EXCEPT ![c] = fd]
           /\ \/ reads' = reads /\ refused' = refused \cup {c}
              \/ reads' = Append(reads, fd) /\ refused' = refused
           /\ UNCHANGED misclosed
    BY <1>6, AcceptParts
  <2>3. IsInjective(reads) /\ ToSet(reads) = Watched
    BY <2>1, <2>2 DEF ReadsExact, Watched
  <2>4. \A d \in Clients : fdOf'[d] = IF d = c THEN fd ELSE fdOf[d]
    BY <2>2 DEF LoopTypes
  <2>5. fd # ServFd /\ fd # NoFd /\ fd \in Sources
    BY DEF Sources
  <2>6. fd \notin ToSet(reads)
    BY <2>2, <2>3, <2>5, WatchedExact
  <2>7. CASE reads' = reads /\ refused' = refused \cup {c}
    <3>1. \A d \in Clients : d \notin refused' => d \notin refused /\ fdOf'[d] = fdOf[d]
      BY <2>4, <2>7
    <3>2. \A d \in Clients : d \notin refused /\ fdOf[d] # NoFd => d \notin refused' /\ fdOf'[d] = fdOf[d]
      BY <2>2, <2>4, <2>7
    <3>3. \A g : g \in Watched' <=> g \in Watched
      BY <3>1, <3>2, WatchedExact
    <3>. QED  BY <2>3, <2>7, <3>3
  <2>8. CASE reads' = Append(reads, fd) /\ refused' = refused
    <3>1. ToSet(reads') = ToSet(reads) \cup {fd} /\ IsInjective(reads')
      BY <2>3, <2>5, <2>6, <2>8, AppendMembers DEF LoopTypes
    <3>2. \A g : g \in Watched' <=> g \in Watched \/ g = fd
      BY <2>2, <2>4, <2>5, <2>8, WatchedExact
    <3>. QED  BY <2>3, <3>1, <3>2
  <2>. QED  BY <2>2, <2>7, <2>8
<1>7. ASSUME NEW c \in Clients, ReadEof(c) PROVE ReadsExact'
  <2>1. SUFFICES ASSUME ~misclosed' PROVE IsInjective(reads') /\ ToSet(reads') = Watched'
    BY DEF ReadsExact, Watched
  <2>2. /\ Closed = fdOf[c] /\ ~misclosed /\ reads' = FdClr(fdOf[c]) /\ refused' = refused
        /\ \A d \in Clients : fdOf[d] = fdOf[c] => fdOf'[d] = NoFd
        /\ \A d \in Clients : fdOf[d] # fdOf[c] => fdOf'[d] = fdOf[d]
    BY <1>7, <2>1, EofParts
  <2>3. fdOf[c] \in FDs /\ fdOf[c] # ServFd
    BY <1>7, Served DEF ReadEof
  <2>4. IsInjective(reads) /\ ToSet(reads) = Watched
    BY <2>2 DEF ReadsExact, Watched
  <2>5. IsInjective(reads') /\ ToSet(reads') = ToSet(reads) \ {fdOf[c]}
    BY <2>2, <2>3, <2>4, ClrParts
  <2>6. \A g : g \in Watched' <=> g \in Watched /\ g # fdOf[c]
    BY <2>2, <2>3, WatchedExact
  <2>. QED  BY <2>4, <2>5, <2>6
<1>. QED  BY <1>2, <1>3, <1>4, <1>5, <1>6, <1>7 DEF Next, Server, Serve

\* The first entry that the loop has not read from in this pass.
First == IF buf = <<>> THEN i ELSE i + 1

\* The reads that are to come in this pass do not block.
Ahead == \A k \in First..Limit : Slot(k) \in News => Readable(Slot(k))

LEMMA AheadExact ==
    /\ NeverBlocksOnRead <=> (i > 0 /\ ~misclosed => Ahead)
    /\ NeverBlocksOnRead' <=> (i' > 0 /\ ~misclosed' => Ahead')
  BY DEF NeverBlocksOnRead, Ahead, First, FdIsSet, News

\* A step that only goes on, and takes no news away, leaves the rest as it was.
LEMMA AheadSame ==
    ASSUME LoopTypes, LoopTypes', NeverBlocksOnRead, i > 0, First' >= First,
           UNCHANGED <<win, reads, fd_max, cpy_reads, fd_num, misclosed>>,
           \A fd : Readable(fd) => Readable(fd)'
    PROVE  NeverBlocksOnRead'
<1>1. Limit' = Limit /\ News' = News /\ \A k : Slot(k)' = Slot(k)
  BY DEF Limit, News, Slot
<1>2. First \in Nat /\ First' \in Nat /\ Limit \in Nat
  <2>1. i \in Nat /\ i' \in Nat /\ Limit \in Nat
    BY Counters DEF LoopTypes
  <2>2. \A n \in Nat : n + 1 \in Nat
    OBVIOUS
  <2>. QED  BY <2>1, <2>2, Zenon DEF First
<1>3. SUFFICES ASSUME ~misclosed PROVE Ahead'
  BY AheadExact
<1>4. Ahead
  BY <1>3, AheadExact
<1>5. ASSUME NEW k \in First'..Limit', Slot(k)' \in News' PROVE Readable(Slot(k))'
  <2>1. k \in First..Limit /\ Slot(k) \in News
    BY <1>1, <1>2, <1>5
  <2>2. PICK fd : fd = Slot(k) /\ fd = Slot(k)'
    BY <1>1
  <2>3. Readable(fd)
    BY <1>4, <2>1, <2>2 DEF Ahead
  <2>. QED  BY <2>2, <2>3
<1>. QED  BY <1>5 DEF Ahead
\* Of sockets that stay a connection's, what makes them readable stays.
LEMMA ReadableClient ==
    ASSUME LoopTypes, NetTypes, NEW c \in Clients, Client(c)
    PROVE  \A fd : Readable(fd) => Readable(fd)'
<1>1. \A d \in Clients : conn[d] \in {"fin", "rst", "dead"} => conn'[d] = conn[d]
  BY DEF Client, Connect, WriteLine, ReadReply, Leave, LoopTypes
<1>2. \A d \in Clients : inq[d] # <<>> => inq'[d] # <<>>
  <2>1. CASE WriteLine(c)
    <3>1. PICK n \in 1..MaxLine : inq' = [inq EXCEPT ![c] = @ \o [k \in 1..n |-> sent[c] + k]]
      BY <2>1 DEF WriteLine
    <3>2. inq[c] \in Seq(Nat) /\ sent[c] \in Nat /\ n \in Nat
      BY DEF NetTypes
    <3>3. [k \in 1..n |-> sent[c] + k] \in Seq(Nat)
      BY <3>2
    <3>4. \A q, r \in Seq(Nat) : q # <<>> => q \o r # <<>>
      OBVIOUS
    <3>5. inq[c] # <<>> => inq[c] \o [k \in 1..n |-> sent[c] + k] # <<>>
      BY <3>2, <3>3, <3>4
    <3>. QED  BY <3>1, <3>5 DEF NetTypes
  <2>2. CASE Connect(c) \/ ReadReply(c) \/ Leave(c)
    BY <2>2 DEF Connect, ReadReply, Leave
  <2>. QED  BY <2>1, <2>2 DEF Client
<1>3. backlog # <<>> => backlog' # <<>>
  <2>1. backlog \in Seq(Clients)
    BY DEF LoopTypes
  <2>2. Append(backlog, c) # <<>>
    BY <2>1
  <2>. QED  BY <2>2 DEF Client, Connect, WriteLine, ReadReply, Leave
<1>4. fdOf' = fdOf
  BY ClientFrame
<1>. QED  BY <1>1, <1>2, <1>3, <1>4 DEF Readable

\* Every step but those that change the set or take news away.
LEMMA AheadQuiet ==
    ASSUME NetTypes, LoopTypes, LoopTypes', HoldExact, NeverBlocksOnRead,
           \/ UNCHANGED vars \/ SelectError \/ Skip \/ EndOfLoop \/ AcceptError \/ ReadClosed
           \/ \E c \in Clients : Client(c) \/ ReadReset(c) \/ WriteEcho(c)
    PROVE  NeverBlocksOnRead'
<1>. i \in Nat /\ i' \in Nat
  BY Counters DEF LoopTypes
<1>1. ASSUME i' = 0 PROVE NeverBlocksOnRead'
  BY <1>1, AheadExact
<1>2. ASSUME UNCHANGED <<win, reads, fd_max, cpy_reads, fd_num, misclosed, i, buf>>,
             \A fd : Readable(fd) => Readable(fd)'
      PROVE  NeverBlocksOnRead'
  <2>1. CASE i = 0
    BY <1>1, <1>2, <2>1
  <2>2. CASE i # 0
    <3>1. i > 0 /\ First' >= First
      BY <1>2, <2>2 DEF First
    <3>. QED  BY <1>2, <3>1, AheadSame
  <2>. QED  BY <2>1, <2>2
<1>3. ASSUME UNCHANGED <<fdOf, inq, conn, backlog>> PROVE \A fd : Readable(fd) => Readable(fd)'
  BY <1>3 DEF Readable
<1>4. CASE UNCHANGED vars \/ SelectError \/ AcceptError
  <2>1. /\ UNCHANGED <<win, reads, fd_max, cpy_reads, fd_num, misclosed, i, buf>>
        /\ UNCHANGED <<fdOf, inq, conn, backlog>>
    BY <1>4 DEF vars, SelectError, AcceptError, program, scan, sets, net
  <2>. QED  BY <1>2, <1>3, <2>1
<1>5. CASE EndOfLoop
  BY <1>1, <1>5 DEF EndOfLoop
<1>6. CASE Skip \/ ReadClosed
  <2>1. /\ UNCHANGED <<win, reads, fd_max, cpy_reads, fd_num, misclosed>> /\ i > 0
        /\ UNCHANGED <<fdOf, inq, conn, backlog>> /\ buf = <<>> /\ buf' = <<>>
    BY <1>6 DEF Skip, ReadClosed, Scanning, program, sets, net
  <2>2. i' > i
    BY <1>6, SkipParts DEF ReadClosed
  <2>3. First' >= First
    BY <2>1, <2>2 DEF First
  <2>. QED  BY <1>3, <2>1, <2>3, AheadSame
<1>7. ASSUME NEW c \in Clients, Client(c) PROVE NeverBlocksOnRead'
  BY <1>2, <1>7, ClientFrame, ReadableClient
<1>8. ASSUME NEW c \in Clients, ReadReset(c) \/ WriteEcho(c) PROVE NeverBlocksOnRead'
  <2>1. /\ UNCHANGED <<win, reads, fd_max, cpy_reads, fd_num, misclosed>> /\ i > 0
        /\ UNCHANGED <<fdOf, inq, backlog>> /\ i' = i + 1 /\ buf' = <<>>
    <3>1. CASE ReadReset(c)
      BY <3>1 DEF ReadReset, Serving, Scanning, program, sets
    <3>2. CASE WriteEcho(c)
      BY <3>2 DEF WriteEcho, HoldExact, program, sets
    <3>. QED  BY <1>8, <3>1, <3>2
  <2>2. \A d \in Clients : conn[d] \in {"fin", "rst", "dead"} => conn'[d] \in {"fin", "rst", "dead"}
    BY <1>8 DEF ReadReset, WriteEcho, AfterReset, LoopTypes
  <2>3. \A fd : Readable(fd) => Readable(fd)'
    BY <2>1, <2>2 DEF Readable
  <2>4. First' >= First
    BY <2>1 DEF First
  <2>. QED  BY <2>1, <2>3, <2>4, AheadSame
<1>. QED  BY <1>4, <1>5, <1>6, <1>7, <1>8

\* What select reports has news.
LEMMA AheadSelect ==
    ASSUME LoopTypes, Select
    PROVE  NeverBlocksOnRead'
<1>1. News' = ReadyFds /\ UNCHANGED <<fdOf, inq, conn, backlog>>
  BY SelectParts DEF Select, net
<1>2. \A fd : Readable(fd) => Readable(fd)'
  BY <1>1 DEF Readable
<1>3. ASSUME NEW k \in First'..Limit', Slot(k)' \in News' PROVE Readable(Slot(k))'
  <2>1. PICK fd : fd = Slot(k)'
    OBVIOUS
  <2>2. Readable(fd)
    BY <1>1, <1>3, <2>1 DEF ReadyFds
  <2>. QED  BY <1>2, <2>1, <2>2
<1>. QED  BY <1>3, AheadExact DEF Ahead

\* The listener is not ahead of itself, and a new connection was not reported.
LEMMA AheadAccept ==
    ASSUME SetInv, LoopTypes', Accept
    PROVE  NeverBlocksOnRead'
<1>. LoopTypes /\ FdsExact /\ TurnExact /\ NeverBlocksOnRead /\ i \in Nat /\ Limit \in Nat
  BY Counters DEF SetInv
<1>1. PICK fd \in FDs, c \in Clients :
         /\ fdOf[c] = NoFd /\ ~Open(fd) /\ fdOf' = [fdOf EXCEPT ![c] = fd]
         /\ reads' \in {reads, Append(reads, fd)}
         /\ i' = i + 1 /\ buf = <<>> /\ i \in 1..Limit /\ Slot(i) = ServFd
         /\ UNCHANGED <<win, cpy_reads, fd_num, buf, conn, misclosed, inq>>
  BY AcceptParts
<1>2. SUFFICES ASSUME ~misclosed PROVE Ahead'
  BY <1>1, AheadExact
<1>3. Ahead /\ First = i /\ First' = i + 1
  BY <1>1, <1>2, AheadExact DEF First
<1>4. i \in 1..FirstTurn /\ \A k \in (i + 1)..Limit : Slot(k) # ServFd
  <2>1. CASE win
    <3>1. i = 1 /\ \A k \in 2..Limit : Slot(k) # ServFd
      BY <1>1, <2>1, Counters DEF TurnExact, Slot, Limit
    <3>. QED  BY <2>1, <3>1 DEF FirstTurn
  <2>2. CASE ~win
    <3>1. i = ServFd /\ ServFd \in Nat \ {0}
      BY <1>1, <2>2, Counters DEF Slot
    <3>2. \A k \in (i + 1)..Limit : Slot(k) = k /\ k # i
      BY <2>2 DEF Slot
    <3>. QED  BY <2>2, <3>1, <3>2 DEF FirstTurn
  <2>. QED  BY <2>1, <2>2
<1>5. fd \notin News /\ News' = News /\ fd # ServFd
  BY <1>1, <1>4 DEF TurnExact, News
<1>6. ASSUME NEW k \in First'..Limit', Slot(k)' \in News' PROVE Readable(Slot(k))'
  <2>1. PICK g : g = Slot(k)' /\ g \in News /\ g # NoFd
    <3>1. Slot(k)' \in Sources
      BY <1>5, <1>6, NewsTypes
    <3>. QED  BY <1>5, <1>6, <3>1 DEF Sources
  <2>2. k \in (i + 1)..Limit /\ g = Slot(k)
    <3>1. CASE win
      <4>1. reads \in Seq(Sources) /\ k \in (i + 1)..Len(reads') /\ g = reads'[k] /\ win'
        BY <1>1, <1>3, <1>6, <2>1, <3>1 DEF LoopTypes, Limit, Slot
      <4>2. k \in 1..Len(reads')
        BY <1>1, <4>1
      <4>3. k \in 1..Len(reads) /\ g = reads[k]
        <5>1. CASE reads' = reads
          BY <4>1, <4>2, <5>1
        <5>2. CASE reads' = Append(reads, fd)
          BY <1>5, <2>1, <4>1, <4>2, <5>2
        <5>. QED  BY <1>1, <5>1, <5>2
      <4>. QED  BY <3>1, <4>1, <4>3 DEF Limit, Slot
    <3>2. CASE ~win
      <4>1. g = k /\ k \in (i + 1)..fd_max' /\ ~win'
        BY <1>1, <1>3, <1>6, <2>1, <3>2 DEF Limit, Slot
      <4>2. g <= fd_max /\ fd_max \in Nat
        BY <2>1, <3>2 DEF TurnExact, LoopTypes, Sources
      <4>. QED  BY <3>2, <4>1, <4>2 DEF Limit, Slot
    <3>. QED  BY <3>1, <3>2
  <2>3. Readable(g) /\ g # ServFd
    BY <1>3, <1>4, <2>1, <2>2 DEF Ahead
  <2>4. \A d \in Clients : fdOf[d] = g => fdOf'[d] = g
    BY <1>1, <2>1 DEF LoopTypes
  <2>5. Readable(g)'
    BY <1>1, <2>3, <2>4 DEF Readable
  <2>. QED  BY <2>1, <2>5
<1>. QED  BY <1>6 DEF Ahead
\* The loop comes to a socket once in a pass.
LEMMA SlotOnce ==
    ASSUME LoopTypes, ReadsExact, ~misclosed, i \in 1..Limit, NEW k \in (i + 1)..Limit
    PROVE  Slot(k) # Slot(i)
<1>. i \in Nat /\ Limit \in Nat
  BY Counters
<1>1. CASE win
  <2>1. \A x, y \in 1..Len(reads) : reads[x] = reads[y] => x = y
    BY ToSetByIndex DEF ReadsExact, LoopTypes
  <2>2. i \in 1..Len(reads) /\ k \in 1..Len(reads) /\ k # i
    BY <1>1 DEF Limit
  <2>. QED  BY <1>1, <2>1, <2>2 DEF Slot
<1>2. CASE ~win
  BY <1>2 DEF Slot
<1>. QED  BY <1>1, <1>2

\* A read takes news from the socket the loop is at.
LEMMA AheadReadData ==
    ASSUME SetInv, NEW c \in Clients, ReadData(c)
    PROVE  NeverBlocksOnRead'
<1>. LoopTypes /\ NetTypes /\ ReadsExact /\ NeverBlocksOnRead /\ i \in Nat /\ Limit \in Nat
  BY Counters DEF SetInv
<1>1. /\ i \in 1..Limit /\ Slot(i) = fdOf[c] /\ buf = <<>> /\ inq[c] # <<>>
      /\ buf' = SubSeq(inq[c], 1, ReadLen(c))
      /\ \A d \in Clients : d # c => inq'[d] = inq[d]
      /\ UNCHANGED <<win, reads, fd_max, cpy_reads, fd_num, misclosed, i, fdOf, conn, backlog>>
  BY Served DEF ReadData, NetTypes, program, scan, sets
<1>2. buf' # <<>>
  BY <1>1, ReadParts
<1>3. SUFFICES ASSUME ~misclosed PROVE Ahead'
  BY <1>1, AheadExact
<1>4. Ahead /\ First = i /\ First' = i + 1
  BY <1>1, <1>2, <1>3, AheadExact DEF First
<1>5. Limit' = Limit /\ News' = News
  BY <1>1 DEF Limit, News
<1>6. ASSUME NEW k \in First'..Limit', Slot(k)' \in News' PROVE Readable(Slot(k))'
  <2>1. PICK g : g = Slot(k)' /\ g = Slot(k)
    BY <1>1 DEF Slot
  <2>2. k \in (i + 1)..Limit /\ k \in First..Limit
    BY <1>4, <1>5
  <2>3. g # fdOf[c]
    BY <1>1, <1>3, <2>1, <2>2, SlotOnce
  <2>4. Readable(g)
    BY <1>4, <1>5, <1>6, <2>1, <2>2 DEF Ahead
  <2>5. Readable(g)'
    BY <1>1, <2>3, <2>4 DEF Readable
  <2>. QED  BY <2>1, <2>5
<1>. QED  BY <1>6 DEF Ahead

\* Where one socket leaves the set, the others keep their turn.
LEMMA AheadReadEof ==
    ASSUME SetInv, NEW c \in Clients, ReadEof(c)
    PROVE  NeverBlocksOnRead'
<1>. LoopTypes /\ TurnExact /\ ReadsExact /\ NeverBlocksOnRead /\ i \in Nat /\ Limit \in Nat
  BY Counters DEF SetInv
<1>1. SUFFICES ASSUME ~misclosed' PROVE Ahead'
  BY AheadExact
<1>2. /\ i \in 1..Limit /\ Slot(i) = fdOf[c] /\ fdOf[c] \in FDs /\ buf = <<>>
  BY Served DEF ReadEof
<1>3. /\ ~misclosed /\ reads' = FdClr(fdOf[c]) /\ i' = i + 1 /\ buf' = buf
      /\ UNCHANGED <<win, fd_max, cpy_reads, fd_num, backlog>>
      /\ \A d \in Clients : fdOf[d] # fdOf[c] =>
             fdOf'[d] = fdOf[d] /\ conn'[d] = conn[d] /\ inq'[d] = inq[d]
  BY <1>1, EofParts
<1>4. Ahead /\ First = i /\ First' = i + 1 /\ News' = News
  BY <1>2, <1>3, AheadExact DEF First, News
<1>5. ASSUME NEW k \in First'..Limit', Slot(k)' \in News' PROVE Readable(Slot(k))'
  <2>1. PICK g : g = Slot(k)'
    OBVIOUS
  <2>2. \E m \in (i + 1)..Limit : g = Slot(m)
    <3>1. CASE win
      <4>1. k \in (i + 1)..Len(reads') /\ g = reads'[k]
        BY <1>3, <1>4, <1>5, <2>1, <3>1 DEF Limit, Slot
      <4>2. k \in 1..Len(reads')
        BY <4>1
      <4>3. PICK m \in k..Len(reads) : reads'[k] = reads[m]
        BY <1>2, <1>3, <4>2, ClrParts
      <4>4. m \in (i + 1)..Len(reads)
        BY <4>1, <4>3
      <4>. QED  BY <3>1, <4>1, <4>3, <4>4 DEF Limit, Slot
    <3>2. CASE ~win
      BY <1>3, <1>4, <1>5, <2>1, <3>2 DEF Limit, Slot
    <3>. QED  BY <3>1, <3>2
  <2>3. PICK m \in (i + 1)..Limit : g = Slot(m)
    BY <2>2
  <2>4. g # fdOf[c]
    BY <1>2, <1>3, <2>3, SlotOnce
  <2>5. Readable(g)
    <3>1. m \in First..Limit
      BY <1>4, <2>3
    <3>. QED  BY <1>4, <1>5, <2>1, <2>3, <3>1 DEF Ahead
  <2>6. Readable(g)'
    BY <1>3, <2>4, <2>5 DEF Readable
  <2>. QED  BY <2>1, <2>6
<1>. QED  BY <1>5 DEF Ahead

-----------------------------------------------------------------------------
\* The initial states.
LEMMA SetInit ==
    ASSUME Init
    PROVE  SetInv
<1>1. NetTypes
  BY DEF Init, NetTypes
<1>2. LoopTypes
  <2>1. <<ServFd>> \in Seq(Sources) /\ <<>> \in Seq(Sources) /\ <<>> \in Seq(Clients)
    BY DEF Sources
  <2>2. Len(<<>>) = 0 /\ <<>> \in Seq(Nat)
    OBVIOUS
  <2>3. /\ reads \in Seq(Sources) /\ cpy_reads \in Seq(Sources) /\ backlog \in Seq(Clients)
        /\ buf \in Seq(Nat) /\ Len(buf) <= BUF_SIZE /\ fd_num \in 0..Len(cpy_reads)
    BY <2>1, <2>2 DEF Init
  <2>4. win \in BOOLEAN /\ up \in BOOLEAN /\ misclosed \in BOOLEAN
    BY Zenon DEF Init
  <2>5. FD_SETSIZE \in SetSizes \cup {0} /\ fd_max \in Sources /\ i \in Nat
    BY DEF Init, Sources
  <2>6. /\ fdOf \in [Clients -> FDs \cup {NoFd}] /\ refused \subseteq Clients
        /\ conn \in [Clients -> {"idle", "open", "fin", "rst", "dead", "closed"}]
    BY DEF Init
  <2>. QED  BY <2>3, <2>4, <2>5, <2>6 DEF LoopTypes
<1>3. FdsExact
  BY DEF Init, FdsExact, ToSet, IsInjective
<1>4. News = {} /\ Len(reads) = 1 /\ reads[1] = ServFd /\ reads # <<>> /\ i = 0
  BY DEF Init, News, ToSet
<1>5. TurnExact
  BY <1>4 DEF TurnExact, FirstTurn
<1>6. HoldExact /\ LinuxExact
  BY DEF Init, HoldExact, LinuxExact
<1>7. ReadsExact
  <2>1. IsInjective(reads) /\ ToSet(reads) = {ServFd}
    <3>1. reads = <<ServFd>> /\ DOMAIN <<ServFd>> = {1}
      BY DEF Init
    <3>. QED  BY <3>1 DEF IsInjective, ToSet
  <2>2. {c \in Clients \ refused : fdOf[c] # NoFd} = {}
    BY DEF Init
  <2>. QED  BY <2>1, <2>2 DEF ReadsExact
<1>8. NeverBlocksOnRead
  BY <1>4 DEF NeverBlocksOnRead
<1>. QED  BY <1>1, <1>2, <1>3, <1>5, <1>6, <1>7, <1>8 DEF SetInv

\* Every step keeps the types.
LEMMA TypeStep ==
    ASSUME NetTypes, LoopTypes, TurnExact, [Next]_vars
    PROVE  NetTypes' /\ LoopTypes'
<1>1. CASE UNCHANGED vars
  <2>1. NetTypes'
    BY <1>1 DEF vars, net, clients, NetTypes
  <2>. QED  BY <1>1, <2>1 DEF vars, program, scan, sets, net, LoopTypes
<1>. QED  BY <1>1, TypeClient, TypeLoop, TypeServe DEF Next, Server

\* Every step keeps the invariant.
LEMMA SetStep ==
    ASSUME SetInv, [Next]_vars
    PROVE  SetInv'
<1>1. /\ NetTypes /\ LoopTypes /\ FdsExact /\ TurnExact /\ HoldExact /\ LinuxExact /\ ReadsExact
      /\ NeverBlocksOnRead
  BY DEF SetInv
<1>2. NetTypes' /\ LoopTypes'
  BY <1>1, TypeStep
<1>3. FdsExact' /\ TurnExact' /\ HoldExact' /\ LinuxExact' /\ ReadsExact'
  BY <1>1, <1>2, FdsStep, TurnStep, HoldStep, LinuxStep, ReadsStep
<1>4. NeverBlocksOnRead'
  BY <1>1, <1>2, AheadQuiet, AheadSelect, AheadAccept, AheadReadData, AheadReadEof DEF Next, Server, Serve
<1>. QED  BY <1>2, <1>3, <1>4 DEF SetInv

\* While the set changes under the loop, exactly the open sockets that were
\* not refused are watched, each once, and no read of a socket that the
\* snapshot calls readable has to wait: until a wrong socket is closed.
THEOREM SetIsExact == Spec => []SetExact
<1>1. SetInv => SetExact
  BY TypeParts DEF SetInv, SetExact
<1>2. Init => SetInv
  BY SetInit
<1>3. SetInv /\ [Next]_vars => SetInv'
  BY SetStep
<1>. QED  BY <1>1, <1>2, <1>3, PTL DEF Spec

\* What a step closes.
EndedClosed ==
    \A c \in Clients : conn'[c] = "closed" /\ conn[c] # "closed" =>
        conn[c] \in {"fin", "dead"} /\ inq[c] = <<>>

\* The Linux program, of the two, closes no connection that has not ended.
THEOREM LinuxClosesEnded == Spec /\ ~win => OnlyEndedClosed
<1>1. ASSUME SetInv, ~win, [Next]_vars PROVE EndedClosed
  <2>. LoopTypes /\ FdsExact /\ TurnExact
    BY <1>1 DEF SetInv
  <2>1. ASSUME NEW d \in Clients, ReadEof(d) PROVE EndedClosed
    <3>1. Closed = fdOf[d] /\ fdOf[d] # NoFd
      BY <1>1, <2>1, EofParts
    <3>2. \A c \in Clients : c # d => fdOf[c] # fdOf[d]
      BY <3>1 DEF FdsExact
    <3>3. \A c \in Clients : c # d => conn'[c] = conn[c]
      BY <2>1, <3>1, <3>2, EofParts
    <3>4. conn[d] \in {"fin", "dead"} /\ inq[d] = <<>>
      BY <2>1 DEF ReadEof
    <3>. QED  BY <3>3, <3>4 DEF EndedClosed
  <2>2. ASSUME \A c \in Clients : conn'[c] = "closed" => conn[c] = "closed" PROVE EndedClosed
    BY <2>2 DEF EndedClosed
  <2>3. CASE UNCHANGED vars
    BY <2>2, <2>3 DEF vars, net
  <2>4. ASSUME NEW c \in Clients, Client(c) PROVE EndedClosed
    BY <2>2, <2>4 DEF Client, Connect, WriteLine, ReadReply, Leave, LoopTypes
  <2>5. CASE Select \/ SelectError \/ Skip \/ EndOfLoop \/ Accept \/ AcceptError \/ ReadClosed
    BY <2>2, <2>5 DEF Select, SelectError, Skip, EndOfLoop, Accept, AcceptError, ReadClosed, net
  <2>6. ASSUME NEW c \in Clients, ReadData(c) \/ ReadReset(c) \/ WriteEcho(c) PROVE EndedClosed
    BY <2>2, <2>6 DEF ReadData, ReadReset, WriteEcho, AfterReset, LoopTypes
  <2>. QED  BY <1>1, <2>1, <2>3, <2>4, <2>5, <2>6 DEF Next, Server, Serve
<1>2. ~win /\ [Next]_vars => ~win'
  <2>1. UNCHANGED vars => win' = win
    BY DEF vars, program
  <2>2. Next => win' = win
    BY ClientFrame DEF Next, Server, Serve, Select, SelectError, Skip, EndOfLoop, Accept, AcceptError,
          ReadClosed, ReadData, ReadEof, ReadReset, WriteEcho, program
  <2>. QED  BY <2>1, <2>2
<1>3. Init => SetInv
  BY SetInit
<1>4. SetInv /\ [Next]_vars => SetInv'
  BY SetStep
<1>5. SetInv /\ ~win /\ [Next]_vars => [EndedClosed]_vars
  BY <1>1
<1>. QED  BY <1>2, <1>3, <1>4, <1>5, PTL DEF Spec, OnlyEndedClosed, EndedClosed
-----------------------------------------------------------------------------
(* The text.                                                               *)

\* The parts of a connection's text are texts.
LEMMA WholeTypes ==
    ASSUME NetTypes, LoopTypes, NEW c \in Clients
    PROVE  got[c] \in Text /\ outq[c] \in Text /\ Held(c) \in Text /\ inq[c] \in Text /\ buf \in Text
<1>1. buf \in Text /\ <<>> \in Text
  BY DEF LoopTypes, Text
<1>. QED  BY <1>1 DEF NetTypes, Held, Text

\* Of the connections, the loop holds text only for the one it serves.
LEMMA HeldByOne ==
    ASSUME SetInv, NEW c \in Clients, Slot(i) = fdOf[c], fdOf[c] # NoFd
    PROVE  Held(c) = buf /\ \A d \in Clients : d # c => Held(d) = <<>> /\ fdOf[d] # Slot(i)
<1>1. \A d \in Clients : d # c => fdOf[d] # Slot(i)
  BY DEF SetInv, FdsExact
<1>2. Held(c) = buf
  BY Zenon DEF Held
<1>. QED  BY <1>1, <1>2 DEF Held

\* A connection's text stays whole where nothing of it moves.
LEMMA EchoSame ==
    ASSUME EchoInv, NEW d \in Clients, Held(d)' = Held(d),
           got'[d] = got[d], outq'[d] = outq[d], inq'[d] = inq[d], sent'[d] = sent[d],
           conn'[d] = conn[d] \/ conn'[d] \notin {"idle", "open"}
    PROVE  EchoOf(d)'
<1>1. EchoOf(d) /\ Whole(d)' = Whole(d)
  BY DEF EchoInv, Whole
<1>2. CASE conn'[d] = conn[d]
  BY <1>1, <1>2 DEF EchoOf
<1>3. CASE conn'[d] \notin {"idle", "open"}
  BY <1>3 DEF EchoOf
<1>. QED  BY <1>2, <1>3

\* The steps of the clients.
LEMMA EchoClient ==
    ASSUME SetInv, EchoInv, NEW c \in Clients, Client(c)
    PROVE  EchoInv'
<1>. NetTypes /\ LoopTypes
  BY DEF SetInv
<1>1. UNCHANGED <<win, reads, i, buf, fdOf>>
  BY ClientFrame
<1>2. \A d \in Clients : Held(d)' = Held(d)
  BY <1>1 DEF Held, Slot
<1>3. ASSUME NEW d \in Clients, d # c PROVE EchoOf(d)'
  <2>1. /\ got'[d] = got[d] /\ outq'[d] = outq[d] /\ inq'[d] = inq[d] /\ sent'[d] = sent[d]
        /\ conn'[d] = conn[d]
    BY <1>3 DEF Client, Connect, WriteLine, ReadReply, Leave, clients, NetTypes, LoopTypes
  <2>. QED  BY <1>2, <2>1, EchoSame
<1>4. EchoOf(c)'
  <2>1. CASE Connect(c)
    <3>1. /\ conn[c] = "idle" /\ conn'[c] = "open" /\ UNCHANGED <<got, outq, inq, sent>>
      BY <2>1 DEF Connect, clients, LoopTypes
    <3>2. got[c] = <<>> /\ outq[c] = <<>> /\ inq[c] = <<>> /\ sent[c] = 0
      BY <3>1 DEF EchoInv, EchoOf
    <3>3. Held(c) = <<>>
      BY <3>1 DEF SetInv, HoldExact, FdsExact, Held
    <3>4. Whole(c)' = <<>> \o <<>> \o <<>> \o <<>>
      BY <1>2, <3>1, <3>2, <3>3 DEF Whole
    <3>5. Line(0) = <<>> /\ <<>> \o <<>> \o <<>> \o <<>> = <<>>
      BY DEF Line
    <3>. QED  BY <3>1, <3>2, <3>4, <3>5 DEF EchoOf
  <2>2. CASE WriteLine(c)
    <3>1. PICK n \in 1..MaxLine : /\ inq' = [inq EXCEPT ![c] = @ \o [k \in 1..n |-> sent[c] + k]]
                                  /\ sent' = [sent EXCEPT ![c] = @ + n]
      BY <2>2 DEF WriteLine
    <3>2. conn[c] = "open" /\ conn' = conn /\ got' = got /\ outq' = outq
      BY <2>2 DEF WriteLine
    <3>3. sent[c] \in Nat /\ n \in Nat
      BY DEF NetTypes
    <3> DEFINE x == (got[c] \o outq[c]) \o Held(c)
               more == [k \in 1..n |-> sent[c] + k]
    <3>4. inq'[c] = inq[c] \o more /\ sent'[c] = sent[c] + n
      BY <3>1 DEF NetTypes
    <3>5. x \in Text /\ inq[c] \in Text /\ more \in Text
      <4>1. more \in Seq(Nat)
        BY <3>3
      <4>2. got[c] \o outq[c] \in Seq(Nat)
        BY WholeTypes, ConcatProperties DEF Text
      <4>3. x \in Seq(Nat)
        BY <4>2, WholeTypes, ConcatProperties DEF Text
      <4>. QED  BY <4>1, <4>3, WholeTypes DEF Text
    <3>6. Ends(x, inq[c], more)
      BY <3>5, EndText, Zenon
    <3>7. GoesOn(sent[c], n)
      BY <3>3, LineGoesOn, Zenon
    <3>8. Whole(c) = Line(sent[c])
      BY <3>2 DEF EchoInv, EchoOf
    <3>9. Whole(c) = x \o inq[c]
      BY Zenon DEF Whole
    <3>10. Whole(c)' = x \o (inq[c] \o more)
      BY <1>2, <3>2, <3>4 DEF Whole
    <3>. HIDE DEF x
    <3>11. Whole(c)' = Line(sent[c] + n)
      BY <3>6, <3>7, <3>8, <3>9, <3>10, Zenon DEF Ends, GoesOn
    <3>. QED  BY <3>2, <3>4, <3>11 DEF EchoOf
  <2>3. CASE ReadReply(c)
    <3>1. /\ got'[c] = got[c] \o outq[c] /\ outq'[c] = <<>> /\ conn' = conn /\ conn[c] # "idle"
          /\ UNCHANGED <<inq, sent>>
      BY <2>3 DEF ReadReply, NetTypes
    <3>2. Moved(got[c], outq[c])
      BY WholeTypes, MovedText, Zenon
    <3>3. Whole(c)' = ((got[c] \o outq[c]) \o <<>>) \o Held(c) \o inq[c]
      BY <1>2, <3>1 DEF Whole
    <3>4. Whole(c)' = Whole(c)
      BY <3>2, <3>3, Zenon DEF Moved, Whole
    <3>. QED  BY <3>1, <3>4 DEF EchoInv, EchoOf
  <2>4. CASE Leave(c)
    <3>1. conn'[c] \notin {"idle", "open"}
      BY <2>4 DEF Leave, LoopTypes
    <3>. QED  BY <3>1 DEF EchoOf
  <2>. QED  BY <2>1, <2>2, <2>3, <2>4 DEF Client
<1>. QED  BY <1>3, <1>4 DEF EchoInv

\* The steps of the loop that neither read data nor write.
LEMMA EchoQuiet ==
    ASSUME SetInv, EchoInv,
           \/ UNCHANGED vars
           \/ Select \/ SelectError \/ Skip \/ EndOfLoop \/ Accept \/ AcceptError \/ ReadClosed
           \/ \E c \in Clients : ReadReset(c)
    PROVE  EchoInv'
<1>. NetTypes /\ LoopTypes /\ HoldExact
  BY DEF SetInv
<1>1. UNCHANGED <<got, outq, inq, sent>>
  BY DEF vars, net, clients, Select, SelectError, Skip, EndOfLoop, Accept, AcceptError, ReadClosed, ReadReset
<1>2. \A d \in Clients : conn'[d] = conn[d] \/ conn'[d] \notin {"idle", "open"}
  BY DEF vars, net, Select, SelectError, Skip, EndOfLoop, Accept, AcceptError, ReadClosed, ReadReset,
         AfterReset, LoopTypes
<1>3. \A d \in Clients : Held(d)' = Held(d)
  <2>1. CASE UNCHANGED vars \/ SelectError \/ AcceptError
    BY <2>1 DEF vars, program, scan, sets, net, SelectError, AcceptError, Held, Slot
  <2>2. CASE Select \/ Skip \/ EndOfLoop \/ Accept \/ ReadClosed \/ \E c \in Clients : ReadReset(c)
    <3>1. buf = <<>> /\ buf' = <<>>
      <4>. i \in Nat /\ Limit \in Nat
        BY Counters
      <4>. QED  BY <2>2 DEF Select, Skip, EndOfLoop, Accept, ReadClosed, ReadReset, Serving, Scanning, HoldExact
    <3>. QED  BY <3>1 DEF Held
  <2>. QED  BY <2>1, <2>2
<1>4. ASSUME NEW d \in Clients PROVE EchoOf(d)'
  BY <1>1, <1>2, <1>3, EchoSame
<1>. QED  BY <1>4 DEF EchoInv

\* What ends takes only its own text along.
LEMMA EchoReadEof ==
    ASSUME SetInv, EchoInv, NEW c \in Clients, ReadEof(c)
    PROVE  EchoInv'
<1>. NetTypes /\ LoopTypes /\ TurnExact
  BY DEF SetInv
<1>1. buf = <<>> /\ buf' = <<>> /\ UNCHANGED <<got, sent>>
  BY DEF ReadEof, Serving, Scanning, clients
<1>2. ASSUME NEW d \in Clients PROVE EchoOf(d)'
  <2>1. CASE fdOf[d] = Closed
    <3>1. conn'[d] = "closed"
      BY <2>1, EofParts
    <3>. QED  BY <3>1 DEF EchoOf
  <2>2. CASE fdOf[d] # Closed
    <3>1. conn'[d] = conn[d] /\ inq'[d] = inq[d] /\ outq'[d] = outq[d]
      BY <2>2, EofParts
    <3>2. Held(d)' = Held(d)
      BY <1>1 DEF Held
    <3>. QED  BY <1>1, <3>1, <3>2, EchoSame
  <2>. QED  BY <2>1, <2>2
<1>. QED  BY <1>2 DEF EchoInv

\* read takes from what is unread what the loop holds then.
LEMMA EchoReadData ==
    ASSUME SetInv, EchoInv, NEW c \in Clients, ReadData(c)
    PROVE  EchoInv'
<1>. NetTypes /\ LoopTypes
  BY DEF SetInv
<1>1. Slot(i) = fdOf[c] /\ fdOf[c] # NoFd /\ buf = <<>>
  BY Served DEF ReadData
<1>2. /\ inq[c] # <<>> /\ buf' = SubSeq(inq[c], 1, ReadLen(c))
      /\ inq'[c] = SubSeq(inq[c], ReadLen(c) + 1, Len(inq[c]))
      /\ \A d \in Clients : d # c => inq'[d] = inq[d]
      /\ UNCHANGED <<win, reads, i, fdOf, conn, outq, got, sent>>
  BY DEF ReadData, NetTypes, program, scan, sets, clients
<1>3. buf' \in Text /\ inq'[c] \in Text /\ buf' \o inq'[c] = inq[c] /\ buf' # <<>>
  BY <1>2, ReadParts DEF Text
<1>4. \A d \in Clients : d # c => Held(d)' = Held(d)
  BY <1>1, <1>2, HeldByOne DEF Held, Slot
<1>5. Held(c) = <<>> /\ Held(c)' = buf'
  BY <1>1, <1>2, <1>3 DEF Held, Slot
<1>6. Whole(c)' = Whole(c)
  <2> DEFINE x == got[c] \o outq[c]
  <2>1. x \in Text
    BY WholeTypes, ConcatProperties DEF Text
  <2>2. Joins(x, buf', inq'[c])
    BY <1>3, <2>1, JoinText, Zenon
  <2>3. (x \o <<>>) \o inq[c] = (x \o buf') \o inq'[c]
    BY <1>3, <2>2, Zenon DEF Joins
  <2>4. Whole(c) = (x \o <<>>) \o inq[c]
    BY <1>5, Zenon DEF Whole
  <2>5. Whole(c)' = (x \o buf') \o inq'[c]
    BY <1>2, <1>5 DEF Whole
  <2>. HIDE DEF x
  <2>. QED  BY <2>3, <2>4, <2>5, Zenon
<1>7. conn[c] # "idle"
  BY <1>2 DEF EchoInv, EchoOf
<1>8. ASSUME NEW d \in Clients PROVE EchoOf(d)'
  <2>1. CASE d = c
    BY <1>2, <1>6, <1>7, <2>1 DEF EchoInv, EchoOf
  <2>2. CASE d # c
    BY <1>2, <1>4, <2>2, EchoSame
  <2>. QED  BY <2>1, <2>2
<1>. QED  BY <1>8 DEF EchoInv

\* write puts what the loop holds behind what is on its way back.
LEMMA EchoWriteEcho ==
    ASSUME SetInv, EchoInv, NEW c \in Clients, WriteEcho(c)
    PROVE  EchoInv'
<1>. NetTypes /\ LoopTypes
  BY DEF SetInv
<1>1. Slot(i) = fdOf[c] /\ fdOf[c] # NoFd /\ buf' = <<>>
  BY DEF WriteEcho, SetInv, HoldExact
<1>2. /\ UNCHANGED <<inq, got, sent>>
      /\ \A d \in Clients : d # c => conn'[d] = conn[d] /\ outq'[d] = outq[d]
  BY DEF WriteEcho, clients, NetTypes, LoopTypes
<1>3. \A d \in Clients : Held(d)' = <<>>
  BY <1>1 DEF Held
<1>4. Held(c) = buf /\ \A d \in Clients : d # c => Held(d) = <<>>
  BY <1>1, HeldByOne
<1>5. ASSUME NEW d \in Clients, d # c PROVE EchoOf(d)'
  BY <1>2, <1>3, <1>4, <1>5, EchoSame
<1>6. EchoOf(c)'
  <2>1. CASE conn[c] = "open"
    <3>1. outq'[c] = outq[c] \o buf /\ conn' = conn
      BY <2>1 DEF WriteEcho, Echoed, NetTypes
    <3>2. Puts(got[c], outq[c], buf)
      BY WholeTypes, PutText, Zenon
    <3>3. Whole(c) = ((got[c] \o outq[c]) \o buf) \o inq[c]
      BY <1>4, Zenon DEF Whole
    <3>4. Whole(c)' = ((got[c] \o (outq[c] \o buf)) \o <<>>) \o inq[c]
      BY <1>2, <1>3, <3>1 DEF Whole
    <3>5. Whole(c)' = Whole(c)
      BY <3>2, <3>3, <3>4, Zenon DEF Puts
    <3>. QED  BY <1>2, <2>1, <3>1, <3>5 DEF EchoInv, EchoOf
  <2>2. CASE conn[c] # "open"
    <3>1. conn'[c] \notin {"idle", "open"}
      BY <2>2 DEF WriteEcho, AfterReset, LoopTypes
    <3>. QED  BY <3>1 DEF EchoOf
  <2>. QED  BY <2>1, <2>2
<1>7. ASSUME NEW d \in Clients PROVE EchoOf(d)'
  BY <1>5, <1>6
<1>. QED  BY <1>7 DEF EchoInv

\* Every step keeps every text whole.
LEMMA EchoStep ==
    ASSUME SetInv, EchoInv, [Next]_vars
    PROVE  EchoInv'
  BY EchoClient, EchoQuiet, EchoReadEof, EchoReadData, EchoWriteEcho DEF Next, Server, Serve

\* The text of a connection comes back whole and in order, over any number of
\* lines and however reads cut them.
THEOREM EchoIsIntact == Spec => []EchoIntact
<1>1. EchoInv => EchoIntact
  BY DEF EchoInv, EchoOf, EchoIntact, Whole, Held, Line
<1>2. Init => SetInv /\ EchoInv
  <2>1. Init => EchoInv
    BY DEF Init, EchoInv, EchoOf
  <2>. QED  BY <2>1, SetInit
<1>3. (SetInv /\ EchoInv) /\ [Next]_vars => (SetInv /\ EchoInv)'
  BY SetStep, EchoStep
<1>. QED  BY <1>1, <1>2, <1>3, PTL DEF Spec
=============================================================================
