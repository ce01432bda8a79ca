------------------------- MODULE ThreadedChatProofs -------------------------
(***************************************************************************)
(* What holds of the threaded chat server for any number of clients, any   *)
(* descriptor table and any buffer sizes.                                  *)
(***************************************************************************)
EXTENDS ThreadedChat, FiniteSetTheorems, SequenceTheorems, TLAPS

\* Which connection main is busy with, and what that says of clnt_sock.
CurInv ==
    /\ \A c \in Clients : pc[c] \in {"accepted", "registered"} <=> c = cur
    /\ cur # NoOne => clnt_sock = meant[cur]

\* The listen queue holds each connection once, and none that was accepted.
QueueInv ==
    /\ \A i \in DOMAIN backlog : pc[backlog[i]] = "none" /\ conn[backlog[i]] # "idle"
    /\ \A i, j \in DOMAIN backlog : backlog[i] = backlog[j] => i = j
    /\ \A c \in Clients : conn[c] = "idle" => pc[c] = "none"

\* The count and the types support each other: Remove may decrement because
\* a live handler is still counted.
CountInv == TypeOK /\ CurInv /\ QueueInv /\ CountMatchesHandlers

\* Text, and what its concatenation obeys.
Text == Seq(Units)

Regroups(a, x, y) == (a \o x) \o y = a \o (x \o y) /\ a \o (x \o y) \in Text

LEMMA RegroupText == \A a, x, y \in Text : Regroups(a, x, y)
  BY DEF Text, Regroups

Joins(a, x) == a \o x \in Text /\ x \o <<>> = x /\ <<>> \o x = x /\ <<>> \in Text

LEMMA JoinText == \A a, x \in Text : Joins(a, x)
  BY DEF Text, Joins

USE FDsAssumption, SizesAssumption, NoOneAssumption

-----------------------------------------------------------------------------
(* The set of live handlers.                                               *)

\* An update of one handler's position that leaves liveness alone leaves the
\* set of live handlers alone.
LEMMA LiveSame ==
    ASSUME pc \in [Clients -> PCs], NEW t \in Clients, NEW p, pc' = [pc EXCEPT ![t] = p],
           pc[t] \in Live <=> p \in Live
    PROVE  LiveSet' = LiveSet
  BY DEF LiveSet

\* Registering adds one live handler.
LEMMA LiveGrows ==
    ASSUME pc \in [Clients -> PCs], NEW t \in Clients, pc[t] = "accepted",
           pc' = [pc EXCEPT ![t] = "registered"]
    PROVE  Cardinality(LiveSet') = Cardinality(LiveSet) + 1
<1>1. LiveSet' = LiveSet \cup {t} /\ t \notin LiveSet
  BY DEF LiveSet, Live
<1>2. IsFiniteSet(LiveSet)
  BY FS_Subset DEF LiveSet
<1>. QED  BY <1>1, <1>2, FS_AddElement

\* Unregistering takes one live handler away.
LEMMA LiveShrinks ==
    ASSUME pc \in [Clients -> PCs], NEW t \in Clients, pc[t] = "remove",
           pc' = [pc EXCEPT ![t] = "close"]
    PROVE  /\ Cardinality(LiveSet') = Cardinality(LiveSet) - 1
           /\ Cardinality(LiveSet) \in Nat \ {0}
<1>1. LiveSet' = LiveSet \ {t} /\ t \in LiveSet
  BY DEF LiveSet, Live
<1>2. IsFiniteSet(LiveSet)
  BY FS_Subset DEF LiveSet
<1>. QED  BY <1>1, <1>2, FS_RemoveElement, FS_CardinalityType, FS_EmptySet

\* There is room for a handler that is not live yet: a connection is filed at
\* most once, so the others that are in clnt_socks are fewer than the clients.
LEMMA RoomForOne ==
    ASSUME NEW t \in Clients, t \notin LiveSet
    PROVE  Cardinality(LiveSet) \in Nat /\ Cardinality(LiveSet) < MAX_CLNT
<1>1. LiveSet \subseteq Clients \ {t}
  BY DEF LiveSet
<1>2. /\ IsFiniteSet(Clients \ {t}) /\ Cardinality(Clients \ {t}) = Cardinality(Clients) - 1
      /\ Cardinality(Clients) \in Nat
  BY FS_RemoveElement, FS_CardinalityType
<1>3. Cardinality(LiveSet) \in Nat /\ Cardinality(LiveSet) <= Cardinality(Clients \ {t})
  BY <1>1, <1>2, FS_Subset, FS_CardinalityType
<1>. QED  BY <1>2, <1>3, CapacityAssumption

-----------------------------------------------------------------------------
(* Types.  Each action changes the types of few variables.                 *)

\* The clients' steps keep every variable in its type.
LEMMA TypeClient ==
    ASSUME TypeOK, NEW c \in Clients, Client(c)
    PROVE  TypeOK'
<1>1. ServerTypes' /\ ThreadTypes'
  BY DEF Client, Connect, ClientSend, ClientQuit, ClientRecv, TypeOK, ServerTypes, ThreadTypes,
         mainVars, registry, threadVars
<1>2. NetTypes'
  <2>1. CASE Connect(c)
    BY <2>1 DEF Connect, TypeOK, NetTypes
  <2>2. CASE ClientSend(c)
    <3>1. sent[c] + 1 \in 0..MaxSent /\ <<c, sent[c] + 1>> \in Units
      BY <2>2 DEF ClientSend, TypeOK, NetTypes, Units
    <3>. QED  BY <2>2, <3>1 DEF ClientSend, TypeOK, NetTypes
  <2>3. CASE ClientQuit(c)
    BY <2>3 DEF ClientQuit, TypeOK, NetTypes
  <2>4. CASE ClientRecv(c)
    <3>1. got[c] \o outq[c] \in Seq(Units)
      BY ConcatProperties DEF TypeOK, NetTypes
    <3>. QED  BY <2>4, <3>1 DEF ClientRecv, TypeOK, NetTypes
  <2>. QED  BY <2>1, <2>2, <2>3, <2>4 DEF Client
<1>. QED  BY <1>1, <1>2 DEF TypeOK

\* Steps of a handler that change neither registry nor network.
LEMMA TypeHandlerLocal ==
    ASSUME TypeOK, NEW t \in Clients,
           StartHandler(t) \/ ReadEof(t) \/ SendLock(t) \/ SendUnlock(t)
    PROVE  TypeOK'
<1>1. ServerTypes' /\ NetTypes'
  BY DEF StartHandler, ReadEof, SendLock, SendUnlock, TypeOK, ServerTypes, NetTypes,
         mainVars, registry, netVars
<1>2. ThreadTypes'
  <2>1. CASE StartHandler(t)
    BY <2>1 DEF StartHandler, TypeOK, ServerTypes, ThreadTypes, PCs
  <2>2. CASE ReadEof(t)
    BY <2>2 DEF ReadEof, TypeOK, ThreadTypes, PCs
  <2>3. CASE SendLock(t)
    BY <2>3 DEF SendLock, TypeOK, ThreadTypes, PCs
  <2>4. CASE SendUnlock(t)
    BY <2>4 DEF SendUnlock, TypeOK, ThreadTypes, PCs
  <2>. QED  BY <2>1, <2>2, <2>3, <2>4
<1>. QED  BY <1>1, <1>2 DEF TypeOK

\* Steps of a handler that read from the network or write to it.
LEMMA TypeHandlerNet ==
    ASSUME TypeOK, NEW t \in Clients,
           ReadData(t) \/ ReadError(t) \/ SendWrite(t) \/ CloseSock(t)
    PROVE  TypeOK'
<1>1. ServerTypes'
  BY DEF ReadData, ReadError, SendWrite, CloseSock, Deliver, TypeOK, ServerTypes, mainVars, registry
<1>2. CASE ReadData(t)
  <2>1. PICK c \in Clients, n \in 1..BUF_SIZE :
          /\ n <= Len(inq[c])
          /\ msg' = [msg EXCEPT ![t] = SubSeq(inq[c], 1, n)]
          /\ inq' = [inq EXCEPT ![c] = SubSeq(@, n + 1, Len(@))]
    BY <1>2 DEF ReadData, Unread
  <2>2. SubSeq(inq[c], 1, n) \in Seq(Units) /\ SubSeq(inq[c], n + 1, Len(inq[c])) \in Seq(Units)
    <3>1. inq[c] \in Seq(Units) /\ n \in 1..Len(inq[c])
      BY <2>1 DEF TypeOK, NetTypes
    <3>2. \A i \in 1..n : inq[c][i] \in Units
      BY <3>1
    <3>3. \A i \in (n + 1)..Len(inq[c]) : inq[c][i] \in Units
      BY <3>1
    <3>. QED  BY <3>1, <3>2, <3>3, SubSeqProperties
  <2>3. ThreadTypes'
    BY <1>2, <2>1, <2>2 DEF ReadData, TypeOK, ThreadTypes, PCs
  <2>4. NetTypes'
    BY <1>2, <2>1, <2>2 DEF ReadData, TypeOK, NetTypes
  <2>. QED  BY <1>1, <2>3, <2>4 DEF TypeOK
<1>3. CASE ReadError(t)
  <2>1. ThreadTypes'
    BY <1>3 DEF ReadError, TypeOK, ThreadTypes, PCs
  <2>2. NetTypes'
    BY <1>3 DEF ReadError, TypeOK, NetTypes
  <2>. QED  BY <1>1, <2>1, <2>2 DEF TypeOK
<1>4. CASE SendWrite(t)
  <2>1. ThreadTypes'
    BY <1>4 DEF SendWrite, TypeOK, ThreadTypes
  <2>2. \A c \in Clients : outq[c] \o msg[t] \in Seq(Units)
    BY ConcatProperties DEF TypeOK, NetTypes, ThreadTypes
  <2>3. NetTypes'
    <3>1. UNCHANGED <<backlog, fdOf, inq, got, sent>>
      BY <1>4 DEF SendWrite
    <3>2. /\ conn' \in [Clients -> {"idle", "open", "fin", "rst", "dead"}]
          /\ outq' \in [Clients -> Seq(Units)]
      <4>1. CASE UNCHANGED <<up, conn, outq>>
        BY <4>1 DEF TypeOK, NetTypes
      <4>2. CASE \E c \in Clients : Deliver(t, c)
        <5>1. PICK c \in Clients : Deliver(t, c)
          BY <4>2
        <5>. QED  BY <5>1, <2>2 DEF Deliver, TypeOK, NetTypes
      <4>. QED  BY <1>4, <4>1, <4>2 DEF SendWrite
    <3>. QED  BY <3>1, <3>2 DEF TypeOK, NetTypes
  <2>. QED  BY <1>1, <2>1, <2>3 DEF TypeOK
<1>5. CASE CloseSock(t)
  <2>1. ThreadTypes'
    BY <1>5 DEF CloseSock, TypeOK, ThreadTypes, PCs
  <2>2. NetTypes'
    BY <1>5 DEF CloseSock, TypeOK, NetTypes
  <2>. QED  BY <1>1, <2>1, <2>2 DEF TypeOK
<1>. QED  BY <1>2, <1>3, <1>4, <1>5

\* Removing an entry leaves an array of descriptors.
LEMMA TypeRemove ==
    ASSUME TypeOK, CountMatchesHandlers, NEW t \in Clients, Remove(t)
    PROVE  TypeOK'
<1>1. ThreadTypes' /\ NetTypes'
  BY DEF Remove, TypeOK, ThreadTypes, NetTypes, netVars, PCs
<1>2. clnt_cnt - 1 \in 0..MAX_CLNT
  <2>1. pc \in [Clients -> PCs] /\ pc[t] = "remove" /\ pc' = [pc EXCEPT ![t] = "close"]
    BY DEF Remove, TypeOK, ThreadTypes
  <2>2. clnt_cnt \in Nat \ {0} /\ clnt_cnt \in 0..MAX_CLNT
    BY <2>1, LiveShrinks DEF CountMatchesHandlers, TypeOK, ServerTypes
  <2>. QED  BY <2>2
<1>3. clnt_socks' \in [Slots -> FDs \cup {NoFd}]
  BY DEF Remove, ShiftDown, TypeOK, ServerTypes, Slots
<1>4. ServerTypes'
  BY <1>2, <1>3 DEF Remove, CountDown, TypeOK, ServerTypes, mainVars
<1>. QED  BY <1>1, <1>4 DEF TypeOK

\* Main's steps.
LEMMA TypeMain ==
    ASSUME TypeOK, CountMatchesHandlers, Main
    PROVE  TypeOK'
<1>1. CASE Accept
  <2>1. PICK fd \in FDs : /\ clnt_sock' = fd
                          /\ fdOf' = [fdOf EXCEPT ![Head(backlog)] = fd]
                          /\ meant' = [meant EXCEPT ![Head(backlog)] = fd]
    BY <1>1 DEF Accept, FreeFds
  <2>2. Head(backlog) \in Clients /\ Tail(backlog) \in Seq(Clients)
    BY <1>1, HeadTailProperties DEF Accept, TypeOK, NetTypes
  <2>3. ServerTypes'
    BY <1>1, <2>1, <2>2 DEF Accept, TypeOK, ServerTypes, registry
  <2>4. ThreadTypes'
    BY <1>1, <2>1, <2>2 DEF Accept, TypeOK, ThreadTypes, PCs
  <2>5. NetTypes'
    BY <1>1, <2>1, <2>2 DEF Accept, TypeOK, NetTypes
  <2>. QED  BY <2>3, <2>4, <2>5 DEF TypeOK
<1>2. CASE AcceptError
  BY <1>2 DEF AcceptError, TypeOK, ServerTypes, ThreadTypes, NetTypes, mainVars, registry,
              threadVars, netVars
<1>3. CASE Register
  <2>1. ThreadTypes' /\ NetTypes'
    BY <1>3 DEF Register, TypeOK, ThreadTypes, NetTypes, netVars, PCs, ServerTypes
  <2>2. clnt_cnt < MAX_CLNT
    <3>1. cur \in Clients /\ cur \notin LiveSet
      BY <1>3 DEF Register, LiveSet, Live, TypeOK, ServerTypes
    <3>. QED  BY <3>1, RoomForOne DEF CountMatchesHandlers
  <2>3. ServerTypes'
    <3>1. clnt_cnt \in 0..MAX_CLNT /\ clnt_cnt + 1 \in 0..MAX_CLNT
      BY <2>2 DEF TypeOK, ServerTypes
    <3>2. clnt_socks' \in [Slots -> FDs \cup {NoFd}]
      BY <1>3 DEF Register, TypeOK, ServerTypes
    <3>. QED  BY <1>3, <3>1, <3>2 DEF Register, TypeOK, ServerTypes, mainVars
  <2>. QED  BY <2>1, <2>3 DEF TypeOK
<1>4. CASE CreateThread
  <2>1. ThreadTypes' /\ NetTypes'
    BY <1>4 DEF CreateThread, TypeOK, ThreadTypes, NetTypes, netVars, PCs, ServerTypes
  <2>2. ServerTypes'
    BY <1>4 DEF CreateThread, TypeOK, ServerTypes, registry
  <2>. QED  BY <2>1, <2>2 DEF TypeOK
<1>. QED  BY <1>1, <1>2, <1>3, <1>4 DEF Main

-----------------------------------------------------------------------------
(* CurInv and QueueInv.                                                    *)

\* The clients move no handler and only append connections they open.
LEMMA PositionClient ==
    ASSUME TypeOK, CurInv, QueueInv, NEW c \in Clients, Client(c)
    PROVE  CurInv' /\ QueueInv'
<1>1. CurInv'
  BY DEF Client, Connect, ClientSend, ClientQuit, ClientRecv, threadVars, mainVars, registry, CurInv
<1>2. CASE Connect(c)
  <2>1. \A i \in DOMAIN backlog : backlog[i] # c
    BY <1>2 DEF Connect, QueueInv
  <2>2. /\ DOMAIN backlog' = 1..(Len(backlog) + 1) /\ backlog'[Len(backlog) + 1] = c
        /\ \A i \in 1..Len(backlog) : backlog'[i] = backlog[i]
        /\ DOMAIN backlog = 1..Len(backlog) /\ Len(backlog) \in Nat
    BY <1>2 DEF Connect, TypeOK, NetTypes
  <2>3. conn' = [conn EXCEPT ![c] = "open"] /\ pc' = pc /\ pc[c] = "none"
    BY <1>2 DEF Connect, threadVars, QueueInv
  <2>4. \A d \in Clients : conn'[d] = IF d = c THEN "open" ELSE conn[d]
    BY <2>3 DEF TypeOK, NetTypes
  <2>5. \A i \in 1..Len(backlog) : backlog[i] \in Clients
    BY DEF TypeOK, NetTypes
  <2>6. \A i \in DOMAIN backlog' : pc'[backlog'[i]] = "none" /\ conn'[backlog'[i]] # "idle"
    BY <2>1, <2>2, <2>3, <2>4, <2>5 DEF QueueInv
  <2>7. \A i, j \in DOMAIN backlog' : backlog'[i] = backlog'[j] => i = j
    BY <2>1, <2>2 DEF QueueInv
  <2>8. \A d \in Clients : conn'[d] = "idle" => pc'[d] = "none"
    BY <2>3, <2>4 DEF QueueInv
  <2>. QED  BY <1>1, <2>6, <2>7, <2>8 DEF QueueInv
<1>3. CASE ClientSend(c) \/ ClientQuit(c) \/ ClientRecv(c)
  <2>1. pc' = pc /\ backlog' = backlog
    BY <1>3 DEF ClientSend, ClientQuit, ClientRecv, threadVars
  <2>2. \A d \in Clients : conn'[d] = "idle" <=> conn[d] = "idle"
    BY <1>3 DEF ClientSend, ClientQuit, ClientRecv, TypeOK, NetTypes
  <2>3. \A i \in DOMAIN backlog : backlog[i] \in Clients
    BY DEF TypeOK, NetTypes
  <2>. QED  BY <1>1, <2>1, <2>2, <2>3 DEF QueueInv
<1>. QED  BY <1>2, <1>3 DEF Client

\* The positions of a handler after pthread_create.
Moved == {"start", "read", "lock", "write", "remove", "close", "done"}

\* What every step of a handler does to positions: it moves one handler from
\* and to a position after pthread_create.
LEMMA HandlerMoves ==
    ASSUME TypeOK, NEW t \in Clients, Handler(t)
    PROVE  /\ \E p \in Moved : pc' = [pc EXCEPT ![t] = p] /\ pc[t] \in Moved
           /\ UNCHANGED <<clnt_sock, cur, meant, backlog>>
           /\ \A c \in Clients : conn'[c] = "idle" <=> conn[c] = "idle"
<1>. DEFINE Steps == StartHandler(t) \/ ReadEof(t) \/ SendLock(t) \/ SendUnlock(t) \/ Remove(t)
<1>1. CASE Steps
  BY <1>1 DEF StartHandler, ReadEof, SendLock, SendUnlock, Remove, Moved, mainVars, netVars
<1>2. CASE ReadData(t)
  BY <1>2 DEF ReadData, Moved, mainVars
<1>3. CASE ReadError(t)
  BY <1>3 DEF ReadError, Moved, mainVars, TypeOK, NetTypes
<1>4. CASE SendWrite(t)
  <2>1. \E p \in Moved : pc' = [pc EXCEPT ![t] = p] /\ pc[t] \in Moved
    BY <1>4 DEF SendWrite, Moved, TypeOK, ThreadTypes
  <2>2. \A c \in Clients : conn'[c] = "idle" <=> conn[c] = "idle"
    <3>1. CASE UNCHANGED <<up, conn, outq>>
      BY <3>1
    <3>2. CASE \E c \in Clients : Deliver(t, c)
      BY <3>2 DEF Deliver, TypeOK, NetTypes
    <3>. QED  BY <1>4, <3>1, <3>2 DEF SendWrite
  <2>. QED  BY <1>4, <2>1, <2>2 DEF SendWrite, mainVars
<1>5. CASE CloseSock(t)
  BY <1>5 DEF CloseSock, Moved, mainVars
<1>. QED  BY <1>1, <1>2, <1>3, <1>4, <1>5 DEF Handler

\* A handler's step keeps both.
LEMMA PositionHandler ==
    ASSUME TypeOK, CurInv, QueueInv, NEW t \in Clients, Handler(t)
    PROVE  CurInv' /\ QueueInv'
<1>1. PICK p \in Moved : pc' = [pc EXCEPT ![t] = p] /\ pc[t] \in Moved
  BY HandlerMoves
<1>2. \A c \in Clients : pc'[c] = IF c = t THEN p ELSE pc[c]
  BY <1>1 DEF TypeOK, ThreadTypes
<1>3. UNCHANGED <<clnt_sock, cur, meant, backlog>>
  BY HandlerMoves
<1>4. \A c \in Clients : conn'[c] = "idle" <=> conn[c] = "idle"
  BY HandlerMoves
<1>6. \A c \in Clients : pc'[c] \in {"accepted", "registered"} <=> c = cur'
  BY <1>1, <1>2, <1>3 DEF CurInv, Moved
<1>7. cur' # NoOne => clnt_sock' = meant'[cur']
  BY <1>3 DEF CurInv
<1>9. \A i \in DOMAIN backlog : backlog[i] \in Clients /\ pc[backlog[i]] \notin Moved
  <2>1. \A i \in DOMAIN backlog : backlog[i] \in Clients
    BY DEF TypeOK, NetTypes
  <2>. QED  BY <2>1 DEF QueueInv, Moved
<1>10. \A i \in DOMAIN backlog : pc'[backlog[i]] = "none" /\ conn'[backlog[i]] # "idle"
  BY <1>1, <1>2, <1>4, <1>9 DEF QueueInv
<1>11. \A c \in Clients : conn'[c] = "idle" => pc'[c] = "none"
  BY <1>1, <1>2, <1>4 DEF QueueInv, Moved
<1>. QED  BY <1>3, <1>6, <1>7, <1>10, <1>11 DEF CurInv, QueueInv

\* Main takes the head of the queue, and only when it is busy with no one.
LEMMA PositionMain ==
    ASSUME TypeOK, CurInv, QueueInv, Main
    PROVE  CurInv' /\ QueueInv'
<1>q. \A i \in DOMAIN backlog : backlog[i] \in Clients
  BY DEF TypeOK, NetTypes
<1>n. NoOne \notin Clients /\ cur \in Clients \cup {NoOne}
  BY DEF TypeOK, ServerTypes
<1>p. pc \in [Clients -> PCs]
  BY DEF TypeOK, ThreadTypes
<1>1. CASE Accept
  <2>. DEFINE h == Head(backlog)
  <2>1. /\ h \in Clients /\ h = backlog[1] /\ Len(backlog) \in Nat \ {0}
        /\ DOMAIN backlog = 1..Len(backlog)
        /\ DOMAIN backlog' = 1..(Len(backlog) - 1)
        /\ \A i \in 1..(Len(backlog) - 1) : backlog'[i] = backlog[i + 1]
    BY <1>1, HeadTailProperties DEF Accept, TypeOK, NetTypes
  <2>2. \E fd \in FDs : clnt_sock' = fd /\ meant' = [meant EXCEPT ![h] = fd]
    BY <1>1 DEF Accept, FreeFds
  <2>3. clnt_sock' = meant'[h]
    BY <2>1, <2>2 DEF TypeOK, ThreadTypes
  <2>4. /\ cur = NoOne /\ cur' = h /\ conn' = conn
        /\ \A c \in Clients : pc'[c] = IF c = h THEN "accepted" ELSE pc[c]
    BY <1>1, <1>p DEF Accept
  <2>5. CurInv'
    BY <1>n, <2>1, <2>3, <2>4 DEF CurInv
  <2>6. \A i \in 1..(Len(backlog) - 1) : backlog[i + 1] # h
    BY <2>1 DEF QueueInv
  <2>7. \A i \in DOMAIN backlog' : pc'[backlog'[i]] = "none" /\ conn'[backlog'[i]] # "idle"
    BY <1>q, <2>1, <2>4, <2>6 DEF QueueInv
  <2>8. \A i, j \in DOMAIN backlog' : backlog'[i] = backlog'[j] => i = j
    BY <2>1 DEF QueueInv
  <2>9. \A c \in Clients : conn'[c] = "idle" => pc'[c] = "none"
    BY <2>1, <2>4 DEF QueueInv
  <2>. QED  BY <2>5, <2>7, <2>8, <2>9 DEF QueueInv
<1>2. CASE AcceptError
  BY <1>2 DEF AcceptError, mainVars, registry, threadVars, netVars, CurInv, QueueInv
<1>3. CASE Register \/ CreateThread
  <2>1. /\ cur \in Clients /\ pc[cur] \in {"accepted", "registered"}
        /\ UNCHANGED <<clnt_sock, meant, backlog, conn>>
    BY <1>3, <1>n DEF Register, CreateThread, mainVars, netVars
  <2>2. PICK p \in {"registered", "start"} :
          /\ \A c \in Clients : pc'[c] = IF c = cur THEN p ELSE pc[c]
          /\ p = "registered" => cur' = cur
          /\ p = "start" => cur' = NoOne
    BY <1>3, <1>p, <2>1 DEF Register, CreateThread, mainVars
  <2>3. CurInv'
    BY <1>n, <2>1, <2>2 DEF CurInv
  <2>4. QueueInv'
    BY <1>q, <2>1, <2>2 DEF QueueInv
  <2>. QED  BY <2>3, <2>4
<1>. QED  BY <1>1, <1>2, <1>3 DEF Main

-----------------------------------------------------------------------------
(* The count.                                                              *)

\* Only Register and Remove change the set of live handlers, and each of them
\* changes clnt_cnt with it.
LEMMA CountStep ==
    ASSUME TypeOK, CurInv, QueueInv, CountMatchesHandlers, Next
    PROVE  CountMatchesHandlers'
<1>p. pc \in [Clients -> PCs] /\ clnt_cnt \in Int
  BY DEF TypeOK, ThreadTypes, ServerTypes
<1>1. CASE Register
  <2>1. /\ cur \in Clients /\ pc[cur] = "accepted" /\ pc' = [pc EXCEPT ![cur] = "registered"]
        /\ clnt_cnt' = clnt_cnt + 1
    BY <1>1 DEF Register, TypeOK, ServerTypes
  <2>. QED  BY <1>p, <2>1, LiveGrows DEF CountMatchesHandlers
<1>2. ASSUME NEW t \in Clients, Remove(t) PROVE CountMatchesHandlers'
  <2>1. pc[t] = "remove" /\ pc' = [pc EXCEPT ![t] = "close"] /\ clnt_cnt' = clnt_cnt - 1
    BY <1>2 DEF Remove, CountDown
  <2>. QED  BY <1>p, <2>1, LiveShrinks DEF CountMatchesHandlers
<1>3. CASE AcceptError \/ \E c \in Clients : Client(c)
  BY <1>3 DEF AcceptError, Client, Connect, ClientSend, ClientQuit, ClientRecv, registry,
              threadVars, LiveSet, CountMatchesHandlers
<1>4. CASE CreateThread \/ Accept
  <2>1. PICK t \in Clients, p \in PCs :
          pc' = [pc EXCEPT ![t] = p] /\ (pc[t] \in Live <=> p \in Live)
    <3>1. CASE CreateThread
      BY <3>1 DEF CreateThread, Live, PCs, TypeOK, ServerTypes
    <3>2. CASE Accept
      <4>1. Head(backlog) \in Clients /\ Head(backlog) = backlog[1] /\ 1 \in DOMAIN backlog
        BY <3>2, HeadTailProperties DEF Accept, TypeOK, NetTypes
      <4>2. pc[Head(backlog)] = "none"
        BY <4>1 DEF QueueInv
      <4>. QED  BY <3>2, <4>1, <4>2 DEF Accept, Live, PCs
    <3>. QED  BY <1>4, <3>1, <3>2
  <2>2. LiveSet' = LiveSet
    BY <1>p, <2>1, LiveSame
  <2>. QED  BY <1>4, <2>2 DEF CreateThread, Accept, registry, CountMatchesHandlers
<1>5. ASSUME NEW t \in Clients, Handler(t), ~Remove(t) PROVE CountMatchesHandlers'
  <2>1. PICK p \in PCs : pc' = [pc EXCEPT ![t] = p] /\ (pc[t] \in Live <=> p \in Live)
    BY <1>5, <1>p DEF Handler, StartHandler, ReadData, ReadEof, ReadError, SendLock, SendWrite,
         SendUnlock, CloseSock, Live, PCs
  <2>2. clnt_cnt' = clnt_cnt
    BY <1>5 DEF Handler, StartHandler, ReadData, ReadEof, ReadError, SendLock, SendWrite,
         SendUnlock, CloseSock, registry
  <2>3. LiveSet' = LiveSet
    BY <1>p, <2>1, LiveSame
  <2>. QED  BY <2>2, <2>3 DEF CountMatchesHandlers
<1>. QED  BY <1>1, <1>2, <1>3, <1>4, <1>5 DEF Next, Main

\* The initial state satisfies the invariant.
LEMMA CountInit == Init => CountInv
<1>. SUFFICES ASSUME Init PROVE CountInv
  OBVIOUS
<1>1. LiveSet = {}
  BY DEF Init, LiveSet, Live
<1>2. CountMatchesHandlers
  BY <1>1, FS_EmptySet DEF Init, CountMatchesHandlers
<1>3. TypeOK
  BY DEF Init, TypeOK, ServerTypes, ThreadTypes, NetTypes, PCs, Slots, Units
<1>4. CurInv /\ QueueInv
  BY DEF Init, CurInv, QueueInv
<1>. QED  BY <1>2, <1>3, <1>4 DEF CountInv

\* Every step preserves it.
LEMMA CountNext == CountInv /\ [Next]_vars => CountInv'
<1>. SUFFICES ASSUME CountInv, [Next]_vars PROVE CountInv'
  OBVIOUS
<1>. USE DEF CountInv
<1>1. CASE Main
  BY <1>1, TypeMain, PositionMain, CountStep DEF Next
<1>2. ASSUME NEW c \in Clients, Handler(c) PROVE CountInv'
  <2>1. TypeOK'
    BY <1>2, TypeHandlerLocal, TypeHandlerNet, TypeRemove DEF Handler
  <2>. QED  BY <1>2, <2>1, PositionHandler, CountStep DEF Next
<1>3. ASSUME NEW c \in Clients, Client(c) PROVE CountInv'
  BY <1>3, TypeClient, PositionClient, CountStep DEF Next
<1>4. CASE UNCHANGED vars
  BY <1>4 DEF vars, mainVars, registry, threadVars, netVars, TypeOK, ServerTypes, ThreadTypes,
              NetTypes, CurInv, QueueInv, CountMatchesHandlers, LiveSet
<1>. QED  BY <1>1, <1>2, <1>3, <1>4 DEF Next

\* The types and the invariants that support them hold throughout.
THEOREM Invariance == Spec => []CountInv
  BY CountInit, CountNext, PTL DEF Spec

\* Every variable keeps its type: in particular, when no more clients come than
\* the array holds, clnt_cnt stays within it although Register never looks at
\* it and Remove decrements it whether or not it found the descriptor.
THEOREM TypeCorrect == Spec => []TypeOK
<1>1. CountInv => TypeOK
  BY DEF CountInv
<1>. QED  BY Invariance, <1>1, PTL

\* clnt_cnt always counts the handlers between pthread_mutex_unlock in main
\* and the decrement in handle_clnt.
THEOREM CountCorrect == Spec => []CountMatchesHandlers
<1>1. CountInv => CountMatchesHandlers
  BY DEF CountInv
<1>. QED  BY Invariance, <1>1, PTL

-----------------------------------------------------------------------------
(* The registry is exact as long as no hand-off has gone wrong.            *)

\* Where a connection has a descriptor.
Holding == {"accepted", "close"} \cup Live

\* Two connections never have one descriptor, and one that was not accepted
\* has none.
FdsInv ==
    /\ \A c, d \in Clients : fdOf[c] = fdOf[d] /\ fdOf[c] # NoFd => c = d
    /\ \A c \in Clients : pc[c] = "none" => fdOf[c] = NoFd

\* A connection has the descriptor main accepted for it, from accept to close.
HeldInv == \A c \in Clients : pc[c] \in Holding => fdOf[c] = meant[c] /\ fdOf[c] # NoFd

RegInv == FdsInv /\ (~Misdirected => HeldInv) /\ RegistryExact

\* Once misdirected, a handler keeps the wrong descriptor for good.
LEMMA MisdirectedStays ==
    ASSUME CountInv, Next, Misdirected
    PROVE  Misdirected'
<1>. USE DEF CountInv
<1>p. pc \in [Clients -> PCs] /\ sock \in [Clients -> FDs \cup {NoFd}]
      /\ meant \in [Clients -> FDs \cup {NoFd}]
  BY DEF TypeOK, ThreadTypes
<1>0. PICK t \in Clients : pc[t] \in Moved \ {"start"} /\ sock[t] # meant[t]
  BY <1>p DEF Misdirected, Moved, PCs
<1>. SUFFICES pc'[t] \in Moved \ {"start"} /\ sock'[t] = sock[t] /\ meant'[t] = meant[t]
  BY <1>0 DEF Misdirected, Moved
<1>1. CASE Accept
  <2>1. Head(backlog) # t
    <3>1. Head(backlog) = backlog[1] /\ 1 \in DOMAIN backlog
      BY <1>1, HeadTailProperties DEF Accept, TypeOK, NetTypes
    <3>. QED  BY <3>1, <1>0 DEF QueueInv, Moved
  <2>. QED  BY <1>0, <1>1, <1>p, <2>1 DEF Accept
<1>2. CASE AcceptError \/ Register \/ CreateThread
  BY <1>0, <1>2, <1>p DEF AcceptError, Register, CreateThread, threadVars, Moved
<1>3. ASSUME NEW c \in Clients, Client(c)
      PROVE  pc'[t] \in Moved \ {"start"} /\ sock'[t] = sock[t] /\ meant'[t] = meant[t]
  BY <1>0, <1>3 DEF Client, Connect, ClientSend, ClientQuit, ClientRecv, threadVars
<1>4. ASSUME NEW h \in Clients, Handler(h)
      PROVE  pc'[t] \in Moved \ {"start"} /\ sock'[t] = sock[t] /\ meant'[t] = meant[t]
  BY <1>0, <1>4, <1>p DEF Handler, StartHandler, ReadData, ReadEof, ReadError, SendLock, SendWrite,
         SendUnlock, Remove, CloseSock, Moved
<1>. QED  BY <1>1, <1>2, <1>3, <1>4 DEF Next, Main

\* A step that changes neither the array nor a descriptor nor who is live
\* leaves RegInv alone.
LEMMA RegSame ==
    ASSUME CountInv, RegInv, Next, UNCHANGED <<registry, fdOf, meant>>, LiveSet' = LiveSet,
           \A c \in Clients : /\ pc'[c] = "none" => pc[c] = "none"
                              /\ pc'[c] \in Holding => pc[c] \in Holding
    PROVE  RegInv'
<1>1. FdsInv'
  BY DEF RegInv, FdsInv
<1>2. ~Misdirected' => HeldInv'
  BY MisdirectedStays DEF RegInv, HeldInv
<1>3. RegistryExact'
  BY MisdirectedStays DEF RegInv, RegistryExact, Filed, registry
<1>. QED  BY <1>1, <1>2, <1>3 DEF RegInv

\* accept hands out a free descriptor.
LEMMA RegAccept ==
    ASSUME CountInv, RegInv, Accept
    PROVE  RegInv'
<1>. USE DEF CountInv
<1>. DEFINE h == Head(backlog)
<1>p. pc \in [Clients -> PCs] /\ fdOf \in [Clients -> FDs \cup {NoFd}]
      /\ meant \in [Clients -> FDs \cup {NoFd}]
  BY DEF TypeOK, ThreadTypes, NetTypes
<1>1. h = backlog[1] /\ h \in Clients /\ 1 \in DOMAIN backlog
  BY HeadTailProperties DEF Accept, TypeOK, NetTypes
<1>2. pc[h] = "none"
  BY <1>1 DEF QueueInv
<1>3. PICK fd \in FDs : /\ \A c \in Clients : fdOf[c] # fd
                        /\ fdOf' = [fdOf EXCEPT ![h] = fd] /\ meant' = [meant EXCEPT ![h] = fd]
  BY DEF Accept, FreeFds
<1>4. fd # NoFd /\ pc' = [pc EXCEPT ![h] = "accepted"] /\ UNCHANGED registry
  BY DEF Accept
<1>5. FdsInv'
  BY <1>p, <1>1, <1>3, <1>4 DEF RegInv, FdsInv
<1>m. Main /\ Next
  BY DEF Main, Next
<1>6. ~Misdirected' => HeldInv'
  BY <1>p, <1>1, <1>3, <1>4, <1>m, MisdirectedStays DEF RegInv, HeldInv
<1>7. LiveSet' = LiveSet /\ h \notin LiveSet
  BY <1>p, <1>1, <1>2, <1>4 DEF LiveSet, Live
<1>8. \A c \in LiveSet : fdOf'[c] = fdOf[c]
  BY <1>p, <1>1, <1>3, <1>7 DEF LiveSet
<1>9. RegistryExact'
  <2>1. Filed' = Filed /\ clnt_socks' = clnt_socks
    BY <1>4 DEF Filed, registry
  <2>2. {fdOf'[c] : c \in LiveSet'} = {fdOf[c] : c \in LiveSet}
    BY <1>7, <1>8
  <2>. QED  BY <1>m, <1>7, <1>8, <2>1, <2>2, MisdirectedStays DEF RegInv, RegistryExact
<1>. QED  BY <1>5, <1>6, <1>9 DEF RegInv

\* Register appends the descriptor of the connection that becomes live.
LEMMA RegRegister ==
    ASSUME CountInv, RegInv, Register
    PROVE  RegInv'
<1>. USE DEF CountInv
<1>p. /\ pc \in [Clients -> PCs] /\ clnt_socks \in [Slots -> FDs \cup {NoFd}]
      /\ clnt_cnt \in Slots
  <2>1. cur \in Clients /\ cur \notin LiveSet
    BY DEF Register, LiveSet, Live, TypeOK, ServerTypes
  <2>2. clnt_cnt < MAX_CLNT
    BY <2>1, RoomForOne DEF CountMatchesHandlers
  <2>. QED  BY <2>2 DEF TypeOK, ThreadTypes, ServerTypes, Slots
<1>1. cur \in Clients /\ pc[cur] = "accepted" /\ clnt_sock = meant[cur]
  BY DEF Register, TypeOK, ServerTypes, CurInv
<1>2. /\ pc' = [pc EXCEPT ![cur] = "registered"] /\ UNCHANGED <<fdOf, meant>>
      /\ clnt_cnt' = clnt_cnt + 1 /\ clnt_socks' = [clnt_socks EXCEPT ![clnt_cnt] = clnt_sock]
  BY DEF Register, netVars
<1>3. LiveSet' = LiveSet \cup {cur} /\ cur \notin LiveSet
  BY <1>p, <1>1, <1>2 DEF LiveSet, Live
<1>4. FdsInv'
  BY <1>p, <1>1, <1>2 DEF RegInv, FdsInv
<1>m. Main /\ Next
  BY DEF Main, Next
<1>5. ~Misdirected' => HeldInv'
  BY <1>p, <1>1, <1>2, <1>m, MisdirectedStays DEF RegInv, HeldInv, Holding, Live
<1>6. Filed' = Filed \cup {clnt_cnt} /\ clnt_cnt \notin Filed
  BY <1>p, <1>2 DEF Filed, Slots
<1>7. clnt_socks'[clnt_cnt] = clnt_sock /\ \A k \in Filed : clnt_socks'[k] = clnt_socks[k]
  BY <1>p, <1>2 DEF Filed, Slots
<1>8. ASSUME ~Misdirected' PROVE
        /\ \A j, k \in Filed' : clnt_socks'[j] = clnt_socks'[k] => j = k
        /\ {clnt_socks'[k] : k \in Filed'} = {fdOf'[c] : c \in LiveSet'}
        /\ \A c \in LiveSet' : fdOf'[c] # NoFd
  <2>1. /\ \A j, k \in Filed : clnt_socks[j] = clnt_socks[k] => j = k
        /\ {clnt_socks[k] : k \in Filed} = {fdOf[c] : c \in LiveSet}
        /\ \A c \in LiveSet : fdOf[c] # NoFd
    BY <1>8, <1>m, MisdirectedStays DEF RegInv, RegistryExact
  <2>2. fdOf[cur] = clnt_sock /\ fdOf[cur] # NoFd
    BY <1>1, <1>8, <1>m, MisdirectedStays DEF RegInv, HeldInv, Holding
  <2>3. \A k \in Filed : clnt_socks[k] # clnt_sock
    <3>1. \A c \in LiveSet : fdOf[c] # clnt_sock
      BY <1>1, <1>3, <2>2 DEF RegInv, FdsInv, LiveSet
    <3>. QED  BY <2>1, <3>1
  <2>4. \A j, k \in Filed' : clnt_socks'[j] = clnt_socks'[k] => j = k
    BY <1>6, <1>7, <2>1, <2>3
  <2>5. {clnt_socks'[k] : k \in Filed'} = {clnt_socks[k] : k \in Filed} \cup {clnt_sock}
    BY <1>6, <1>7
  <2>6. {fdOf'[c] : c \in LiveSet'} = {fdOf[c] : c \in LiveSet} \cup {clnt_sock}
    BY <1>2, <1>3, <2>2
  <2>. QED  BY <1>2, <1>3, <2>1, <2>2, <2>4, <2>5, <2>6
<1>9. RegistryExact'
  BY <1>8 DEF RegistryExact
<1>. QED  BY <1>4, <1>5, <1>9 DEF RegInv

\* Remove takes out the one entry of the handler that leaves.
LEMMA RegRemove ==
    ASSUME CountInv, RegInv, NEW t \in Clients, Remove(t)
    PROVE  RegInv'
<1>. USE DEF CountInv
<1>p. /\ pc \in [Clients -> PCs] /\ clnt_socks \in [Slots -> FDs \cup {NoFd}]
      /\ clnt_cnt \in 0..MAX_CLNT
  BY DEF TypeOK, ThreadTypes, ServerTypes
<1>1. /\ pc[t] = "remove" /\ pc' = [pc EXCEPT ![t] = "close"]
      /\ UNCHANGED <<fdOf, meant, sock>> /\ clnt_cnt' = clnt_cnt - 1
  BY DEF Remove, CountDown, netVars
<1>2. LiveSet' = LiveSet \ {t} /\ t \in LiveSet
  BY <1>p, <1>1 DEF LiveSet, Live
<1>3. FdsInv'
  BY <1>p, <1>1 DEF RegInv, FdsInv
<1>m. Next
  BY DEF Handler, Next
<1>4. ~Misdirected' => HeldInv'
  BY <1>p, <1>1, <1>m, MisdirectedStays DEF RegInv, HeldInv, Holding, Live
<1>5. ASSUME ~Misdirected' PROVE
        /\ \A j, k \in Filed' : clnt_socks'[j] = clnt_socks'[k] => j = k
        /\ {clnt_socks'[k] : k \in Filed'} = {fdOf'[c] : c \in LiveSet'}
        /\ \A c \in LiveSet' : fdOf'[c] # NoFd
  <2>1. /\ \A j, k \in Filed : clnt_socks[j] = clnt_socks[k] => j = k
        /\ {clnt_socks[k] : k \in Filed} = {fdOf[c] : c \in LiveSet}
        /\ \A c \in LiveSet : fdOf[c] # NoFd
    BY <1>5, <1>m, MisdirectedStays DEF RegInv, RegistryExact
  <2>2. sock[t] = fdOf[t]
    <3>1. ~Misdirected /\ HeldInv
      BY <1>5, <1>m, MisdirectedStays DEF RegInv
    <3>. QED  BY <3>1, <1>1 DEF Misdirected, HeldInv, Holding, Live
  <2>3. PICK k \in Filed : clnt_socks[k] = sock[t] /\ clnt_socks' = ShiftDown(k)
    <3>1. \E k \in Filed : clnt_socks[k] = sock[t]
      BY <1>2, <2>1, <2>2
    <3>2. \A k \in Filed : k \in Slots /\ k < clnt_cnt
      BY <1>p DEF Filed, Slots
    <3>3. \A k \in Slots : k < clnt_cnt => k \in Filed
      BY <1>p DEF Filed, Slots
    <3>4. \E k \in Slots : k < clnt_cnt /\ clnt_socks[k] = sock[t] /\ clnt_socks' = ShiftDown(k)
      BY <3>1, <3>2 DEF Remove
    <3>. QED  BY <3>3, <3>4
  <2>4. /\ k \in Int /\ 0 <= k /\ k < clnt_cnt
        /\ \A j \in Filed' : /\ j \in Filed /\ j + 1 \in Filed
                             /\ clnt_socks'[j] = IF k <= j THEN clnt_socks[j + 1] ELSE clnt_socks[j]
    BY <1>p, <1>1, <2>3 DEF Filed, Slots, ShiftDown
  <2>5. \A j \in Filed : /\ j \in Int
                         /\ j < k => j \in Filed'
                         /\ j > k => j - 1 \in Filed' /\ (j - 1) + 1 = j
    BY <1>p, <1>1, <2>4 DEF Filed
  <2>. DEFINE from(j) == IF k <= j THEN j + 1 ELSE j
  <2>a. \A j \in Filed' : /\ from(j) \in Filed /\ from(j) # k
                         /\ clnt_socks'[j] = clnt_socks[from(j)]
    <3>. TAKE j \in Filed'
    <3>1. j \in Int /\ k \in Int
      BY <2>4, <2>5
    <3>2. CASE k <= j
      BY <2>4, <3>1, <3>2
    <3>3. CASE j < k
      BY <2>4, <3>1, <3>3
    <3>. QED  BY <3>1, <3>2, <3>3
  <2>b. \A i, j \in Filed' : from(i) = from(j) => i = j
    <3>1. k \in Int /\ \A j \in Filed' : j \in Int
      BY <2>4, <2>5
    <3>2. \A i, j \in Int : from(i) = from(j) => i = j
      BY <3>1
    <3>. QED  BY <3>1, <3>2
  <2>. HIDE DEF from
  <2>6. \A i, j \in Filed' : clnt_socks'[i] = clnt_socks'[j] => i = j
    BY <2>1, <2>a, <2>b
  <2>7. {clnt_socks'[j] : j \in Filed'} = {clnt_socks[j] : j \in Filed} \ {clnt_socks[k]}
    <3>1. ASSUME NEW j \in Filed'
          PROVE  clnt_socks'[j] \in {clnt_socks[i] : i \in Filed} \ {clnt_socks[k]}
      BY <2>1, <2>3, <2>a
    <3>2. ASSUME NEW i \in Filed, clnt_socks[i] # clnt_socks[k]
          PROVE  \E j \in Filed' : clnt_socks'[j] = clnt_socks[i]
      <4>1. CASE i < k
        BY <4>1, <2>4, <2>5
      <4>2. CASE i > k
        <5>1. i - 1 \in Filed' /\ k <= i - 1 /\ (i - 1) + 1 = i
          BY <4>2, <2>4, <2>5
        <5>. QED  BY <5>1, <2>4
      <4>. QED  BY <3>2, <4>1, <4>2, <2>4, <2>5
    <3>. QED  BY <3>1, <3>2
  <2>8. {fdOf[c] : c \in LiveSet \ {t}} = {fdOf[c] : c \in LiveSet} \ {fdOf[t]}
    BY <1>2, <2>1 DEF RegInv, FdsInv, LiveSet
  <2>. QED  BY <1>1, <1>2, <2>1, <2>2, <2>3, <2>6, <2>7, <2>8
<1>6. RegistryExact'
  BY <1>5 DEF RegistryExact
<1>. QED  BY <1>3, <1>4, <1>6 DEF RegInv

\* close gives back the descriptor of a handler that is no longer live.
LEMMA RegClose ==
    ASSUME CountInv, RegInv, NEW t \in Clients, CloseSock(t)
    PROVE  RegInv'
<1>. USE DEF CountInv
<1>p. pc \in [Clients -> PCs] /\ fdOf \in [Clients -> FDs \cup {NoFd}]
  BY DEF TypeOK, ThreadTypes, NetTypes
<1>1. /\ pc[t] = "close" /\ pc' = [pc EXCEPT ![t] = "done"]
      /\ \A c \in Clients : fdOf'[c] = IF fdOf[c] = sock[t] THEN NoFd ELSE fdOf[c]
      /\ UNCHANGED <<registry, meant>>
  BY DEF CloseSock
<1>2. LiveSet' = LiveSet /\ t \notin LiveSet
  BY <1>p, <1>1 DEF LiveSet, Live
<1>3. FdsInv'
  BY <1>p, <1>1 DEF RegInv, FdsInv
<1>m. Next
  BY DEF Handler, Next
<1>4. ASSUME ~Misdirected' PROVE
        \A c \in Clients : pc[c] \in Holding /\ c # t => fdOf'[c] = fdOf[c]
  <2>1. ~Misdirected /\ HeldInv
    BY <1>4, <1>m, MisdirectedStays DEF RegInv
  <2>2. sock[t] = fdOf[t] /\ fdOf[t] # NoFd
    BY <1>1, <2>1 DEF Misdirected, HeldInv, Holding
  <2>. QED  BY <1>1, <2>2 DEF RegInv, FdsInv
<1>5. ~Misdirected' => HeldInv'
  BY <1>p, <1>1, <1>4, <1>m, MisdirectedStays DEF RegInv, HeldInv, Holding, Live
<1>6. RegistryExact'
  <2>1. ASSUME ~Misdirected' PROVE \A c \in LiveSet : fdOf'[c] = fdOf[c]
    BY <1>2, <1>4, <2>1 DEF LiveSet, Holding
  <2>2. ASSUME ~Misdirected' PROVE {fdOf'[c] : c \in LiveSet'} = {fdOf[c] : c \in LiveSet}
    BY <1>2, <2>1, <2>2
  <2>3. Filed' = Filed /\ clnt_socks' = clnt_socks
    BY <1>1 DEF Filed, registry
  <2>. QED  BY <1>2, <1>m, <2>1, <2>2, <2>3, MisdirectedStays DEF RegInv, RegistryExact
<1>. QED  BY <1>3, <1>5, <1>6 DEF RegInv

\* The initial registry is empty and so is the set of live handlers.
LEMMA RegInit == Init => RegInv
  BY DEF Init, RegInv, FdsInv, HeldInv, Holding, Live, RegistryExact, Filed, LiveSet, Misdirected

\* Every step preserves RegInv.
LEMMA RegNext == CountInv /\ RegInv /\ [Next]_vars => RegInv'
<1>. SUFFICES ASSUME CountInv, RegInv, [Next]_vars PROVE RegInv'
  OBVIOUS
<1>p. pc \in [Clients -> PCs] /\ cur \in Clients \cup {NoOne}
  BY DEF CountInv, TypeOK, ThreadTypes, ServerTypes
<1>1. CASE Main
  <2>1. CASE AcceptError
    BY <1>1, <2>1, RegSame DEF AcceptError, threadVars, netVars, LiveSet, Next
  <2>2. CASE CreateThread
    <3>1. /\ LiveSet' = LiveSet
          /\ \A c \in Clients : /\ pc'[c] = "none" => pc[c] = "none"
                                /\ pc'[c] \in Holding => pc[c] \in Holding
      BY <1>p, <2>2 DEF CreateThread, LiveSet, Live, Holding
    <3>. QED  BY <1>1, <2>2, <3>1, RegSame DEF CreateThread, netVars, Next
  <2>. QED  BY <1>1, <2>1, <2>2, RegAccept, RegRegister DEF Main
<1>2. ASSUME NEW t \in Clients, Handler(t) PROVE RegInv'
  <2>1. CASE Remove(t) \/ CloseSock(t)
    BY <2>1, RegRemove, RegClose
  <2>2. CASE ~Remove(t) /\ ~CloseSock(t)
    <3>1. \E p \in Live : pc' = [pc EXCEPT ![t] = p] /\ pc[t] \in Live
      BY <1>2, <1>p, <2>2 DEF Handler, StartHandler, ReadData, ReadEof, ReadError, SendLock,
           SendWrite, SendUnlock, Live
    <3>2. UNCHANGED <<registry, fdOf, meant>>
      BY <1>2, <2>2 DEF Handler, StartHandler, ReadData, ReadEof, ReadError, SendLock,
           SendWrite, SendUnlock, netVars
    <3>3. /\ LiveSet' = LiveSet
          /\ \A c \in Clients : /\ pc'[c] = "none" => pc[c] = "none"
                                /\ pc'[c] \in Holding => pc[c] \in Holding
      BY <1>p, <3>1 DEF LiveSet, Live, Holding
    <3>. QED  BY <1>2, <3>2, <3>3, RegSame DEF Next
  <2>. QED  BY <2>1, <2>2
<1>3. ASSUME NEW c \in Clients, Client(c) PROVE RegInv'
  <2>1. UNCHANGED <<registry, fdOf, meant, pc>> /\ LiveSet' = LiveSet
    BY <1>3 DEF Client, Connect, ClientSend, ClientQuit, ClientRecv, threadVars, LiveSet
  <2>. QED  BY <1>3, <2>1, RegSame DEF Next
<1>4. CASE UNCHANGED vars
  BY <1>4 DEF vars, mainVars, registry, threadVars, netVars, RegInv, FdsInv, HeldInv,
              RegistryExact, Filed, LiveSet, Misdirected
<1>. QED  BY <1>1, <1>2, <1>3, <1>4 DEF Next

\* While every handler has the descriptor accepted for it, clnt_socks lists
\* the descriptors of exactly the live handlers, each once.
THEOREM RegistryCorrect == Spec => []RegistryExact
<1>1. RegInv => RegistryExact
  BY DEF RegInv
<1>. QED  BY Invariance, RegInit, RegNext, <1>1, PTL DEF Spec

-----------------------------------------------------------------------------
(* The clients' screens agree as long as no hand-off has gone wrong.       *)

\* The mutex is held exactly in a broadcast, whatever went wrong.
MutexInv == \A t \in Clients : pc[t] = "write" <=> mutex = t

\* How many units of s a handler has put before everybody: read, and not
\* waiting for the mutex.
Told(s) == sent[s] - Len(inq[s]) - (IF pc[s] = "lock" THEN Len(msg[s]) ELSE 0)

\* q is the text of s after its first n units.
Numbered(s, q, n) == \A j \in 1..Len(q) : q[j] = <<s, n + j>>

\* What the server has not read of s is the end of what s wrote, and what it
\* has read and not sent is the part before that.
TextOf(s) ==
    /\ Told(s) \in Nat
    /\ Numbered(s, inq[s], sent[s] - Len(inq[s]))
    /\ pc[s] = "lock" => Numbered(s, msg[s], Told(s))

\* Nobody is written to before being registered, and a handler only leaves
\* when the client has left.
PlaceOf(r) ==
    /\ pc[r] \in {"none", "accepted"} => got[r] = <<>> /\ outq[r] = <<>>
    /\ pc[r] \in {"remove", "close", "done"} => conn[r] # "open"

\* What the broadcast under way will still write to r.
Due(r) ==
    IF mutex # NoOne /\ (\E k \in Filed : k >= idx[mutex] /\ clnt_socks[k] = fdOf[r])
    THEN msg[mutex] ELSE <<>>

Within(x, m) == \E a, b \in Text : m = (a \o x) \o b
EndsIn(x, m) == \E a \in Text : m = a \o x

\* The units of each sender are in the order of their numbers, once each.
InTurn(m) == \A i, j \in 1..Len(m) : m[i][1] = m[j][1] => (i < j <=> m[i][2] < m[j][2])

\* m has of each sender what was put before everybody.
AllTold(m) == \A s \in Clients, n \in 1..MaxSent :
                  (\E i \in 1..Len(m) : m[i] = <<s, n>>) <=> n <= Told(s)

\* m is the conversation: each client sees a stretch of it, and who is there
\* and registered will have seen it to its end when the broadcast is over.
Room(m) ==
    /\ InTurn(m) /\ AllTold(m)
    /\ \A r \in Clients : Within(Stream(r), m)
    /\ \A r \in LiveSet : conn[r] = "open" => EndsIn(Stream(r) \o Due(r), m)

OneRoom == \E m \in Text : Room(m)

TextInv == \A c \in Clients : TextOf(c) /\ PlaceOf(c)

OrderInv == MutexInv /\ (~Misdirected => TextInv /\ OneRoom)

\* The types of the text.
LEMMA TextTypes ==
    ASSUME TypeOK
    PROVE  \A c \in Clients : /\ inq[c] \in Text /\ msg[c] \in Text
                              /\ got[c] \in Text /\ outq[c] \in Text /\ Stream(c) \in Text
                              /\ sent[c] \in 0..MaxSent /\ Due(c) \in Text
<1>. SUFFICES ASSUME NEW c \in Clients
              PROVE  /\ inq[c] \in Text /\ msg[c] \in Text
                     /\ got[c] \in Text /\ outq[c] \in Text /\ Stream(c) \in Text
                     /\ sent[c] \in 0..MaxSent /\ Due(c) \in Text
  OBVIOUS
<1>1. /\ inq[c] \in Text /\ \A t \in Clients : msg[t] \in Text
      /\ got[c] \in Text /\ outq[c] \in Text /\ sent[c] \in 0..MaxSent
  BY DEF TypeOK, NetTypes, ThreadTypes, Text
<1>2. Joins(got[c], outq[c])
  BY <1>1, JoinText, Zenon
<1>3. Stream(c) \in Text /\ <<>> \in Text
  BY <1>2, Zenon DEF Joins, Stream
<1>4. mutex # NoOne => mutex \in Clients
  BY DEF TypeOK, ServerTypes
<1>5. Due(c) \in Text
  BY <1>1, <1>3, <1>4, Zenon DEF Due
<1>. QED  BY <1>1, <1>3, <1>5

\* As long as no hand-off has gone wrong, a handler works on its own
\* connection and on no other.
LEMMA OwnDescriptor ==
    ASSUME CountInv, RegInv, ~Misdirected, NEW t \in Clients,
           pc[t] \in {"read", "lock", "write", "remove", "close"}
    PROVE  fdOf[t] = sock[t] /\ \A c \in Clients : fdOf[c] = sock[t] => c = t
<1>1. HeldInv /\ FdsInv
  BY DEF RegInv
<1>2. pc[t] \in Holding /\ sock[t] = meant[t]
  BY DEF Misdirected, Holding, Live
<1>3. fdOf[t] = meant[t] /\ fdOf[t] # NoFd
  BY <1>1, <1>2 DEF HeldInv
<1>. QED  BY <1>1, <1>2, <1>3 DEF FdsInv

\* Every registered connection is in one place of the array.
LEMMA OwnSlot ==
    ASSUME CountInv, RegInv, ~Misdirected
    PROVE  /\ \A j, k \in Filed : clnt_socks[j] = clnt_socks[k] => j = k
           /\ \A c \in LiveSet : /\ \E k \in Filed : clnt_socks[k] = fdOf[c]
                                 /\ fdOf[c] # NoFd
                                 /\ \A d \in Clients : fdOf[d] = fdOf[c] => d = c
           /\ Filed \subseteq Nat
<1>1. /\ \A j, k \in Filed : clnt_socks[j] = clnt_socks[k] => j = k
      /\ {clnt_socks[k] : k \in Filed} = {fdOf[c] : c \in LiveSet}
      /\ \A c \in LiveSet : fdOf[c] # NoFd
  BY DEF RegInv, RegistryExact
<1>2. \A c \in LiveSet : \A d \in Clients : fdOf[d] = fdOf[c] => d = c
  BY <1>1 DEF RegInv, FdsInv, LiveSet
<1>3. \A c \in LiveSet : \E k \in Filed : clnt_socks[k] = fdOf[c]
  BY <1>1
<1>4. Filed \subseteq Nat
  BY DEF Filed, CountInv, TypeOK, ServerTypes
<1>. QED  BY <1>1, <1>2, <1>3, <1>4

\* The mutex is taken by the one who starts a broadcast, when it is free.
LEMMA MutexStep ==
    ASSUME CountInv, MutexInv, [Next]_vars
    PROVE  MutexInv'
<1>p. pc \in [Clients -> PCs] /\ cur \in Clients \cup {NoOne}
  BY DEF CountInv, TypeOK, ThreadTypes, ServerTypes
<1>1. CASE Main
  <2>1. CASE Accept
    <3>1. backlog # <<>> /\ backlog \in Seq(Clients)
      BY <2>1 DEF Accept, CountInv, TypeOK, NetTypes
    <3>2. Head(backlog) \in Clients /\ Head(backlog) = backlog[1] /\ 1 \in DOMAIN backlog
      BY <3>1, HeadTailProperties
    <3>3. pc[Head(backlog)] = "none"
      BY <3>2 DEF CountInv, QueueInv
    <3>. QED  BY <1>p, <2>1, <3>2, <3>3 DEF Accept, MutexInv
  <2>2. CASE AcceptError \/ Register \/ CreateThread
    BY <1>p, <2>2 DEF AcceptError, Register, CreateThread, MutexInv, threadVars
  <2>. QED  BY <1>1, <2>1, <2>2 DEF Main
<1>2. ASSUME NEW t \in Clients, Handler(t) PROVE MutexInv'
  <2>1. CASE SendLock(t) \/ SendUnlock(t)
    BY <1>p, <2>1 DEF SendLock, SendUnlock, MutexInv
  <2>2. CASE ~SendLock(t) /\ ~SendUnlock(t)
    <3>1. mutex' = mutex
      BY <1>2, <2>2 DEF Handler, StartHandler, ReadData, ReadEof, ReadError, SendWrite, Remove, CloseSock
    <3>2. \A c \in Clients : pc'[c] = "write" <=> pc[c] = "write"
      BY <1>p, <1>2, <2>2 DEF Handler, StartHandler, ReadData, ReadEof, ReadError, SendWrite,
           Remove, CloseSock
    <3>. QED  BY <3>1, <3>2 DEF MutexInv
  <2>. QED  BY <2>1, <2>2
<1>3. ASSUME NEW c \in Clients, Client(c) PROVE MutexInv'
  BY <1>3 DEF Client, Connect, ClientSend, ClientQuit, ClientRecv, threadVars, MutexInv
<1>4. CASE UNCHANGED vars
  BY <1>4 DEF vars, threadVars, MutexInv
<1>. QED  BY <1>1, <1>2, <1>3, <1>4 DEF Next

\* What TextOf says of a client is untouched by a step that touches neither
\* what the client wrote nor what its handler holds.
LEMMA TextSame ==
    ASSUME NEW c \in Clients, TextOf(c), sent'[c] = sent[c], inq'[c] = inq[c],
           pc'[c] = "lock" <=> pc[c] = "lock", pc[c] = "lock" => msg'[c] = msg[c]
    PROVE  TextOf(c)' /\ Told(c)' = Told(c)
<1>1. Told(c)' = Told(c)
  BY Zenon DEF Told
<1>. QED  BY <1>1, Zenon DEF TextOf, Numbered

\* A read takes the front of what is unread to the broadcast.
LEMMA TextRead ==
    ASSUME CountInv, RegInv, ~Misdirected, NEW t \in Clients, TextOf(t), ReadData(t)
    PROVE  /\ TextOf(t)' /\ Told(t)' = Told(t)
           /\ \A c \in Clients : c # t => inq'[c] = inq[c] /\ msg'[c] = msg[c]
<1>p. /\ inq[t] \in Text /\ sent[t] \in 0..MaxSent /\ Len(inq[t]) \in Nat
      /\ pc \in [Clients -> PCs] /\ msg \in [Clients -> Text] /\ inq \in [Clients -> Text]
  BY DEF CountInv, TypeOK, NetTypes, ThreadTypes, Text
<1>1. pc[t] = "read" /\ pc' = [pc EXCEPT ![t] = "lock"] /\ sent' = sent
  BY DEF ReadData
<1>2. \A c \in Clients : fdOf[c] = sock[t] => c = t
  BY <1>1, OwnDescriptor
<1>3. PICK n \in 1..BUF_SIZE : /\ n <= Len(inq[t]) /\ msg' = [msg EXCEPT ![t] = SubSeq(inq[t], 1, n)]
                               /\ inq' = [inq EXCEPT ![t] = Unread(inq[t], n)]
  BY <1>2 DEF ReadData
<1>. DEFINE q == inq[t]
            a == SubSeq(q, 1, n)
            b == SubSeq(q, n + 1, Len(q))
<1>4. /\ Len(a) = n /\ \A j \in 1..n : a[j] = q[j]
      /\ Len(b) = Len(q) - n /\ \A j \in 1..(Len(q) - n) : b[j] = q[n + j]
  BY <1>p, <1>3 DEF Text
<1>5. /\ inq'[t] = b /\ msg'[t] = a /\ pc'[t] = "lock"
      /\ \A c \in Clients : c # t => inq'[c] = inq[c] /\ msg'[c] = msg[c]
  BY <1>p, <1>1, <1>3 DEF Unread
<1>. HIDE DEF a, b
<1>6. Told(t) = sent[t] - Len(q) /\ Told(t)' = sent[t] - Len(b) - Len(a)
  <2>1. Told(t) = sent[t] - Len(q) - 0
    BY <1>1, Zenon DEF Told
  <2>2. sent[t] - Len(q) - 0 = sent[t] - Len(q)
    BY <1>p
  <2>3. Told(t)' = sent[t] - Len(b) - Len(a)
    BY <1>1, <1>5, Zenon DEF Told
  <2>. QED  BY <2>1, <2>2, <2>3, Zenon
<1>7. /\ n \in Nat /\ Len(q) \in Nat /\ sent[t] \in Nat
      /\ sent[t] - (Len(q) - n) - n = sent[t] - Len(q)
      /\ sent[t] - (Len(q) - n) = (sent[t] - Len(q)) + n
  BY <1>p, <1>3
<1>8. Told(t)' = Told(t)
  BY <1>4, <1>6, <1>7, Zenon
<1>9. \A j \in 1..Len(q) : q[j] = <<t, Told(t) + j>>
  BY <1>6, Zenon DEF TextOf, Numbered
<1>10. \A j \in 1..Len(a) : a[j] = <<t, Told(t) + j>>
  <2>1. \A j \in 1..n : j \in 1..Len(q)
    BY <1>p, <1>3
  <2>. QED  BY <1>4, <1>9, <2>1, Zenon
<1>11. \A j \in 1..Len(b) : b[j] = <<t, (sent[t] - Len(b)) + j>>
  <2>1. Told(t) \in Nat
    BY Zenon DEF TextOf
  <2>2. \A j \in 1..(Len(q) - n) : n + j \in 1..Len(q) /\ Told(t) + (n + j) = (Told(t) + n) + j
    BY <1>7, <2>1
  <2>3. \A j \in 1..(Len(q) - n) : b[j] = <<t, (Told(t) + n) + j>>
    <3>. TAKE j \in 1..(Len(q) - n)
    <3>1. b[j] = q[n + j] /\ n + j \in 1..Len(q)
      BY <1>4, <2>2
    <3>2. q[n + j] = <<t, Told(t) + (n + j)>>
      BY <1>9, <3>1, Zenon
    <3>3. Told(t) + (n + j) = (Told(t) + n) + j
      BY <2>2
    <3>. QED  BY <3>1, <3>2, <3>3, Zenon
  <2>. QED  BY <1>4, <1>6, <1>7, <2>3, Zenon
<1>12. Numbered(t, inq'[t], sent'[t] - Len(inq'[t])) /\ Numbered(t, msg'[t], Told(t)')
  BY <1>1, <1>5, <1>8, <1>10, <1>11, Zenon DEF Numbered
<1>13. TextOf(t)'
  BY <1>8, <1>12, Zenon DEF TextOf, Numbered
<1>. QED  BY <1>5, <1>8, <1>13

\* The client writes the next number.
LEMMA TextWrite ==
    ASSUME TypeOK, NEW c \in Clients, TextOf(c), ClientSend(c)
    PROVE  TextOf(c)' /\ Told(c)' = Told(c)
<1>p. /\ inq[c] \in Text /\ inq \in [Clients -> Text] /\ sent[c] \in Nat /\ sent \in [Clients -> 0..MaxSent]
  BY DEF TypeOK, NetTypes, Text
<1>. DEFINE q == inq[c]
            z == Append(q, <<c, sent[c] + 1>>)
<1>1. inq'[c] = z /\ sent'[c] = sent[c] + 1 /\ pc' = pc /\ msg' = msg
  BY <1>p DEF ClientSend, threadVars
<1>2. /\ Len(q) \in Nat /\ Len(z) = Len(q) + 1 /\ \A j \in 1..Len(q) : z[j] = q[j]
      /\ z[Len(q) + 1] = <<c, sent[c] + 1>>
  BY <1>p DEF Text
<1>. HIDE DEF z
<1>3. /\ (sent[c] + 1) - (Len(q) + 1) = sent[c] - Len(q)
      /\ (sent[c] - Len(q)) + (Len(q) + 1) = sent[c] + 1
  BY <1>p, <1>2
<1>4. Told(c)' = Told(c)
  BY <1>1, <1>2, <1>3, Zenon DEF Told
<1>5. \A j \in 1..Len(z) : z[j] = <<c, (sent[c] - Len(q)) + j>>
  <2>1. \A j \in 1..Len(q) : q[j] = <<c, (sent[c] - Len(q)) + j>>
    BY Zenon DEF TextOf, Numbered
  <2>2. \A j \in 1..(Len(q) + 1) : j \in 1..Len(q) \/ j = Len(q) + 1
    BY <1>2
  <2>. QED  BY <1>2, <1>3, <2>1, <2>2, Zenon
<1>6. Numbered(c, inq'[c], sent'[c] - Len(inq'[c]))
  BY <1>1, <1>2, <1>3, <1>5, Zenon DEF Numbered
<1>7. pc'[c] = "lock" => Numbered(c, msg'[c], Told(c)')
  BY <1>1, <1>4, Zenon DEF TextOf
<1>. QED  BY <1>4, <1>6, <1>7, Zenon DEF TextOf, Numbered

\* At the lock the handler's text is put before everybody.
LEMMA TextLock ==
    ASSUME TypeOK, NEW t \in Clients, TextOf(t), SendLock(t)
    PROVE  TextOf(t)' /\ Told(t)' = Told(t) + Len(msg[t])
<1>p. /\ inq[t] \in Text /\ sent[t] \in Nat /\ pc \in [Clients -> PCs] /\ msg[t] \in Text
      /\ Len(inq[t]) \in Nat /\ Len(msg[t]) \in Nat
  BY DEF TypeOK, NetTypes, ThreadTypes, Text
<1>1. /\ pc[t] = "lock" /\ pc'[t] = "write" /\ inq' = inq /\ sent' = sent
  BY <1>p DEF SendLock, netVars
<1>2. Told(t) = sent[t] - Len(inq[t]) - Len(msg[t]) /\ Told(t)' = sent[t] - Len(inq[t]) - 0
  BY <1>1, Zenon DEF Told
<1>3. sent[t] - Len(inq[t]) - 0 = (sent[t] - Len(inq[t]) - Len(msg[t])) + Len(msg[t])
  BY <1>p
<1>4. Told(t)' = Told(t) + Len(msg[t])
  BY <1>2, <1>3, Zenon
<1>5. Told(t)' \in Nat
  <2>1. Told(t) \in Nat
    BY Zenon DEF TextOf
  <2>. QED  BY <1>p, <1>4, <2>1
<1>6. Numbered(t, inq[t], sent[t] - Len(inq[t]))
  BY Zenon DEF TextOf
<1>7. TextOf(t)'
  BY <1>1, <1>5, <1>6 DEF TextOf, Numbered
<1>. QED  BY <1>4, <1>7

\* A failed read leaves nothing to send.
LEMMA TextError ==
    ASSUME TypeOK, NEW t \in Clients, TextOf(t), ReadError(t)
    PROVE  TextOf(t)' /\ Told(t)' = Told(t)
<1>p. /\ pc \in [Clients -> PCs] /\ msg \in [Clients -> Text] /\ Len(<<>>) = 0
  BY DEF TypeOK, ThreadTypes, Text
<1>1. /\ pc[t] = "read" /\ pc'[t] = "lock" /\ inq' = inq /\ sent' = sent /\ msg'[t] = <<>>
  BY <1>p DEF ReadError
<1>2. Told(t)' = Told(t)
  <2>1. Told(t) = sent[t] - Len(inq[t]) - 0 /\ Told(t)' = sent[t] - Len(inq[t]) - Len(<<>>)
    BY <1>1, Zenon DEF Told
  <2>. QED  BY <1>p, <2>1, Zenon
<1>3. Numbered(t, msg'[t], Told(t)')
  BY <1>1 DEF Numbered
<1>. QED  BY <1>1, <1>2, <1>3, Zenon DEF TextOf, Numbered

\* Every other step leaves the text of everybody where it is.
LEMMA TextStep ==
    ASSUME CountInv, RegInv, ~Misdirected, TextInv, Next, NEW c \in Clients
    PROVE  TextOf(c)' /\ (SendLock(c) \/ Told(c)' = Told(c))
<1>p. /\ pc \in [Clients -> PCs] /\ inq \in [Clients -> Seq(Units)] /\ sent \in [Clients -> 0..MaxSent]
      /\ msg \in [Clients -> Seq(Units)] /\ cur \in Clients \cup {NoOne} /\ TypeOK
  BY DEF CountInv, TypeOK, ThreadTypes, ServerTypes, NetTypes
<1>0. TextOf(c)
  BY DEF TextInv
<1>. DEFINE Untouched == /\ sent'[c] = sent[c] /\ inq'[c] = inq[c]
                         /\ pc'[c] = "lock" <=> pc[c] = "lock"
                         /\ pc[c] = "lock" => msg'[c] = msg[c]
<1>s. SUFFICES ASSUME ~ (ClientSend(c) \/ ReadData(c) \/ ReadError(c) \/ SendLock(c))
               PROVE  Untouched
  BY <1>p, <1>0, TextSame, TextRead, TextWrite, TextLock, TextError
<1>1. CASE Main
  <2>1. CASE Accept
    <3>1. backlog # <<>> /\ backlog \in Seq(Clients)
      BY <2>1 DEF Accept, CountInv, TypeOK, NetTypes
    <3>2. Head(backlog) \in Clients /\ Head(backlog) = backlog[1] /\ 1 \in DOMAIN backlog
      BY <3>1, HeadTailProperties
    <3>3. pc[Head(backlog)] = "none"
      BY <3>2 DEF CountInv, QueueInv
    <3>. QED  BY <1>p, <2>1, <3>2, <3>3 DEF Accept
  <2>2. CASE AcceptError \/ Register \/ CreateThread
    BY <1>p, <2>2 DEF AcceptError, Register, CreateThread, threadVars, netVars
  <2>. QED  BY <1>1, <2>1, <2>2 DEF Main
<1>2. ASSUME NEW t \in Clients, Handler(t) PROVE Untouched
  <2>1. CASE ReadData(t)
    <3>1. t # c /\ TextOf(t)
      BY <1>s, <2>1 DEF TextInv
    <3>2. inq'[c] = inq[c] /\ msg'[c] = msg[c]
      BY <2>1, <3>1, TextRead
    <3>. QED  BY <1>p, <2>1, <3>1, <3>2 DEF ReadData
  <2>2. CASE ReadError(t) \/ SendLock(t)
    BY <1>p, <1>s, <2>2 DEF ReadError, SendLock, netVars
  <2>3. CASE StartHandler(t) \/ ReadEof(t) \/ SendWrite(t) \/ SendUnlock(t) \/ Remove(t) \/ CloseSock(t)
    BY <1>p, <2>3 DEF StartHandler, ReadEof, SendWrite, SendUnlock, Remove, CloseSock, netVars
  <2>. QED  BY <1>2, <2>1, <2>2, <2>3 DEF Handler
<1>3. ASSUME NEW d \in Clients, Client(d) PROVE Untouched
  BY <1>p, <1>s, <1>3 DEF Client, Connect, ClientSend, ClientQuit, ClientRecv, threadVars
<1>. QED  BY <1>1, <1>2, <1>3 DEF Next

\* One write of a broadcast: it puts the whole text behind what a registered,
\* open connection has, or it reaches nobody who is there.
LEMMA WriteCases ==
    ASSUME CountInv, RegInv, ~Misdirected, MutexInv, NEW t \in Clients, SendWrite(t)
    PROVE  /\ mutex = t /\ idx[t] \in Filed /\ idx'[t] = idx[t] + 1
           /\ \A c \in Clients : conn'[c] = "open" => conn[c] = "open"
           /\ \/ /\ outq' = outq
                 /\ \A r \in LiveSet : conn'[r] = "open" /\ fdOf[r] = clnt_socks[idx[t]] => msg[t] = <<>>
              \/ /\ conn' = conn
                 /\ \E d \in LiveSet : /\ fdOf[d] = clnt_socks[idx[t]] /\ conn[d] = "open"
                                       /\ outq' = [outq EXCEPT ![d] = @ \o msg[t]]
<1>p. /\ conn \in [Clients -> {"idle", "open", "fin", "rst", "dead"}] /\ idx \in [Clients -> Nat]
      /\ clnt_cnt \in Nat
  <2>1. /\ conn \in [Clients -> {"idle", "open", "fin", "rst", "dead"}] /\ idx \in [Clients -> Nat]
        /\ clnt_cnt \in 0..MAX_CLNT
    BY Zenon DEF CountInv, TypeOK, NetTypes, ThreadTypes, ServerTypes
  <2>. QED  BY <2>1
<1>1. mutex = t /\ idx[t] \in Filed /\ idx'[t] = idx[t] + 1
  BY <1>p DEF SendWrite, MutexInv, Filed
<1>2. CASE /\ UNCHANGED <<up, conn, outq>>
           /\ msg[t] = <<>> \/ \A c \in Clients : fdOf[c] # clnt_socks[idx[t]]
  BY <1>1, <1>2 DEF LiveSet
<1>3. ASSUME NEW d \in Clients, fdOf[d] = clnt_socks[idx[t]], Deliver(t, d)
      PROVE  /\ \A c \in Clients : conn'[c] = "open" => conn[c] = "open"
             /\ \/ /\ outq' = outq
                   /\ \A r \in LiveSet : conn'[r] = "open" /\ fdOf[r] = clnt_socks[idx[t]] => msg[t] = <<>>
                \/ /\ conn' = conn
                   /\ \E e \in LiveSet : /\ fdOf[e] = clnt_socks[idx[t]] /\ conn[e] = "open"
                                         /\ outq' = [outq EXCEPT ![e] = @ \o msg[t]]
  <2>1. PICK e \in LiveSet : fdOf[e] = clnt_socks[idx[t]]
    <3>1. {clnt_socks[k] : k \in Filed} = {fdOf[c] : c \in LiveSet}
      BY DEF RegInv, RegistryExact
    <3>. QED  BY <1>1, <3>1
  <2>2. d \in LiveSet /\ \A r \in LiveSet : fdOf[r] = clnt_socks[idx[t]] => r = d
    BY <1>3, <2>1, OwnSlot DEF LiveSet
  <2>3. CASE conn[d] = "open"
    BY <1>3, <2>2, <2>3 DEF Deliver
  <2>4. CASE conn[d] # "open"
    <3>1. outq' = outq /\ conn'[d] # "open" /\ \A c \in Clients : c # d => conn'[c] = conn[c]
      BY <1>p, <1>3, <2>4 DEF Deliver
    <3>. QED  BY <2>2, <3>1
  <2>. QED  BY <2>3, <2>4
<1>. QED  BY <1>1, <1>2, <1>3 DEF SendWrite

\* PlaceOf depends on little.
LEMMA PlaceSame ==
    ASSUME NEW c \in Clients, PlaceOf(c), got'[c] = got[c], outq'[c] = outq[c],
           pc'[c] \in {"none", "accepted"} => pc[c] \in {"none", "accepted"},
           pc'[c] \in {"remove", "close", "done"} => pc[c] \in {"remove", "close", "done"},
           conn'[c] = "open" => conn[c] = "open"
    PROVE  PlaceOf(c)'
  BY Zenon DEF PlaceOf

\* Nobody comes back, and nobody hears before being registered.
LEMMA PlaceStep ==
    ASSUME CountInv, RegInv, ~Misdirected, MutexInv, TextInv, Next, NEW c \in Clients
    PROVE  PlaceOf(c)'
<1>p. /\ pc \in [Clients -> PCs] /\ outq \in [Clients -> Seq(Units)] /\ got \in [Clients -> Seq(Units)]
      /\ conn \in [Clients -> {"idle", "open", "fin", "rst", "dead"}] /\ cur \in Clients \cup {NoOne}
  BY DEF CountInv, TypeOK, ThreadTypes, ServerTypes, NetTypes
<1>0. PlaceOf(c)
  BY DEF TextInv
<1>1. CASE Main
  <2>1. CASE Accept
    <3>1. backlog # <<>> /\ backlog \in Seq(Clients)
      BY <2>1 DEF Accept, CountInv, TypeOK, NetTypes
    <3>2. Head(backlog) \in Clients /\ Head(backlog) = backlog[1] /\ 1 \in DOMAIN backlog
      BY <3>1, HeadTailProperties
    <3>3. pc[Head(backlog)] = "none"
      BY <3>2 DEF CountInv, QueueInv
    <3>. QED  BY <1>0, <1>p, <2>1, <3>2, <3>3, PlaceSame DEF Accept
  <2>2. CASE AcceptError \/ Register \/ CreateThread
    BY <1>0, <1>p, <2>2, PlaceSame DEF AcceptError, Register, CreateThread, threadVars, netVars
  <2>. QED  BY <1>1, <2>1, <2>2 DEF Main
<1>2. ASSUME NEW t \in Clients, Handler(t) PROVE PlaceOf(c)'
  <2>1. CASE SendWrite(t)
    <3>1. pc' = pc /\ got' = got /\ (conn'[c] = "open" => conn[c] = "open")
      BY <2>1, WriteCases DEF SendWrite
    <3>2. c \in LiveSet \/ outq'[c] = outq[c]
      BY <1>p, <2>1, WriteCases
    <3>3. c \in LiveSet => pc[c] \notin {"none", "accepted"}
      BY DEF LiveSet, Live
    <3>. QED  BY <1>0, <3>1, <3>2, <3>3, Zenon DEF PlaceOf
  <2>2. CASE ReadEof(t)
    <3>1. t # c => PlaceOf(c)'
      BY <1>0, <1>p, <2>2, PlaceSame DEF ReadEof, netVars
    <3>2. conn[t] # "open" /\ pc'[t] = "remove" /\ conn' = conn
      BY <1>p, <2>2, OwnDescriptor DEF ReadEof, netVars
    <3>3. PlaceOf(t)'
      BY <3>2 DEF PlaceOf
    <3>. QED  BY <3>1, <3>3
  <2>3. CASE StartHandler(t) \/ ReadData(t) \/ SendLock(t) \/ SendUnlock(t) \/ Remove(t) \/ CloseSock(t)
    BY <1>0, <1>p, <2>3, PlaceSame DEF StartHandler, ReadData, SendLock, SendUnlock, Remove, CloseSock, netVars
  <2>4. CASE ReadError(t)
    <3>1. conn'[c] = "open" => conn[c] = "open"
      BY <1>p, <2>4 DEF ReadError
    <3>. QED  BY <1>0, <1>p, <2>4, <3>1, PlaceSame DEF ReadError
  <2>. QED  BY <1>2, <2>1, <2>2, <2>3, <2>4 DEF Handler
<1>3. ASSUME NEW d \in Clients, Client(d) PROVE PlaceOf(c)'
  <2>1. CASE Connect(d)
    <3>1. pc' = pc /\ got' = got /\ outq' = outq
      BY <2>1 DEF Connect, threadVars
    <3>2. conn[d] = "idle" /\ (c # d => conn'[c] = conn[c])
      BY <1>p, <2>1 DEF Connect
    <3>3. pc[d] = "none"
      BY <3>2 DEF CountInv, QueueInv
    <3>. QED  BY <1>0, <3>1, <3>2, <3>3 DEF PlaceOf
  <2>2. CASE ClientSend(d) \/ ClientQuit(d)
    BY <1>0, <1>p, <2>2 DEF ClientSend, ClientQuit, threadVars, PlaceOf
  <2>3. CASE ClientRecv(d)
    <3>1. pc' = pc /\ conn' = conn /\ outq[d] # <<>>
      BY <2>3 DEF ClientRecv, threadVars
    <3>2. c # d => got'[c] = got[c] /\ outq'[c] = outq[c]
      BY <1>p, <2>3 DEF ClientRecv
    <3>3. c = d => pc[c] \notin {"none", "accepted"}
      BY <1>0, <3>1 DEF PlaceOf
    <3>. QED  BY <1>0, <3>1, <3>2, <3>3, Zenon DEF PlaceOf
  <2>. QED  BY <1>3, <2>1, <2>2, <2>3 DEF Client
<1>. QED  BY <1>1, <1>2, <1>3 DEF Next

\* Stretches of a text.
LEMMA WithinBegins ==
    ASSUME NEW x \in Text, NEW y \in Text, NEW m, Within(x \o y, m)
    PROVE  Within(x, m)
<1>1. PICK a \in Text, b \in Text : m = (a \o (x \o y)) \o b
  BY DEF Within
<1>2. Regroups(a, x, y) /\ Joins(a, x) /\ Joins(y, b)
  BY RegroupText, JoinText, Zenon
<1>3. Regroups(a \o x, y, b)
  BY <1>2, RegroupText, Zenon DEF Joins
<1>4. m = (a \o x) \o (y \o b) /\ y \o b \in Text
  BY <1>1, <1>2, <1>3, Zenon DEF Regroups, Joins
<1>. QED  BY <1>4, Zenon DEF Within

LEMMA EndsWithin ==
    ASSUME NEW x \in Text, NEW m, EndsIn(x, m)
    PROVE  Within(x, m) /\ EndsIn(x \o <<>>, m)
<1>1. PICK a \in Text : m = a \o x
  BY DEF EndsIn
<1>2. Joins(a, x)
  BY JoinText, Zenon
<1>3. Joins(a, a \o x)
  BY <1>2, JoinText, Zenon DEF Joins
<1>4. m = (a \o x) \o <<>> /\ <<>> \in Text /\ x \o <<>> = x
  BY <1>1, <1>2, <1>3, Zenon DEF Joins
<1>. QED  BY <1>1, <1>4, Zenon DEF Within, EndsIn

LEMMA WithinGrows ==
    ASSUME NEW x \in Text, NEW m \in Text, NEW e \in Text, Within(x, m)
    PROVE  Within(x, m \o e)
<1>1. PICK a \in Text, b \in Text : m = (a \o x) \o b
  BY DEF Within
<1>2. Joins(a, x) /\ Joins(b, e)
  BY JoinText, Zenon
<1>3. Regroups(a \o x, b, e)
  BY <1>2, RegroupText, Zenon DEF Joins
<1>4. m \o e = (a \o x) \o (b \o e) /\ b \o e \in Text
  BY <1>1, <1>2, <1>3, Zenon DEF Regroups, Joins
<1>. QED  BY <1>4, Zenon DEF Within

LEMMA EndsGrows ==
    ASSUME NEW x \in Text, NEW m \in Text, NEW e \in Text, EndsIn(x \o <<>>, m)
    PROVE  EndsIn(x \o e, m \o e)
<1>1. PICK a \in Text : m = a \o (x \o <<>>)
  BY DEF EndsIn
<1>2. Joins(a, x) /\ Regroups(a, x, e)
  BY JoinText, RegroupText, Zenon
<1>3. m \o e = a \o (x \o e)
  BY <1>1, <1>2, Zenon DEF Joins, Regroups
<1>. QED  BY <1>3, Zenon DEF EndsIn

LEMMA NothingWithin ==
    ASSUME NEW m \in Text
    PROVE  Within(<<>>, m) /\ EndsIn(<<>> \o <<>>, m)
<1>1. Joins(m, m) /\ Joins(<<>>, <<>>)
  BY JoinText, Zenon DEF Joins
<1>2. m = (<<>> \o <<>>) \o m /\ m = m \o (<<>> \o <<>>) /\ <<>> \in Text
  BY <1>1, Zenon DEF Joins
<1>. QED  BY <1>2, Zenon DEF Within, EndsIn

\* What is due depends on little.
LEMMA DueSame ==
    ASSUME NEW r \in Clients, mutex' = mutex, fdOf'[r] = fdOf[r],
           mutex # NoOne => /\ clnt_cnt' = clnt_cnt /\ clnt_socks' = clnt_socks
                            /\ idx'[mutex] = idx[mutex] /\ msg'[mutex] = msg[mutex]
    PROVE  Due(r)' = Due(r)
<1>1. CASE mutex = NoOne
  BY <1>1, Zenon DEF Due
<1>2. CASE mutex # NoOne
  <2>1. Filed' = Filed
    BY <1>2, Zenon DEF Filed
  <2>. QED  BY <1>2, <2>1, Zenon DEF Due
<1>. QED  BY <1>1, <1>2

\* A conversation stays one if nobody's text is put before everybody and the
\* streams are still stretches of it.
LEMMA RoomKeeps ==
    ASSUME NEW m \in Text, Room(m), \A s \in Clients : Told(s)' = Told(s),
           \A r \in Clients : Within(Stream(r)', m),
           \A r \in LiveSet' : conn'[r] = "open" => EndsIn(Stream(r)' \o Due(r)', m)
    PROVE  Room(m)'
<1>1. AllTold(m)'
  BY Zenon DEF Room, AllTold
<1>2. InTurn(m)'
  BY Zenon DEF Room, InTurn
<1>3. \A r \in Clients : Within(Stream(r), m)'
  BY Zenon DEF Within
<1>4. \A r \in LiveSet' : conn'[r] = "open" => EndsIn(Stream(r) \o Due(r), m)'
  BY Zenon DEF EndsIn
<1>. QED  BY <1>1, <1>2, <1>3, <1>4, Zenon DEF Room

\* Most steps leave the streams and what is due as they are.
LEMMA RoomSame ==
    ASSUME NEW m \in Text, Room(m), \A s \in Clients : Told(s)' = Told(s),
           \A r \in Clients : Stream(r)' = Stream(r),
           \A r \in LiveSet' : conn'[r] = "open" =>
                                 r \in LiveSet /\ conn[r] = "open" /\ Due(r)' = Due(r)
    PROVE  Room(m)'
<1>1. \A r \in Clients : Within(Stream(r)', m)
  BY Zenon DEF Room
<1>2. \A r \in LiveSet' : conn'[r] = "open" => EndsIn(Stream(r)' \o Due(r)', m)
  <2>. TAKE r \in LiveSet'
  <2>. HAVE conn'[r] = "open"
  <2>1. r \in Clients /\ r \in LiveSet /\ conn[r] = "open" /\ Due(r)' = Due(r)
    BY DEF LiveSet
  <2>2. EndsIn(Stream(r) \o Due(r), m) /\ Stream(r)' = Stream(r)
    BY <2>1, Zenon DEF Room
  <2>. QED  BY <2>1, <2>2, Zenon
<1>. QED  BY <1>1, <1>2, RoomKeeps

\* The clients only read, or leave.
LEMMA RoomClient ==
    ASSUME CountInv, RegInv, ~Misdirected, TextInv, NEW c \in Clients, Client(c), NEW m \in Text, Room(m)
    PROVE  Room(m)'
<1>p. /\ pc \in [Clients -> PCs] /\ outq \in [Clients -> Text] /\ got \in [Clients -> Text]
      /\ conn \in [Clients -> {"idle", "open", "fin", "rst", "dead"}] /\ TypeOK
  BY DEF CountInv, TypeOK, ThreadTypes, NetTypes, Text
<1>1. \A s \in Clients : Told(s)' = Told(s)
  <2>1. Next
    BY DEF Next
  <2>2. \A s \in Clients : ~SendLock(s)
    BY <1>p DEF Client, Connect, ClientSend, ClientQuit, ClientRecv, threadVars, SendLock
  <2>. QED  BY <2>1, <2>2, TextStep
<1>2. /\ UNCHANGED <<mutex, fdOf, clnt_cnt, clnt_socks, idx, msg, pc>> /\ LiveSet' = LiveSet
      /\ \A r \in Clients : Due(r)' = Due(r)
  <2>1. UNCHANGED <<mutex, fdOf, clnt_cnt, clnt_socks, idx, msg, pc>>
    BY DEF Client, Connect, ClientSend, ClientQuit, ClientRecv, threadVars, registry
  <2>. QED  BY <2>1, DueSame DEF LiveSet
<1>3. CASE Connect(c) \/ ClientSend(c)
  <2>1. \A r \in Clients : Stream(r)' = Stream(r)
    BY <1>3 DEF Connect, ClientSend, Stream
  <2>2. \A r \in LiveSet : conn'[r] = "open" => conn[r] = "open"
    <3>1. conn[c] = "idle" => pc[c] = "none"
      BY DEF CountInv, QueueInv
    <3>. QED  BY <1>p, <1>3, <3>1 DEF Connect, ClientSend, LiveSet, Live
  <2>3. \A r \in LiveSet' : r \in LiveSet /\ r \in Clients
    BY <1>2 DEF LiveSet
  <2>. QED  BY <1>1, <1>2, <2>1, <2>2, <2>3, RoomSame
<1>4. CASE ClientRecv(c)
  <2>1. \A r \in Clients : Stream(r)' = Stream(r)
    <3>. TAKE r \in Clients
    <3>1. CASE r # c
      BY <1>p, <1>4, <3>1 DEF ClientRecv, Stream
    <3>2. CASE r = c
      <4>1. got'[c] = got[c] \o outq[c] /\ outq'[c] = <<>>
        BY <1>p, <1>4 DEF ClientRecv
      <4>2. Stream(c) \in Text /\ Stream(c) = got[c] \o outq[c]
        BY <1>p, TextTypes DEF Stream
      <4>3. Joins(Stream(c), Stream(c))
        BY <4>2, JoinText, Zenon
      <4>. QED  BY <3>2, <4>1, <4>2, <4>3, Zenon DEF Joins, Stream
    <3>. QED  BY <3>1, <3>2
  <2>2. \A r \in LiveSet' : r \in LiveSet /\ r \in Clients /\ conn' = conn
    BY <1>2, <1>4 DEF LiveSet, ClientRecv
  <2>. QED  BY <1>1, <1>2, <2>1, <2>2, RoomSame
<1>5. CASE ClientQuit(c)
  <2>1. /\ \A r \in Clients : r # c => Stream(r)' = Stream(r) /\ conn'[r] = conn[r]
        /\ Stream(c)' = got[c] \o <<>> /\ conn'[c] # "open"
    BY <1>p, <1>5 DEF ClientQuit, Stream
  <2>2. got[c] \in Text /\ outq[c] \in Text
    BY <1>p
  <2>3. Within(got[c], m)
    BY <2>2, WithinBegins DEF Room, Stream
  <2>4. Stream(c)' = got[c]
    <3>1. Joins(got[c], got[c])
      BY <2>2, JoinText, Zenon
    <3>. QED  BY <2>1, <3>1, Zenon DEF Joins
  <2>5. \A r \in Clients : Within(Stream(r)', m)
    <3>1. \A r \in Clients : Within(Stream(r), m)
      BY DEF Room
    <3>. QED  BY <2>1, <2>3, <2>4, <3>1, Zenon
  <2>6. \A r \in LiveSet' : conn'[r] = "open" => EndsIn(Stream(r)' \o Due(r)', m)
    <3>. TAKE r \in LiveSet'
    <3>. HAVE conn'[r] = "open"
    <3>1. r \in LiveSet /\ r \in Clients /\ r # c
      BY <1>2, <2>1 DEF LiveSet
    <3>2. Stream(r)' = Stream(r) /\ conn[r] = "open" /\ Due(r)' = Due(r)
      BY <1>2, <2>1, <3>1
    <3>3. EndsIn(Stream(r) \o Due(r), m)
      BY <3>1, <3>2, Zenon DEF Room
    <3>. QED  BY <3>2, <3>3, Zenon
  <2>. QED  BY <1>1, <2>5, <2>6, RoomKeeps
<1>. QED  BY <1>3, <1>4, <1>5 DEF Client

\* Main brings in clients who have seen nothing, between broadcasts.
LEMMA RoomMain ==
    ASSUME CountInv, RegInv, ~Misdirected, TextInv, Main, NEW m \in Text, Room(m)
    PROVE  Room(m)'
<1>p. /\ pc \in [Clients -> PCs] /\ fdOf \in [Clients -> FDs \cup {NoFd}]
      /\ cur \in Clients \cup {NoOne} /\ TypeOK
  BY DEF CountInv, TypeOK, ThreadTypes, NetTypes, ServerTypes
<1>1. \A s \in Clients : Told(s)' = Told(s)
  <2>1. Next
    BY DEF Next
  <2>2. \A s \in Clients : ~SendLock(s)
    BY <1>p DEF Main, Accept, AcceptError, Register, CreateThread, threadVars, SendLock
  <2>. QED  BY <2>1, <2>2, TextStep
<1>2. /\ \A r \in Clients : Stream(r)' = Stream(r)
      /\ mutex' = mutex /\ conn' = conn /\ idx' = idx /\ msg' = msg
  BY DEF Main, Accept, AcceptError, Register, CreateThread, threadVars, netVars, Stream
<1>3. CASE Accept
  <2>1. backlog # <<>> /\ backlog \in Seq(Clients)
    BY <1>3 DEF Accept, CountInv, TypeOK, NetTypes
  <2>2. Head(backlog) \in Clients /\ Head(backlog) = backlog[1] /\ 1 \in DOMAIN backlog
    BY <2>1, HeadTailProperties
  <2>3. pc[Head(backlog)] = "none"
    BY <2>2 DEF CountInv, QueueInv
  <2>4. LiveSet' = LiveSet /\ \A r \in LiveSet : r \in Clients /\ fdOf'[r] = fdOf[r]
    BY <1>p, <1>3, <2>2, <2>3 DEF Accept, LiveSet, Live
  <2>5. clnt_cnt' = clnt_cnt /\ clnt_socks' = clnt_socks
    BY <1>3 DEF Accept, registry
  <2>6. \A r \in LiveSet : Due(r)' = Due(r)
    BY <1>2, <2>4, <2>5, DueSame
  <2>. QED  BY <1>1, <1>2, <2>4, <2>6, RoomSame
<1>4. CASE AcceptError \/ CreateThread
  <2>1. LiveSet' = LiveSet /\ fdOf' = fdOf /\ clnt_cnt' = clnt_cnt /\ clnt_socks' = clnt_socks
    BY <1>p, <1>4 DEF AcceptError, CreateThread, LiveSet, Live, threadVars, registry, netVars
  <2>2. \A r \in LiveSet : Due(r)' = Due(r)
    BY <1>2, <2>1, DueSame DEF LiveSet
  <2>. QED  BY <1>1, <1>2, <2>1, <2>2, RoomSame
<1>5. CASE Register
  <2>1. /\ cur \in Clients /\ pc[cur] = "accepted" /\ mutex = NoOne /\ fdOf' = fdOf
        /\ pc' = [pc EXCEPT ![cur] = "registered"]
    BY <1>p, <1>5 DEF Register, netVars
  <2>2. \A r \in Clients : Due(r)' = Due(r) /\ Due(r)' = <<>>
    BY <1>2, <2>1, DueSame DEF Due
  <2>3. \A r \in LiveSet' : r \in Clients /\ (r \in LiveSet \/ r = cur)
    BY <1>p, <2>1 DEF LiveSet
  <2>4. Stream(cur) = <<>>
    <3>1. got[cur] = <<>> /\ outq[cur] = <<>>
      BY <2>1 DEF TextInv, PlaceOf
    <3>2. Joins(<<>>, <<>>)
      BY <1>p, <2>1, <3>1, TextTypes, JoinText
    <3>. QED  BY <3>1, <3>2, Zenon DEF Joins, Stream
  <2>5. \A r \in Clients : Within(Stream(r)', m)
    BY <1>2 DEF Room
  <2>6. \A r \in LiveSet' : conn'[r] = "open" => EndsIn(Stream(r)' \o Due(r)', m)
    <3>. TAKE r \in LiveSet'
    <3>. HAVE conn'[r] = "open"
    <3>1. CASE r = cur
      <4>1. EndsIn(<<>> \o <<>>, m)
        BY NothingWithin
      <4>2. r \in Clients /\ Stream(r) = <<>>
        BY <2>1, <2>4, <3>1, Zenon
      <4>3. Stream(r)' = <<>> /\ Due(r)' = <<>>
        BY <1>2, <2>2, <4>2, Zenon
      <4>. QED  BY <4>1, <4>3, Zenon
    <3>2. CASE r \in LiveSet
      <4>1. EndsIn(Stream(r) \o Due(r), m)
        BY <1>2, <3>2, Zenon DEF Room
      <4>2. Stream(r)' = Stream(r) /\ Due(r)' = Due(r)
        BY <1>2, <2>2, <2>3
      <4>. QED  BY <4>1, <4>2, Zenon
    <3>. QED  BY <2>3, <3>1, <3>2
  <2>. QED  BY <1>1, <2>5, <2>6, RoomKeeps
<1>. QED  BY <1>3, <1>4, <1>5 DEF Main

\* A handler that is not sending changes nobody's stream.
LEMMA RoomQuiet ==
    ASSUME CountInv, RegInv, ~Misdirected, MutexInv, TextInv, NEW t \in Clients,
           Handler(t), ~SendLock(t), ~SendWrite(t), NEW m \in Text, Room(m)
    PROVE  Room(m)'
<1>p. /\ pc \in [Clients -> PCs] /\ fdOf \in [Clients -> FDs \cup {NoFd}]
      /\ conn \in [Clients -> {"idle", "open", "fin", "rst", "dead"}]
      /\ msg \in [Clients -> Seq(Units)] /\ TypeOK
  BY DEF CountInv, TypeOK, ThreadTypes, NetTypes
<1>1. \A s \in Clients : Told(s)' = Told(s)
  <2>1. Next
    BY DEF Next
  <2>2. \A s \in Clients : s # t => ~SendLock(s)
    BY <1>p DEF Handler, StartHandler, ReadData, ReadEof, ReadError, SendUnlock,
         Remove, CloseSock, SendLock, SendWrite
  <2>. QED  BY <2>1, <2>2, TextStep
<1>2. \A r \in Clients : Stream(r)' = Stream(r)
  BY DEF Handler, StartHandler, ReadData, ReadEof, ReadError, SendUnlock, Remove, CloseSock,
       netVars, Stream
<1>3. \A r \in Clients : conn'[r] = "open" => conn[r] = "open"
  BY <1>p DEF Handler, StartHandler, ReadData, ReadEof, ReadError, SendUnlock, Remove, CloseSock, netVars
<1>4. \A r \in LiveSet' : r \in Clients /\ r \in LiveSet
  BY <1>p DEF Handler, StartHandler, ReadData, ReadEof, ReadError, SendUnlock, Remove, CloseSock,
       LiveSet, Live
<1>5. \A r \in LiveSet' : Due(r)' = Due(r)
  <2>1. CASE StartHandler(t) \/ ReadEof(t)
    BY <1>4, <2>1, DueSame DEF StartHandler, ReadEof, registry, netVars
  <2>2. CASE ReadData(t) \/ ReadError(t)
    <3>1. mutex # t
      BY <2>2 DEF MutexInv, ReadData, ReadError
    <3>2. mutex # NoOne => msg'[mutex] = msg[mutex]
      <4>1. mutex \in Clients \cup {NoOne}
        BY <1>p DEF TypeOK, ServerTypes
      <4>. QED  BY <1>p, <2>2, <3>1, <4>1 DEF ReadData, ReadError
    <3>3. UNCHANGED <<mutex, fdOf, clnt_cnt, clnt_socks, idx>>
      BY <2>2 DEF ReadData, ReadError, registry
    <3>. QED  BY <1>4, <3>2, <3>3, DueSame
  <2>3. CASE SendUnlock(t)
    <3>1. mutex = t /\ mutex' = NoOne /\ ~ (idx[t] < clnt_cnt)
      <4>1. idx[t] \in Nat /\ clnt_cnt \in 0..MAX_CLNT
        BY <1>p DEF TypeOK, ThreadTypes, ServerTypes
      <4>. QED  BY <2>3, <4>1 DEF MutexInv, SendUnlock
    <3>2. \A k \in Filed : ~ (k >= idx[t])
      <4>1. idx[t] \in Nat /\ clnt_cnt \in 0..MAX_CLNT
        BY <1>p DEF TypeOK, ThreadTypes, ServerTypes
      <4>. QED  BY <3>1, <4>1 DEF Filed
    <3>. QED  BY <1>4, <3>1, <3>2, Zenon DEF Due
  <2>4. CASE Remove(t)
    BY <1>4, <2>4, DueSame DEF Remove, netVars
  <2>5. CASE CloseSock(t)
    <3>1. \A c \in Clients : fdOf[c] = sock[t] => c = t
      BY <2>5, OwnDescriptor DEF CloseSock
    <3>2. t \notin LiveSet
      BY <2>5 DEF CloseSock, LiveSet, Live
    <3>3. \A r \in LiveSet' : fdOf'[r] = fdOf[r]
      BY <1>p, <1>4, <2>5, <3>1, <3>2 DEF CloseSock
    <3>. QED  BY <1>4, <2>5, <3>3, DueSame DEF CloseSock, registry
  <2>. QED  BY <2>1, <2>2, <2>3, <2>4, <2>5 DEF Handler
<1>. QED  BY <1>1, <1>2, <1>3, <1>4, <1>5, RoomSame

\* A write gives one client what is due to it.
LEMMA RoomWrite ==
    ASSUME CountInv, RegInv, ~Misdirected, MutexInv, TextInv, NEW t \in Clients,
           SendWrite(t), NEW m \in Text, Room(m)
    PROVE  Room(m)'
<1>p. /\ pc \in [Clients -> PCs] /\ idx \in [Clients -> Nat] /\ outq \in [Clients -> Text]
      /\ TypeOK
  BY DEF CountInv, TypeOK, ThreadTypes, NetTypes, Text
<1>1. \A s \in Clients : Told(s)' = Told(s)
  <2>1. Next
    BY DEF Next, Handler
  <2>2. \A s \in Clients : ~SendLock(s)
    BY <1>p DEF SendWrite, SendLock
  <2>. QED  BY <2>1, <2>2, TextStep
<1>2. /\ UNCHANGED <<mutex, fdOf, clnt_cnt, clnt_socks, msg, pc, got>> /\ LiveSet' = LiveSet
      /\ Filed' = Filed
  BY DEF SendWrite, registry, LiveSet, Filed
<1>3. /\ mutex = t /\ idx[t] \in Filed /\ idx'[t] = idx[t] + 1 /\ t # NoOne
      /\ \A c \in Clients : conn'[c] = "open" => conn[c] = "open"
  BY WriteCases
<1>f. \A k \in Filed : k >= idx[t] + 1 <=> k >= idx[t] /\ k # idx[t]
  <2>1. Filed \subseteq Nat /\ idx[t] \in Nat
    BY <1>p, OwnSlot
  <2>. QED  BY <2>1
\* Those whose place this is have nothing due any more; for the others all is as before.
<1>4. \A r \in Clients : fdOf[r] # clnt_socks[idx[t]] => Due(r)' = Due(r)
  BY <1>2, <1>3, <1>f, Zenon DEF Due
<1>5. \A r \in Clients : fdOf[r] = clnt_socks[idx[t]] => Due(r) = msg[t]
  <2>1. idx[t] >= idx[t]
    BY <1>p
  <2>. QED  BY <1>3, <2>1, Zenon DEF Due
<1>6. \A r \in Clients : fdOf[r] = clnt_socks[idx[t]] => Due(r)' = <<>>
  <2>1. \A j, k \in Filed : clnt_socks[j] = clnt_socks[k] => j = k
    BY OwnSlot
  <2>. QED  BY <1>2, <1>3, <1>f, <2>1, Zenon DEF Due
<1>7. CASE /\ outq' = outq
           /\ \A r \in LiveSet : conn'[r] = "open" /\ fdOf[r] = clnt_socks[idx[t]] => msg[t] = <<>>
  <2>1. \A r \in Clients : Stream(r)' = Stream(r)
    BY <1>2, <1>7 DEF Stream
  <2>2. \A r \in LiveSet : conn'[r] = "open" => Due(r)' = Due(r)
    BY <1>4, <1>5, <1>6, <1>7, Zenon DEF LiveSet
  <2>3. \A r \in LiveSet' : r \in LiveSet /\ r \in Clients
    BY <1>2 DEF LiveSet
  <2>. QED  BY <1>1, <1>3, <2>1, <2>2, <2>3, RoomSame
<1>8. ASSUME NEW d \in LiveSet, fdOf[d] = clnt_socks[idx[t]], conn' = conn, conn[d] = "open",
             outq' = [outq EXCEPT ![d] = @ \o msg[t]]
      PROVE  Room(m)'
  <2>1. d \in Clients /\ \A r \in LiveSet : fdOf[r] = clnt_socks[idx[t]] => r = d
    BY <1>8, OwnSlot DEF LiveSet
  <2>2. Stream(d) \in Text /\ msg[t] \in Text /\ got[d] \in Text /\ outq[d] \in Text
    BY <1>p, <2>1, TextTypes
  <2>3. /\ Stream(d)' = Stream(d) \o msg[t] /\ Stream(d) \o msg[t] \in Text
        /\ \A r \in Clients : r # d => Stream(r)' = Stream(r)
    <3>1. outq'[d] = outq[d] \o msg[t] /\ \A r \in Clients : r # d => outq'[r] = outq[r]
      BY <1>p, <1>8, <2>1
    <3>2. Regroups(got[d], outq[d], msg[t]) /\ Joins(Stream(d), msg[t])
      BY <2>2, RegroupText, JoinText, Zenon
    <3>. QED  BY <1>2, <3>1, <3>2, Zenon DEF Regroups, Joins, Stream
  <2>4. EndsIn(Stream(d) \o msg[t], m)
    BY <1>5, <1>8, <2>1, Zenon DEF Room
  <2>5. Within(Stream(d)', m) /\ EndsIn(Stream(d)' \o Due(d)', m)
    BY <1>6, <1>8, <2>1, <2>3, <2>4, EndsWithin
  <2>6. \A r \in Clients : Within(Stream(r)', m)
    <3>1. \A r \in Clients : Within(Stream(r), m)
      BY DEF Room
    <3>. QED  BY <2>3, <2>5, <3>1, Zenon
  <2>7. \A r \in LiveSet' : conn'[r] = "open" => EndsIn(Stream(r)' \o Due(r)', m)
    <3>. TAKE r \in LiveSet'
    <3>. HAVE conn'[r] = "open"
    <3>1. CASE r = d
      BY <2>5, <3>1
    <3>2. CASE r # d
      <4>1. r \in LiveSet /\ r \in Clients /\ conn[r] = "open" /\ fdOf[r] # clnt_socks[idx[t]]
        BY <1>2, <1>8, <2>1, <3>2 DEF LiveSet
      <4>2. Due(r)' = Due(r) /\ Stream(r)' = Stream(r)
        BY <1>4, <2>3, <3>2, <4>1
      <4>3. EndsIn(Stream(r) \o Due(r), m)
        BY <4>1, Zenon DEF Room
      <4>. QED  BY <4>2, <4>3, Zenon
    <3>. QED  BY <3>1, <3>2
  <2>. QED  BY <1>1, <2>6, <2>7, RoomKeeps
<1>. QED  BY <1>7, <1>8, WriteCases

\* The parts of a text that was put behind another.
LEMMA BehindAt ==
    ASSUME NEW m \in Text, NEW e \in Text
    PROVE  /\ m \o e \in Text /\ Len(m \o e) = Len(m) + Len(e)
           /\ Len(m) \in Nat /\ Len(e) \in Nat
           /\ \A i \in 1..Len(m) : (m \o e)[i] = m[i]
           /\ \A j \in 1..Len(e) : (m \o e)[Len(m) + j] = e[j]
           /\ \A i \in 1..Len(m \o e) : i \in 1..Len(m) \/ \E j \in 1..Len(e) : i = Len(m) + j
<1>1. /\ m \o e \in Text /\ Len(m \o e) = Len(m) + Len(e) /\ Len(m) \in Nat /\ Len(e) \in Nat
      /\ \A i \in 1..Len(m) : (m \o e)[i] = m[i]
      /\ \A j \in 1..Len(e) : (m \o e)[Len(m) + j] = e[j]
  BY DEF Text
<1>2. \A p, q \in Nat : \A i \in 1..(p + q) : i \in 1..p \/ \E j \in 1..q : i = p + j
  <2>. TAKE p \in Nat, q \in Nat
  <2>. TAKE i \in 1..(p + q)
  <2>1. CASE i <= p
    BY <2>1
  <2>2. CASE p < i
    <3>1. i - p \in 1..q /\ i = p + (i - p)
      BY <2>2
    <3>. QED  BY <3>1
  <2>. QED  BY <2>1, <2>2
<1>3. /\ Len(m) \in Nat /\ Len(e) \in Nat
      /\ \A i \in 1..Len(m \o e) : i \in 1..(Len(m) + Len(e))
  BY <1>1, Zenon
<1>4. \A i \in 1..(Len(m) + Len(e)) : i \in 1..Len(m) \/ \E j \in 1..Len(e) : i = Len(m) + j
  BY <1>2, <1>3
<1>. QED  BY <1>1, <1>3, <1>4, Zenon

\* Text with the next numbers keeps the units of each sender in turn.
LEMMA TurnGrows ==
    ASSUME NEW m \in Text, NEW e \in Text, NEW t, NEW n \in Nat, InTurn(m),
           \A i \in 1..Len(m) : m[i][1] = t => m[i][2] <= n, Numbered(t, e, n)
    PROVE  InTurn(m \o e)
<1>. DEFINE z == m \o e
            L == Len(m)
<1>1. /\ Len(z) = L + Len(e) /\ L \in Nat /\ Len(e) \in Nat
      /\ \A i \in 1..L : z[i] = m[i] /\ m[i][2] \in Nat
      /\ \A j \in 1..Len(e) : z[L + j] = <<t, n + j>>
      /\ \A i \in 1..Len(z) : i \in 1..L \/ \E j \in 1..Len(e) : i = L + j
  <2>1. \A i \in 1..L : m[i][2] \in Nat
    BY DEF Text, Units
  <2>2. /\ Len(z) = L + Len(e) /\ L \in Nat /\ Len(e) \in Nat
        /\ \A i \in 1..L : z[i] = m[i]
        /\ \A j \in 1..Len(e) : z[L + j] = e[j]
        /\ \A i \in 1..Len(z) : i \in 1..L \/ \E j \in 1..Len(e) : i = L + j
    BY BehindAt, Zenon
  <2>3. \A j \in 1..Len(e) : z[L + j] = <<t, n + j>>
    BY <2>2, Zenon DEF Numbered
  <2>. QED  BY <2>1, <2>2, <2>3, Zenon
<1>. HIDE DEF z
<1>2. ASSUME NEW i \in 1..Len(z), NEW j \in 1..Len(z), z[i][1] = z[j][1]
      PROVE  i < j <=> z[i][2] < z[j][2]
  <2>1. CASE i \in 1..L /\ j \in 1..L
    <3>1. z[i] = m[i] /\ z[j] = m[j]
      BY <1>1, <2>1, Zenon
    <3>. QED  BY <1>2, <2>1, <3>1, Zenon DEF InTurn
  <2>2. ASSUME NEW f \in 1..L, NEW g \in 1..Len(e), z[f][1] = z[L + g][1]
        PROVE  f < L + g /\ z[f][2] < z[L + g][2]
    <3>1. z[f] = m[f] /\ z[L + g] = <<t, n + g>> /\ m[f][2] \in Nat
      BY <1>1, Zenon
    <3>2. m[f][1] = t /\ z[L + g][2] = n + g
      BY <2>2, <3>1
    <3>3. m[f][2] <= n
      BY <3>2
    <3>4. \A u \in Nat : u <= n => u < n + g
      OBVIOUS
    <3>5. \A l \in Nat : \A u \in 1..l : u < l + g
      OBVIOUS
    <3>6. m[f][2] < n + g /\ f < L + g
      BY <1>1, <3>1, <3>3, <3>4, <3>5, Zenon
    <3>. QED  BY <3>1, <3>2, <3>6, Zenon
  <2>3. CASE i \in 1..L /\ j \notin 1..L
    <3>1. PICK g \in 1..Len(e) : j = L + g
      BY <1>1, <2>3
    <3>2. i < j /\ z[i][2] < z[j][2]
      BY <1>2, <2>2, <2>3, <3>1, Zenon
    <3>. QED  BY <3>2, Zenon
  <2>4. CASE i \notin 1..L /\ j \in 1..L
    <3>1. PICK g \in 1..Len(e) : i = L + g
      BY <1>1, <2>4
    <3>2. j < i /\ z[j][2] < z[i][2]
      BY <1>2, <2>2, <2>4, <3>1, Zenon
    <3>3. z[j][2] \in Nat /\ z[i][2] \in Nat
      <4>1. z[j] = m[j] /\ m[j][2] \in Nat
        BY <1>1, <2>4, Zenon
      <4>2. z[i] = <<t, n + g>> /\ n + g \in Nat
        BY <1>1, <3>1
      <4>. QED  BY <4>1, <4>2
    <3>4. \A u, v \in Nat : u < v => ~ (v < u)
      OBVIOUS
    <3>5. ~ (i < j)
      BY <3>2
    <3>. QED  BY <3>2, <3>3, <3>4, <3>5, Zenon
  <2>5. CASE i \notin 1..L /\ j \notin 1..L
    <3>1. PICK f \in 1..Len(e) : i = L + f
      BY <1>1, <2>5
    <3>2. PICK g \in 1..Len(e) : j = L + g
      BY <1>1, <2>5
    <3>3. z[i] = <<t, n + f>> /\ z[j] = <<t, n + g>>
      BY <1>1, <3>1, <3>2, Zenon
    <3>4. i < j <=> n + f < n + g
      BY <1>1, <3>1, <3>2
    <3>. QED  BY <3>3, <3>4
  <2>. QED  BY <2>1, <2>3, <2>4, <2>5
<1>. QED  BY <1>2 DEF z, InTurn

\* At the lock the conversation grows by the whole of what was read, which
\* becomes due to everybody who is registered.
LEMMA RoomLock ==
    ASSUME CountInv, RegInv, ~Misdirected, MutexInv, TextInv, NEW t \in Clients,
           SendLock(t), NEW m \in Text, Room(m), NEW e \in Text, e = msg[t]
    PROVE  Room(m \o e)'
<1>p. /\ pc \in [Clients -> PCs] /\ idx \in [Clients -> Nat] /\ TypeOK
  BY DEF CountInv, TypeOK, ThreadTypes
<1>0. /\ pc[t] = "lock" /\ mutex = NoOne /\ mutex' = t /\ idx'[t] = 0 /\ t # NoOne
      /\ UNCHANGED <<fdOf, clnt_cnt, clnt_socks, msg, got, outq, conn>>
      /\ LiveSet' = LiveSet /\ Filed' = Filed
  BY <1>p DEF SendLock, registry, netVars, LiveSet, Live, Filed
<1>n. Next
  BY DEF Next, Handler
<1>1. /\ Told(t)' = Told(t) + Len(e) /\ Told(t) \in Nat /\ Numbered(t, e, Told(t))
      /\ \A s \in Clients : s # t => Told(s)' = Told(s)
  <2>1. \A s \in Clients : s # t => ~SendLock(s)
    BY <1>p, <1>0 DEF SendLock
  <2>2. TextOf(t)
    BY DEF TextInv
  <2>. QED  BY <1>0, <1>n, <1>p, <2>1, <2>2, TextStep, TextLock DEF TextOf
<1>. DEFINE z == m \o e
<1>2. /\ z \in Text /\ Len(z) = Len(m) + Len(e) /\ Len(m) \in Nat /\ Len(e) \in Nat
      /\ \A i \in 1..Len(m) : z[i] = m[i]
      /\ \A j \in 1..Len(e) : z[Len(m) + j] = e[j]
      /\ \A i \in 1..Len(z) : i \in 1..Len(m) \/ \E j \in 1..Len(e) : i = Len(m) + j
  BY BehindAt, Zenon
<1>3. \A i \in 1..Len(m) : m[i][1] = t => m[i][2] <= Told(t)
  <2>. TAKE i \in 1..Len(m)
  <2>. HAVE m[i][1] = t
  <2>1. m[i] \in Units
    BY DEF Text
  <2>2. m[i] = <<t, m[i][2]>> /\ m[i][2] \in 1..MaxSent
    BY <2>1 DEF Units
  <2>. QED  BY <2>2, Zenon DEF Room, AllTold
<1>4. InTurn(z)
  BY <1>1, <1>3, TurnGrows DEF Room
<1>. HIDE DEF z
<1>5. ASSUME NEW s \in Clients, NEW n \in 1..MaxSent
      PROVE  (\E i \in 1..Len(z) : z[i] = <<s, n>>) <=> n <= Told(s)'
  <2>1. (\E i \in 1..Len(m) : m[i] = <<s, n>>) <=> n <= Told(s)
    BY DEF Room, AllTold
  <2>2. \A i \in 1..Len(m) : i \in 1..Len(z)
    BY <1>2
  <2>3. \A j \in 1..Len(e) : Len(m) + j \in 1..Len(z) /\ z[Len(m) + j] = <<t, Told(t) + j>>
    <3>1. \A j \in 1..Len(e) : Len(m) + j \in 1..Len(z)
      BY <1>2
    <3>. QED  BY <1>1, <1>2, <3>1, Zenon DEF Numbered
  <2>4. (\E i \in 1..Len(z) : z[i] = <<s, n>>)
          <=> n <= Told(s) \/ \E j \in 1..Len(e) : <<t, Told(t) + j>> = <<s, n>>
    <3>1. ASSUME NEW i \in 1..Len(z), z[i] = <<s, n>>
          PROVE  n <= Told(s) \/ \E j \in 1..Len(e) : <<t, Told(t) + j>> = <<s, n>>
      <4>1. CASE i \in 1..Len(m)
        BY <1>2, <2>1, <3>1, <4>1, Zenon
      <4>2. ASSUME NEW j \in 1..Len(e), i = Len(m) + j
            PROVE  \E k \in 1..Len(e) : <<t, Told(t) + k>> = <<s, n>>
        BY <2>3, <3>1, <4>2, Zenon
      <4>. QED  BY <1>2, <4>1, <4>2, Zenon
    <3>2. ASSUME n <= Told(s) PROVE \E i \in 1..Len(z) : z[i] = <<s, n>>
      <4>1. PICK i \in 1..Len(m) : m[i] = <<s, n>>
        BY <2>1, <3>2, Zenon
      <4>. QED  BY <1>2, <2>2, <4>1, Zenon
    <3>3. ASSUME NEW j \in 1..Len(e), <<t, Told(t) + j>> = <<s, n>>
          PROVE  \E i \in 1..Len(z) : z[i] = <<s, n>>
      BY <2>3, <3>3, Zenon
    <3>. QED  BY <3>1, <3>2, <3>3, Zenon
  <2>5. CASE s # t
    <3>1. \A j \in 1..Len(e) : <<t, Told(t) + j>> # <<s, n>>
      BY <2>5
    <3>. QED  BY <1>1, <2>4, <2>5, <3>1, Zenon
  <2>6. CASE s = t
    <3>1. (\E j \in 1..Len(e) : <<t, Told(t) + j>> = <<s, n>>) <=> \E j \in 1..Len(e) : Told(t) + j = n
      BY <2>6
    <3>2. \A k, l \in Nat : n <= k + l <=> n <= k \/ \E j \in 1..l : k + j = n
      <4>. TAKE k \in Nat, l \in Nat
      <4>1. CASE n <= k
        BY <4>1
      <4>2. CASE k < n
        <5>1. n <= k + l => n - k \in 1..l /\ k + (n - k) = n
          BY <4>2
        <5>2. (\E j \in 1..l : k + j = n) => n <= k + l
          OBVIOUS
        <5>. QED  BY <4>2, <5>1, <5>2
      <4>. QED  BY <4>1, <4>2
    <3>3. n <= Told(t) + Len(e) <=> n <= Told(t) \/ \E j \in 1..Len(e) : Told(t) + j = n
      BY <1>1, <1>2, <3>2, Zenon
    <3>. QED  BY <1>1, <2>4, <2>6, <3>1, <3>3, Zenon
  <2>. QED  BY <2>5, <2>6
<1>6. /\ \A r \in Clients : Stream(r) \in Text /\ Stream(r)' = Stream(r) /\ Due(r) = <<>>
      /\ \A r \in LiveSet : Due(r)' = e
  <2>1. \A r \in Clients : Stream(r)' = Stream(r) /\ Due(r) = <<>>
    BY <1>0, Zenon DEF Stream, Due
  <2>2. \A r \in LiveSet : \E k \in Filed : clnt_socks[k] = fdOf[r] /\ k >= 0
    <3>1. Filed \subseteq Nat /\ \A k \in Nat : k >= 0
      BY OwnSlot
    <3>. QED  BY <3>1, OwnSlot, Zenon
  <2>3. \A r \in LiveSet : Due(r)' = e
    BY <1>0, <2>2, Zenon DEF Due
  <2>. QED  BY <1>p, <2>1, <2>3, TextTypes
<1>7. \A r \in Clients : Within(Stream(r)', z)
  BY <1>6, WithinGrows DEF Room, z
<1>8. \A r \in LiveSet' : conn'[r] = "open" => EndsIn(Stream(r)' \o Due(r)', z)
  <2>. TAKE r \in LiveSet'
  <2>. HAVE conn'[r] = "open"
  <2>1. r \in LiveSet /\ r \in Clients /\ conn[r] = "open"
    BY <1>0 DEF LiveSet
  <2>2. EndsIn(Stream(r) \o <<>>, m)
    <3>1. EndsIn(Stream(r) \o Due(r), m)
      BY <2>1, Zenon DEF Room
    <3>. QED  BY <1>6, <2>1, <3>1, Zenon
  <2>3. EndsIn(Stream(r) \o e, z)
    BY <1>6, <2>1, <2>2, EndsGrows DEF z
  <2>. QED  BY <1>6, <2>1, <2>3, Zenon
<1>9. AllTold(z)'
  BY <1>5 DEF AllTold, z
<1>10. InTurn(z)'
  BY <1>4 DEF InTurn, z
<1>11. \A r \in Clients : Within(Stream(r), z)'
  BY <1>7 DEF Within, z
<1>12. \A r \in LiveSet' : conn'[r] = "open" => EndsIn(Stream(r) \o Due(r), z)'
  BY <1>8 DEF EndsIn, z
<1>. QED  BY <1>9, <1>10, <1>11, <1>12 DEF Room, z

-----------------------------------------------------------------------------
LEMMA OrderInit == Init => OrderInv
<1>. SUFFICES ASSUME Init PROVE OrderInv
  OBVIOUS
<1>1. MutexInv
  BY DEF Init, MutexInv
<1>2. TextInv
  <2>. SUFFICES ASSUME NEW c \in Clients PROVE TextOf(c) /\ PlaceOf(c)
    BY DEF TextInv
  <2>1. /\ pc[c] = "none" /\ inq[c] = <<>> /\ sent[c] = 0 /\ got[c] = <<>> /\ outq[c] = <<>>
    BY DEF Init
  <2>2. Told(c) = 0
    <3>1. Told(c) = 0 - Len(<<>>) - 0
      BY <2>1 DEF Told
    <3>2. Len(<<>>) = 0
      OBVIOUS
    <3>3. 0 - 0 - 0 = 0
      OBVIOUS
    <3>. QED  BY <3>1, <3>2, <3>3, Zenon
  <2>. QED  BY <2>1, <2>2 DEF TextOf, PlaceOf, Numbered
<1>3. Room(<<>>)
  <2>1. InTurn(<<>>)
    BY DEF InTurn
  <2>2. AllTold(<<>>)
    <3>1. \A s \in Clients : Told(s) = 0
      <4>1. \A s \in Clients : Told(s) = 0 - Len(<<>>) - 0
        BY DEF Init, Told
      <4>2. Len(<<>>) = 0
        OBVIOUS
      <4>. QED  BY <4>1, <4>2
    <3>2. \A n \in 1..MaxSent : ~ (n <= 0)
      OBVIOUS
    <3>. QED  BY <3>1, <3>2 DEF AllTold
  <2>3. \A r \in Clients : Within(Stream(r), <<>>)
    <3>0. <<>> \in Text
      BY DEF Text
    <3>1. Joins(<<>>, <<>>)
      BY <3>0, JoinText, Zenon
    <3>2. \A r \in Clients : Stream(r) = <<>> \o <<>>
      BY DEF Init, Stream
    <3>3. \A r \in Clients : Stream(r) = <<>>
      BY <3>1, <3>2, Zenon DEF Joins
    <3>. QED  BY <3>1, <3>3, NothingWithin, Zenon DEF Joins
  <2>4. LiveSet = {}
    BY DEF Init, LiveSet, Live
  <2>. QED  BY <2>1, <2>2, <2>3, <2>4 DEF Room
<1>4. <<>> \in Text
  BY DEF Text
<1>. QED  BY <1>1, <1>2, <1>3, <1>4, Zenon DEF OrderInv, OneRoom

LEMMA OrderNext == CountInv /\ RegInv /\ OrderInv /\ [Next]_vars => OrderInv'
<1>. SUFFICES ASSUME CountInv, RegInv, OrderInv, [Next]_vars PROVE OrderInv'
  OBVIOUS
<1>1. MutexInv'
  BY MutexStep DEF OrderInv
<1>2. ASSUME Next, ~Misdirected' PROVE TextInv' /\ OneRoom'
  <2>1. ~Misdirected /\ MutexInv /\ TextInv
    BY <1>2, MisdirectedStays DEF OrderInv
  <2>2. PICK m \in Text : Room(m)
    BY <2>1 DEF OrderInv, OneRoom
  <2>3. TextInv'
    BY <1>2, <2>1, TextStep, PlaceStep DEF TextInv
  <2>4. ASSUME Room(m)' PROVE OneRoom'
    BY <2>4 DEF OneRoom
  <2>5. CASE Main
    <3>1. Room(m)'
      BY <2>1, <2>2, <2>5, RoomMain
    <3>. QED  BY <2>3, <2>4, <3>1
  <2>6. ASSUME NEW c \in Clients, Client(c) PROVE OneRoom'
    BY <2>1, <2>2, <2>4, <2>6, RoomClient
  <2>7. ASSUME NEW t \in Clients, Handler(t) PROVE OneRoom'
    <3>1. CASE SendLock(t)
      <4>1. PICK e \in Text : e = msg[t]
        BY TextTypes DEF CountInv
      <4>2. Room(m \o e)'
        BY <2>1, <2>2, <3>1, <4>1, RoomLock
      <4>3. m \o e \in Text
        BY BehindAt
      <4>. QED  BY <4>2, <4>3 DEF OneRoom
    <3>2. CASE SendWrite(t)
      BY <2>1, <2>2, <2>4, <3>2, RoomWrite
    <3>3. CASE ~SendLock(t) /\ ~SendWrite(t)
      BY <2>1, <2>2, <2>4, <2>7, <3>3, RoomQuiet
    <3>. QED  BY <3>1, <3>2, <3>3
  <2>. QED  BY <1>2, <2>3, <2>5, <2>6, <2>7 DEF Next
<1>3. ASSUME UNCHANGED vars, ~Misdirected' PROVE TextInv' /\ OneRoom'
  <2>1. /\ UNCHANGED <<mutex, clnt_cnt, clnt_socks, pc, sock, msg, idx, meant, fdOf, conn>>
        /\ UNCHANGED <<inq, outq, got, sent>>
    BY <1>3 DEF vars, registry, threadVars, netVars
  <2>2. ~Misdirected
    BY <1>3, <2>1 DEF Misdirected
  <2>3. TextInv /\ OneRoom
    BY <2>2 DEF OrderInv
  <2>4. TextInv'
    BY <2>1, <2>3 DEF TextInv, TextOf, PlaceOf, Told, Numbered
  <2>5. PICK m \in Text : Room(m)
    BY <2>3 DEF OneRoom
  <2>6. /\ \A s \in Clients : Told(s)' = Told(s)
        /\ \A r \in Clients : Stream(r)' = Stream(r)
        /\ LiveSet' = LiveSet
    BY <2>1 DEF Told, Stream, LiveSet
  <2>7. \A r \in Clients : Due(r)' = Due(r)
    BY <2>1, DueSame
  <2>8. \A r \in LiveSet' : conn'[r] = "open" => r \in LiveSet /\ conn[r] = "open" /\ Due(r)' = Due(r)
    BY <2>1, <2>6, <2>7 DEF LiveSet
  <2>9. Room(m)'
    BY <2>5, <2>6, <2>8, RoomSame
  <2>10. OneRoom'
    BY <2>9 DEF OneRoom
  <2>. QED  BY <2>4, <2>10
<1>4. ~Misdirected' => TextInv' /\ OneRoom'
  BY <1>2, <1>3, Zenon
<1>. QED  BY <1>1, <1>4, Zenon DEF OrderInv

\* A stretch of a text has its units at an offset.
LEMMA WithinAt ==
    ASSUME NEW x \in Text, NEW m \in Text, Within(x, m)
    PROVE  \E o \in Nat : \A i \in 1..Len(x) : o + i \in 1..Len(m) /\ x[i] = m[o + i]
<1>1. PICK a \in Text, b \in Text : m = (a \o x) \o b
  BY DEF Within
<1>2. /\ a \o x \in Text /\ Len(a \o x) = Len(a) + Len(x) /\ Len(a) \in Nat /\ Len(x) \in Nat
      /\ \A i \in 1..Len(x) : (a \o x)[Len(a) + i] = x[i]
  BY BehindAt, Zenon
<1>3. /\ Len(m) = Len(a \o x) + Len(b) /\ Len(b) \in Nat
      /\ \A i \in 1..Len(a \o x) : m[i] = (a \o x)[i]
  BY <1>1, <1>2, BehindAt
<1>4. \A i \in 1..Len(x) : Len(a) + i \in 1..(Len(a) + Len(x)) /\ Len(a) + i \in 1..(Len(a) + Len(x) + Len(b))
  BY <1>2, <1>3
<1>. QED  BY <1>2, <1>3, <1>4, Zenon

\* The units of one sender that follow each other in a stretch have numbers
\* that follow each other.
LEMMA NextNumber ==
    ASSUME TypeOK, NEW m \in Text, InTurn(m), AllTold(m), TextInv, NEW x \in Text, Within(x, m),
           NEW k \in 1..Len(x), NEW l \in 1..Len(x), k < l, x[k][1] = x[l][1],
           \A j \in (k + 1)..(l - 1) : x[j][1] # x[k][1]
    PROVE  x[l][2] = x[k][2] + 1
<1>1. PICK o \in Nat : \A i \in 1..Len(x) : o + i \in 1..Len(m) /\ x[i] = m[o + i]
  BY WithinAt
<1>2. Len(x) \in Nat /\ Len(m) \in Nat /\ k \in Nat /\ l \in Nat
  BY DEF Text
<1>3. PICK s \in Clients, u \in 1..MaxSent, v \in 1..MaxSent : x[k] = <<s, u>> /\ x[l] = <<s, v>>
  <2>1. x[k] \in Units /\ x[l] \in Units
    BY DEF Text
  <2>. QED  BY <2>1 DEF Units
<1>4. /\ o + k \in 1..Len(m) /\ o + l \in 1..Len(m) /\ m[o + k] = <<s, u>> /\ m[o + l] = <<s, v>>
      /\ o + k < o + l
  <2>1. o + k < o + l
    BY <1>2
  <2>. QED  BY <1>1, <1>3, <2>1, Zenon
<1>5. u < v
  BY <1>4 DEF InTurn
<1>6. ASSUME u + 1 < v PROVE FALSE
  <2>1. u + 1 \in 1..MaxSent /\ u < u + 1
    BY <1>6
  <2>2. v <= Told(s)
    BY <1>4, Zenon DEF AllTold
  <2>3. Told(s) \in Nat
    BY DEF TextInv, TextOf
  <2>4. u + 1 <= Told(s)
    BY <1>6, <2>2, <2>3
  <2>5. PICK p \in 1..Len(m) : m[p] = <<s, u + 1>>
    BY <2>1, <2>4, Zenon DEF AllTold
  <2>6. o + k < p
    <3>1. o + k < p <=> m[o + k][2] < m[p][2]
      BY <1>4, <2>5 DEF InTurn
    <3>. QED  BY <1>4, <2>1, <2>5, <3>1
  <2>7. p < o + l
    <3>1. p < o + l <=> m[p][2] < m[o + l][2]
      BY <1>4, <2>5 DEF InTurn
    <3>. QED  BY <1>4, <1>6, <2>5, <3>1
  <2>8. p - o \in (k + 1)..(l - 1) /\ p - o \in 1..Len(x) /\ o + (p - o) = p
    BY <1>2, <2>6, <2>7
  <2>9. x[p - o] = m[p]
    BY <1>1, <2>8
  <2>. QED  BY <1>3, <2>5, <2>8, <2>9
<1>7. v = u + 1
  BY <1>5, <1>6
<1>. QED  BY <1>3, <1>7

\* Two stretches of one conversation are in one order.
LEMMA OneOrder ==
    ASSUME NEW m \in Text, InTurn(m), NEW x \in Text, NEW y \in Text, Within(x, m), Within(y, m),
           NEW i \in 1..Len(x), NEW j \in 1..Len(x), NEW k \in 1..Len(y), NEW l \in 1..Len(y),
           x[i] = y[k], x[j] = y[l], i < j
    PROVE  k < l
<1>1. PICK o \in Nat : \A n \in 1..Len(x) : o + n \in 1..Len(m) /\ x[n] = m[o + n]
  BY WithinAt
<1>2. PICK w \in Nat : \A n \in 1..Len(y) : w + n \in 1..Len(m) /\ y[n] = m[w + n]
  BY WithinAt
<1>3. Len(x) \in Nat /\ Len(y) \in Nat /\ Len(m) \in Nat
  BY DEF Text
<1>4. \A p, q \in 1..Len(m) : m[p] = m[q] => p = q
  <2>. TAKE p \in 1..Len(m), q \in 1..Len(m)
  <2>. HAVE m[p] = m[q]
  <2>1. m[p] \in Units
    BY DEF Text
  <2>2. m[p][2] \in Nat
    BY <2>1 DEF Units
  <2>3. ~ (m[p][2] < m[q][2]) /\ ~ (m[q][2] < m[p][2])
    BY <2>2
  <2>4. ~ (p < q) /\ ~ (q < p)
    BY <2>3, Zenon DEF InTurn
  <2>. QED  BY <1>3, <2>4
<1>5. o + i = w + k /\ o + j = w + l
  <2>1. /\ o + i \in 1..Len(m) /\ x[i] = m[o + i] /\ o + j \in 1..Len(m) /\ x[j] = m[o + j]
        /\ w + k \in 1..Len(m) /\ y[k] = m[w + k] /\ w + l \in 1..Len(m) /\ y[l] = m[w + l]
    BY <1>1, <1>2, Zenon
  <2>2. m[o + i] = m[w + k] /\ m[o + j] = m[w + l]
    BY <2>1, Zenon
  <2>. QED  BY <1>4, <2>1, <2>2, Zenon
<1>. QED  BY <1>3, <1>5

\* Each client's screen shows a stretch of one conversation, in which nobody's
\* text has a gap, a repetition or an exchange.
THEOREM StreamsCorrect == Spec => []StreamsAgree
<1>1. CountInv /\ OrderInv => StreamsAgree
  <2>. SUFFICES ASSUME CountInv, OrderInv, ~Misdirected PROVE StreamsAgree
    BY DEF StreamsAgree, StreamsIntact, SameOrder
  <2>1. PICK m \in Text : Room(m)
    BY DEF OrderInv, OneRoom
  <2>2. \A r \in Clients : Stream(r) \in Text /\ Within(Stream(r), m) /\ DOMAIN Stream(r) = 1..Len(Stream(r))
    <3>1. \A r \in Clients : Stream(r) \in Text
      BY TextTypes DEF CountInv
    <3>2. \A x \in Text : DOMAIN x = 1..Len(x)
      BY DEF Text
    <3>. QED  BY <2>1, <3>1, <3>2, Zenon DEF Room
  <2>3. InTurn(m) /\ AllTold(m) /\ TextInv /\ TypeOK
    BY <2>1 DEF Room, OrderInv, CountInv
  <2>4. ASSUME NEW r \in Clients, NEW k \in DOMAIN Stream(r), NEW l \in DOMAIN Stream(r),
               k < l, Stream(r)[k][1] = Stream(r)[l][1],
               \A j \in (k + 1)..(l - 1) : Stream(r)[j][1] # Stream(r)[k][1]
        PROVE  Stream(r)[l][2] = Stream(r)[k][2] + 1
    <3>1. PICK x \in Text : x = Stream(r)
      BY <2>2
    <3>2. Within(x, m) /\ k \in 1..Len(x) /\ l \in 1..Len(x)
      BY <2>2, <3>1
    <3>. QED  BY <2>3, <2>4, <3>1, <3>2, NextNumber
  <2>5. ASSUME NEW r \in Clients, NEW s \in Clients, NEW i \in DOMAIN Stream(r), NEW j \in DOMAIN Stream(r),
               NEW k \in DOMAIN Stream(s), NEW l \in DOMAIN Stream(s),
               Stream(r)[i] = Stream(s)[k], Stream(r)[j] = Stream(s)[l], i < j
        PROVE  k < l
    <3>1. PICK x \in Text, y \in Text : x = Stream(r) /\ y = Stream(s)
      BY <2>2
    <3>2. /\ Within(x, m) /\ i \in 1..Len(x) /\ j \in 1..Len(x)
          /\ Within(y, m) /\ k \in 1..Len(y) /\ l \in 1..Len(y)
      BY <2>2, <3>1
    <3>. QED  BY <2>3, <2>5, <3>1, <3>2, OneOrder
  <2>6. StreamsIntact
    BY <2>4, Zenon DEF StreamsIntact
  <2>7. SameOrder
    BY <2>5, Zenon DEF SameOrder
  <2>. QED  BY <2>6, <2>7 DEF StreamsAgree
<1>. QED  BY Invariance, RegInit, RegNext, OrderInit, OrderNext, <1>1, PTL DEF Spec

=============================================================================
