---------------------------- MODULE ForkEchoProofs ----------------------------
(***************************************************************************)
(* Proofs about ForkEcho, for any number of clients and any sizes: in      *)
(* which processes a connection is open; that no client's text is lost,    *)
(* repeated or out of order on its way back; and that the log has it in    *)
(* the order it was written.                                               *)
(***************************************************************************)
EXTENDS ForkEcho, ListProofs

\* OneHolder with the types of the two variables it is about is inductive.
HoldersType == /\ cur \in Clients \cup {Main}
               /\ holders \in [Clients -> SUBSET (Clients \cup {Main})]
               /\ backlog \in Seq(Clients)
HoldersInv == HoldersType /\ OneHolder

\* No connection is accepted at the start.
LEMMA HoldersInit == Init => HoldersInv
BY DEF Init, HoldersInv, HoldersType, OneHolder

\* The end of a process only takes copies away.
LEMMA ExitShrinks ==
    ASSUME HoldersInv, NEW p, Exit(p), UNCHANGED <<cur, backlog>>
    PROVE  HoldersInv'
BY DEF HoldersInv, HoldersType, OneHolder, Exit

\* fork copies what main has open, and between accept and close that is the
\* connection for which it forks, and no other.
LEMMA HoldersNext == HoldersInv /\ [Next]_vars => HoldersInv'
<1> SUFFICES ASSUME HoldersInv, [Next]_vars PROVE HoldersInv'
  OBVIOUS
<1> USE NamesAssumption DEF HoldersInv, HoldersType, OneHolder
<1>1. CASE Accept
  <2>1. Head(backlog) \in Clients /\ Tail(backlog) \in Seq(Clients)
    BY <1>1 DEF Accept
  <2>2. QED BY <1>1, <2>1 DEF Accept
<1>2. CASE Fork
  <2>1. \A d \in Clients : Main \in holders[d] => cur = d
    OBVIOUS
  <2>2. holders' \in [Clients -> SUBSET (Clients \cup {Main})]
    BY <1>2 DEF Fork
  <2>3. \A d \in Clients : holders'[d] \subseteq holders[d] \cup (IF cur = d THEN {d} ELSE {})
    BY <1>2, <2>1 DEF Fork
  <2>4. cur' = cur /\ backlog' = backlog
    BY <1>2 DEF Fork, netVars
  <2>5. QED BY <2>2, <2>3, <2>4
<1>3. CASE CloseCopy
  BY <1>3 DEF CloseCopy
<1>4. CASE read_childproc
  BY <1>4 DEF read_childproc, netVars
<1>5. CASE LogRead \/ LogEnd
  BY <1>5, ExitShrinks DEF LogRead, LogEnd, mainVars, netVars
<1>6. ASSUME NEW c \in Clients, Child(c) PROVE HoldersInv'
  <2>1. CASE ChildEof(c) \/ ChildKilled(c)
    BY <2>1, ExitShrinks DEF ChildEof, ChildKilled
  <2>2. CASE ~(ChildEof(c) \/ ChildKilled(c))
    BY <1>6, <2>2 DEF Child, ChildRead, ChildReset, ChildEcho, ChildLog, mainVars, netVars
  <2>3. QED BY <2>1, <2>2
<1>7. ASSUME NEW c \in Clients, Client(c) PROVE HoldersInv'
  <2>1. UNCHANGED <<cur, holders>>
    BY <1>7 DEF Client, Connect, Write, ShutWr, Read, Killed, mainVars
  <2>2. backlog' \in {backlog, Append(backlog, c)}
    BY <1>7 DEF Client, Connect, Write, ShutWr, Read, Killed
  <2>3. QED BY <2>1, <2>2
<1>8. CASE UNCHANGED vars
  BY <1>8 DEF vars, mainVars, netVars
<1>9. QED BY <1>1, <1>2, <1>3, <1>4, <1>5, <1>6, <1>7, <1>8 DEF Next, Parent

\* Whatever the numbers of clients and the sizes: a connection is open in its own
\* child, and in main while it is about to fork or close for it; no copy made by
\* fork survives in another child or in the logger.
THEOREM HolderCorrect == Spec => []OneHolder
<1>1. HoldersInv => OneHolder
  BY DEF HoldersInv
<1>2. QED BY <1>1, HoldersInit, HoldersNext, PTL DEF Spec

-----------------------------------------------------------------------------
(* The types.                                                              *)

\* The types of what the processes hold.
SysTypes ==
    /\ {store, forked, pending, merged} \subseteq BOOLEAN
    /\ cur \in Clients \cup {Main} /\ holders \in [Clients -> SUBSET (Clients \cup {Main})]
    /\ backlog \in Seq(Clients) /\ reads \in 0..LogReads
    /\ proc \in [Procs -> {"none", "read", "echo", "log", "zombie", "reaped"}]
    /\ conn \in [Clients -> {"idle", "open", "fin", "rst", "dead"}]
    /\ ended \in [Clients -> {"no", "eof", "reset"}]

Text == Seq(Units)

\* The types of the clients' texts.
TextTypes ==
    /\ buf \in [Clients -> Text] /\ \A c \in Clients : Len(buf[c]) <= BUF_SIZE
    /\ pipe \in Text /\ Len(pipe) <= PipeCap /\ log \in Text
    /\ inq \in [Clients -> Text] /\ outq \in [Clients -> Text] /\ got \in [Clients -> Text]
    /\ sent \in [Clients -> 0..MaxSent]

\* TypeOK in two parts.
LEMMA TypeParts == (TypeOK <=> SysTypes /\ TextTypes) /\ (TypeOK' <=> SysTypes' /\ TextTypes')
  BY DEF TypeOK, SysTypes, TextTypes, Text

\* Where one of several texts is replaced, the others stay.
LEMMA ReplaceText ==
    ASSUME NEW f \in [Clients -> Text], NEW c \in Clients, NEW t \in Text
    PROVE  /\ [f EXCEPT ![c] = t] \in [Clients -> Text]
           /\ [f EXCEPT ![c] = t][c] = t
           /\ \A d \in Clients : d # c => [f EXCEPT ![c] = t][d] = f[d]
  OBVIOUS

\* Nothing is a text, and a longer text is one.
LEMMA TextParts ==
    /\ <<>> \in Text /\ \A s \in Text : Len(s) \in Nat
    /\ \A s, t \in Text : s \o t \in Text /\ Len(s \o t) = Len(s) + Len(t)
  BY DEF Text

\* The entries of the two parts of a list.
LEMMA CutEntries ==
    ASSUME NEW T, NEW q \in Seq(T), NEW n \in 0..Len(q)
    PROVE  /\ Len(SubSeq(q, n + 1, Len(q))) = Len(q) - n
           /\ \A j \in 1..n : SubSeq(q, 1, n)[j] = q[j]
           /\ \A j \in 1..(Len(q) - n) : SubSeq(q, n + 1, Len(q))[j] = q[n + j]
  OBVIOUS

\* What read takes of the list q, at most the buffer's size, and what it leaves.
Cut(q, n) ==
    LET a == SubSeq(q, 1, n)
        b == SubSeq(q, n + 1, Len(q))
    IN  /\ n \in 1..Len(q) /\ n <= BUF_SIZE /\ a \o b = q
        /\ a \in Text /\ Len(a) = n /\ \A j \in 1..n : a[j] = q[j]
        /\ b \in Text /\ Len(b) = Len(q) - n /\ \A j \in 1..(Len(q) - n) : b[j] = q[n + j]

LEMMA CutText == \A q \in Text : q # <<>> => Cut(q, Min({BUF_SIZE, Len(q)}))
<1>. SUFFICES ASSUME NEW q \in Text, q # <<>>, NEW n, n = Min({BUF_SIZE, Len(q)}) PROVE Cut(q, n)
  OBVIOUS
<1>1. Len(q) \in Nat /\ Len(q) > 0 /\ q \in Seq(Units)
  BY DEF Text
<1>2. n \in 1..Len(q) /\ n <= BUF_SIZE
  <2>1. BUF_SIZE \in Nat /\ BUF_SIZE > 0 /\ BUF_SIZE \in Int /\ Len(q) \in Int
    BY <1>1, SizesAssumption
  <2>2. n = IF BUF_SIZE <= Len(q) THEN BUF_SIZE ELSE Len(q)
    BY <2>1, MinOfTwo
  <2>. QED  BY <1>1, <2>1, <2>2
<1>3. /\ SubSeq(q, 1, n) \in Seq(Units) /\ Len(SubSeq(q, 1, n)) = n
      /\ SubSeq(q, n + 1, Len(q)) \in Seq(Units)
      /\ SubSeq(q, 1, n) \o SubSeq(q, n + 1, Len(q)) = q
  BY <1>1, <1>2, CutParts
<1>4. /\ Len(SubSeq(q, n + 1, Len(q))) = Len(q) - n
      /\ \A j \in 1..n : SubSeq(q, 1, n)[j] = q[j]
      /\ \A j \in 1..(Len(q) - n) : SubSeq(q, n + 1, Len(q))[j] = q[n + j]
  <2>1. n \in 0..Len(q)
    BY <1>1, <1>2
  <2>. QED  BY <1>1, <2>1, CutEntries
<1>. QED  BY <1>2, <1>3, <1>4 DEF Text, Cut

\* The end of a process: who is left and what the clients see.
LEMMA ExitTypes ==
    ASSUME SysTypes, NEW p, Exit(p)
    PROVE  /\ holders' \in [Clients -> SUBSET (Clients \cup {Main})]
           /\ ended' \in [Clients -> {"no", "eof", "reset"}]
           /\ {pending, merged}' \subseteq BOOLEAN
  BY DEF SysTypes, Exit, EndedBy

\* The steps of main and of the logger.
LEMMA SysTypesServer ==
    ASSUME SysTypes, Parent \/ read_childproc \/ LogRead \/ LogEnd
    PROVE  SysTypes'
<1>1. CASE Accept
  <2>1. Head(backlog) \in Clients /\ Tail(backlog) \in Seq(Clients)
    BY <1>1 DEF Accept, SysTypes
  <2>2. holders' \in [Clients -> SUBSET (Clients \cup {Main})]
    BY <1>1, <2>1 DEF Accept, SysTypes
  <2>3. UNCHANGED <<store, forked, pending, merged, proc, reads, conn, ended>>
    BY <1>1 DEF Accept, logVars
  <2>4. cur' = Head(backlog) /\ backlog' = Tail(backlog)
    BY <1>1 DEF Accept
  <2>5. cur' \in Clients \cup {Main} /\ backlog' \in Seq(Clients)
    BY <2>1, <2>4
  <2>. QED  BY <2>2, <2>3, <2>5 DEF SysTypes
<1>2. CASE Fork
  <2>1. cur \in Clients /\ cur \in Procs
    BY <1>2 DEF Fork, SysTypes, Procs
  <2>2. holders' \in [Clients -> SUBSET (Clients \cup {Main})]
    BY <1>2, <2>1 DEF Fork, SysTypes
  <2>3. proc' \in [Procs -> {"none", "read", "echo", "log", "zombie", "reaped"}]
    BY <1>2, <2>1 DEF Fork, SysTypes
  <2>. QED  BY <1>2, <2>2, <2>3 DEF Fork, SysTypes, logVars, netVars
<1>3. CASE CloseCopy
  <2>1. cur \in Clients
    BY <1>3 DEF CloseCopy, SysTypes
  <2>2. ended' \in [Clients -> {"no", "eof", "reset"}]
    BY <1>3, <2>1 DEF CloseCopy, SysTypes, EndedBy
  <2>3. holders' \in [Clients -> SUBSET (Clients \cup {Main})]
    BY <1>3, <2>1 DEF CloseCopy, SysTypes
  <2>. QED  BY <1>3, <2>2, <2>3 DEF CloseCopy, SysTypes, logVars
<1>4. CASE read_childproc
  BY <1>4 DEF read_childproc, SysTypes, logVars, netVars
<1>5. CASE LogRead
  <2>1. reads' \in 0..LogReads
    BY <1>5, SizesAssumption DEF LogRead, More, SysTypes
  <2>. QED  BY <1>5, <2>1 DEF LogRead, SysTypes, mainVars, netVars
<1>6. CASE LogEnd
  BY <1>6, ExitTypes DEF LogEnd, SysTypes, logVars
<1>. QED  BY <1>1, <1>2, <1>3, <1>4, <1>5, <1>6 DEF Parent

\* The steps of a child and of a client.
LEMMA SysTypesClient ==
    ASSUME SysTypes, NEW c \in Clients, Child(c) \/ Client(c)
    PROVE  SysTypes'
<1>1. c \in Procs
  BY DEF Procs
<1>2. CASE ChildEof(c) \/ ChildKilled(c)
  BY <1>1, <1>2, ExitTypes DEF ChildEof, ChildKilled, SysTypes, logVars
<1>3. CASE ChildRead(c) \/ ChildReset(c) \/ ChildEcho(c) \/ ChildLog(c)
  <2>1. UNCHANGED <<store, mainVars, holders, reads, backlog, ended>>
    BY <1>3 DEF ChildRead, ChildReset, ChildEcho, ChildLog, logVars, netVars
  <2>2. proc' \in [Procs -> {"none", "read", "echo", "log", "zombie", "reaped"}]
    BY <1>1, <1>3 DEF ChildRead, ChildReset, ChildEcho, ChildLog, AfterEcho, SysTypes
  <2>3. conn' \in [Clients -> {"idle", "open", "fin", "rst", "dead"}]
    BY <1>3 DEF ChildRead, ChildReset, ChildEcho, ChildLog, netVars, SysTypes
  <2>. QED  BY <2>1, <2>2, <2>3 DEF SysTypes, mainVars
<1>4. CASE Client(c)
  <2>1. UNCHANGED <<store, mainVars, holders, reads, proc, ended>>
    BY <1>4 DEF Client, Connect, Write, ShutWr, Read, Killed, logVars
  <2>2. backlog' \in Seq(Clients)
    <3>1. backlog' = backlog \/ backlog' = Append(backlog, c)
      BY <1>4 DEF Client, Connect, Write, ShutWr, Read, Killed
    <3>. QED  BY <3>1 DEF SysTypes
  <2>3. conn' \in [Clients -> {"idle", "open", "fin", "rst", "dead"}]
    BY <1>4 DEF Client, Connect, Write, ShutWr, Read, Killed, SysTypes
  <2>. QED  BY <2>1, <2>2, <2>3 DEF SysTypes, mainVars
<1>. QED  BY <1>2, <1>3, <1>4 DEF Child

\* What read takes from a connection, and what it leaves.
LEMMA ReadParts ==
    ASSUME SysTypes, TextTypes, NEW c \in Clients, ChildRead(c)
    PROVE  \E n \in 1..Len(inq[c]) :
              /\ n <= BUF_SIZE /\ inq[c] \in Text /\ inq[c] # <<>>
              /\ buf'[c] = SubSeq(inq[c], 1, n) /\ buf'[c] \in Text /\ Len(buf'[c]) = n
              /\ inq'[c] = SubSeq(inq[c], n + 1, Len(inq[c])) /\ inq'[c] \in Text
              /\ Len(inq'[c]) = Len(inq[c]) - n
              /\ buf'[c] \o inq'[c] = inq[c]
              /\ \A j \in 1..n : buf'[c][j] = inq[c][j]
              /\ \A j \in 1..(Len(inq[c]) - n) : inq'[c][j] = inq[c][n + j]
              /\ buf' \in [Clients -> Text] /\ inq' \in [Clients -> Text]
              /\ \A d \in Clients : d # c => buf'[d] = buf[d] /\ inq'[d] = inq[d]
<1> DEFINE q == inq[c]
           n == ReadLen(c)
<1>1. q \in Text /\ q # <<>>
  BY DEF ChildRead, TextTypes
<1>2. Cut(q, n)
  BY <1>1, CutText, Zenon DEF ReadLen
<1>3. buf' = [buf EXCEPT ![c] = SubSeq(q, 1, n)] /\ inq' = [inq EXCEPT ![c] = SubSeq(q, n + 1, Len(q))]
  BY DEF ChildRead, TextTypes
<1>4. buf \in [Clients -> Text] /\ inq \in [Clients -> Text]
  BY DEF TextTypes
<1> DEFINE a == SubSeq(q, 1, n)
           b == SubSeq(q, n + 1, Len(q))
<1>. HIDE DEF n
<1>5. n \in 1..Len(q) /\ n <= BUF_SIZE
  BY <1>2 DEF Cut
<1>6. /\ a \in Text /\ b \in Text /\ Len(a) = n /\ Len(b) = Len(q) - n /\ a \o b = q
      /\ \A j \in 1..n : a[j] = q[j]
      /\ \A j \in 1..(Len(q) - n) : b[j] = q[n + j]
  BY <1>2, Zenon DEF Cut
<1>7. buf' = [buf EXCEPT ![c] = a] /\ inq' = [inq EXCEPT ![c] = b]
  BY <1>3
<1>. HIDE DEF a, b
<1>8. buf' \in [Clients -> Text] /\ buf'[c] = a /\ \A d \in Clients : d # c => buf'[d] = buf[d]
  BY <1>4, <1>6, <1>7, ReplaceText
<1>9. inq' \in [Clients -> Text] /\ inq'[c] = b /\ \A d \in Clients : d # c => inq'[d] = inq[d]
  BY <1>4, <1>6, <1>7, ReplaceText
<1>10. /\ n <= BUF_SIZE /\ inq[c] \in Text /\ inq[c] # <<>>
       /\ buf'[c] = SubSeq(inq[c], 1, n) /\ buf'[c] \in Text /\ Len(buf'[c]) = n
       /\ inq'[c] = SubSeq(inq[c], n + 1, Len(inq[c])) /\ inq'[c] \in Text
       /\ Len(inq'[c]) = Len(inq[c]) - n
       /\ buf'[c] \o inq'[c] = inq[c]
       /\ \A j \in 1..n : buf'[c][j] = inq[c][j]
       /\ \A j \in 1..(Len(inq[c]) - n) : inq'[c][j] = inq[c][n + j]
  BY <1>1, <1>5, <1>6, <1>8, <1>9 DEF a, b
<1>. QED  BY <1>5, <1>8, <1>9, <1>10, Zenon

\* What the logger takes from the pipe, and what it leaves.
LEMMA LogParts ==
    ASSUME TextTypes, LogRead
    PROVE  \E a, b \in Text : /\ pipe = a \o b /\ log' = log \o a /\ pipe' = b
                              /\ Len(b) <= PipeCap
<1> DEFINE n == Min({BUF_SIZE, Len(pipe)})
           a == SubSeq(pipe, 1, n)
           b == SubSeq(pipe, n + 1, Len(pipe))
<1>1. pipe \in Text /\ pipe # <<>> /\ log' = log \o a /\ pipe' = b
  BY DEF LogRead, Written, TextTypes
<1>2. n \in 1..Len(pipe) /\ a \in Text /\ b \in Text /\ Len(b) = Len(pipe) - n /\ a \o b = pipe
  <2>1. Cut(pipe, n)
    BY <1>1, CutText, Zenon
  <2>. HIDE DEF n
  <2>. QED  BY <2>1, Zenon DEF Cut
<1>3. Len(pipe) \in Nat /\ Len(pipe) <= PipeCap /\ PipeCap \in Nat
  BY <1>1, TextParts, SizesAssumption DEF TextTypes
<1>. HIDE DEF n, a, b
<1>4. Len(b) <= PipeCap
  BY <1>2, <1>3
<1>. QED  BY <1>1, <1>2, <1>4, Zenon

\* The steps of main and of the logger.
LEMMA TextTypesServer ==
    ASSUME TextTypes, Parent \/ read_childproc \/ LogRead \/ LogEnd
    PROVE  TextTypes'
<1>1. CASE Parent \/ read_childproc \/ LogEnd
  BY <1>1 DEF Parent, Accept, Fork, CloseCopy, read_childproc, LogEnd, TextTypes, logVars, netVars, clntVars
<1>2. CASE LogRead
  <2>1. PICK a \in Text, b \in Text : pipe = a \o b /\ log' = log \o a /\ pipe' = b /\ Len(b) <= PipeCap
    BY <1>2, LogParts
  <2>2. log' \in Text
    BY <2>1, TextParts DEF TextTypes
  <2>. QED  BY <1>2, <2>1, <2>2 DEF LogRead, TextTypes, netVars, clntVars
<1>. QED  BY <1>1, <1>2

\* The steps of a child.
LEMMA TextTypesChild ==
    ASSUME SysTypes, TextTypes, NEW c \in Clients, Child(c)
    PROVE  TextTypes'
<1>1. CASE ChildRead(c)
  <2>1. PICK n \in 1..Len(inq[c]) : /\ n <= BUF_SIZE /\ Len(buf'[c]) = n
                                    /\ buf' \in [Clients -> Text] /\ inq' \in [Clients -> Text]
                                    /\ \A d \in Clients : d # c => buf'[d] = buf[d]
    BY <1>1, ReadParts
  <2>2. \A d \in Clients : Len(buf'[d]) <= BUF_SIZE
    BY <2>1 DEF TextTypes
  <2>3. UNCHANGED <<pipe, log, outq, got, sent>>
    BY <1>1 DEF ChildRead, logVars, clntVars
  <2>. QED  BY <2>1, <2>2, <2>3 DEF TextTypes
<1>2. CASE ChildReset(c) \/ ChildEof(c)
  BY <1>2 DEF ChildReset, ChildEof, TextTypes, logVars, clntVars
<1>3. ASSUME buf' = buf \/ buf' = [buf EXCEPT ![c] = <<>>]
      PROVE  buf' \in [Clients -> Text] /\ \A d \in Clients : Len(buf'[d]) <= BUF_SIZE
  <2>1. <<>> \in Text /\ Len(<<>>) = 0 /\ 0 <= BUF_SIZE
    BY TextParts, SizesAssumption
  <2>. QED  BY <1>3, <2>1 DEF TextTypes
<1>4. CASE ChildEcho(c)
  <2>1. buf' = buf \/ buf' = [buf EXCEPT ![c] = <<>>]
    BY <1>4 DEF ChildEcho, TextTypes
  <2>2. outq' \in [Clients -> Text]
    <3>1. outq[c] \o buf[c] \in Text
      BY TextParts DEF TextTypes
    <3>. QED  BY <1>4, <3>1 DEF ChildEcho, Taken, TextTypes
  <2>3. UNCHANGED <<pipe, log, inq, got, sent>>
    BY <1>4 DEF ChildEcho, logVars, clntVars
  <2>. QED  BY <1>3, <2>1, <2>2, <2>3 DEF TextTypes
<1>5. CASE ChildKilled(c)
  <2>1. buf' = [buf EXCEPT ![c] = <<>>] /\ UNCHANGED <<pipe, log, inq, outq, got, sent>>
    BY <1>5 DEF ChildKilled, logVars, clntVars
  <2>. QED  BY <1>3, <2>1 DEF TextTypes
<1>6. CASE ChildLog(c)
  <2>1. /\ buf' = [buf EXCEPT ![c] = <<>>] /\ UNCHANGED <<log, inq, outq, got, sent>>
        /\ pipe' = pipe \o buf[c] /\ Len(pipe) + Len(buf[c]) <= PipeCap
    BY <1>6 DEF ChildLog, netVars, clntVars
  <2>2. pipe' \in Text /\ Len(pipe') <= PipeCap
    BY <2>1, TextParts DEF TextTypes
  <2>. QED  BY <1>3, <2>1, <2>2 DEF TextTypes
<1>. QED  BY <1>1, <1>2, <1>4, <1>5, <1>6 DEF Child

\* The steps of a client.
LEMMA TextTypesClient ==
    ASSUME SysTypes, TextTypes, NEW c \in Clients, Client(c)
    PROVE  TextTypes'
<1>1. CASE Connect(c) \/ ShutWr(c)
  BY <1>1 DEF Connect, ShutWr, TextTypes, logVars, clntVars
<1>2. CASE Write(c)
  <2>1. sent[c] \in 0..MaxSent /\ MaxSent \in Nat
    BY SizesAssumption DEF TextTypes
  <2>2. sent[c] + 1 \in 1..MaxSent /\ sent[c] + 1 \in 0..MaxSent
    BY <1>2, <2>1 DEF Write
  <2>3. Append(inq[c], <<c, sent[c] + 1>>) \in Text
    <3>1. <<c, sent[c] + 1>> \in Units /\ inq[c] \in Seq(Units)
      BY <2>2 DEF Units, TextTypes, Text
    <3>. QED  BY <3>1 DEF Text
  <2>4. /\ inq' = [inq EXCEPT ![c] = Append(inq[c], <<c, sent[c] + 1>>)]
        /\ sent' = [sent EXCEPT ![c] = sent[c] + 1]
        /\ UNCHANGED <<buf, pipe, log, outq, got>>
    BY <1>2 DEF Write, logVars, TextTypes
  <2>5. inq' \in [Clients -> Text]
    BY <2>3, <2>4, ReplaceText DEF TextTypes
  <2>6. sent' \in [Clients -> 0..MaxSent]
    BY <2>2, <2>4 DEF TextTypes
  <2>. QED  BY <2>4, <2>5, <2>6 DEF TextTypes
<1>3. CASE Read(c) \/ Killed(c)
  <2>1. <<>> \in Text /\ got[c] \o outq[c] \in Text
    BY TextParts DEF TextTypes
  <2>2. outq' \in [Clients -> Text] /\ got' \in [Clients -> Text]
    BY <1>3, <2>1 DEF Read, Killed, TextTypes, clntVars
  <2>3. UNCHANGED <<buf, pipe, log, inq, sent>>
    BY <1>3 DEF Read, Killed, logVars, clntVars
  <2>. QED  BY <2>2, <2>3 DEF TextTypes
<1>. QED  BY <1>1, <1>2, <1>3 DEF Client

\* Every step keeps the types.
LEMMA TypeStep ==
    ASSUME SysTypes, TextTypes, [Next]_vars
    PROVE  SysTypes' /\ TextTypes'
<1>1. CASE Next
  BY <1>1, SysTypesServer, SysTypesClient, TextTypesServer, TextTypesChild, TextTypesClient DEF Next
<1>2. CASE UNCHANGED vars
  BY <1>2 DEF vars, mainVars, logVars, netVars, clntVars, SysTypes, TextTypes
<1>. QED  BY <1>1, <1>2

LEMMA TypeInit == Init => SysTypes /\ TextTypes
<1>1. <<>> \in Text /\ Len(<<>>) = 0 /\ 0 <= BUF_SIZE /\ 0 <= PipeCap /\ 0 \in 0..LogReads /\ 0 \in 0..MaxSent
  BY TextParts, SizesAssumption
<1>2. Init => TextTypes
  BY <1>1 DEF Init, TextTypes
<1>3. Init => SysTypes
  <2>1. ASSUME Init PROVE /\ store \in BOOLEAN /\ forked = FALSE /\ pending = FALSE /\ merged = FALSE
                          /\ cur = Main /\ backlog = <<>> /\ reads = 0
    BY <2>1 DEF Init
  <2>2. ASSUME Init PROVE holders \in [Clients -> SUBSET (Clients \cup {Main})]
    BY <2>2 DEF Init
  <2>3. ASSUME Init PROVE proc \in [Procs -> {"none", "read", "echo", "log", "zombie", "reaped"}]
    BY <2>3 DEF Init
  <2>4. ASSUME Init PROVE /\ conn \in [Clients -> {"idle", "open", "fin", "rst", "dead"}]
                          /\ ended \in [Clients -> {"no", "eof", "reset"}]
    BY <2>4 DEF Init
  <2>5. <<>> \in Seq(Clients)
    OBVIOUS
  <2>. QED  BY <1>1, <2>1, <2>2, <2>3, <2>4, <2>5 DEF SysTypes
<1>. QED  BY <1>2, <1>3

-----------------------------------------------------------------------------
(* Which clients have a child.                                             *)

\* A client that is not connected, or waits in the listen queue, has no child,
\* and neither has the one main is about to fork for.  A client is at most
\* once in the queue.
ProcExact ==
    /\ \A c \in Clients : conn[c] = "idle" => proc[c] = "none" /\ c \notin ToSet(backlog) /\ cur # c
    /\ \A c \in Clients : c \in ToSet(backlog) => proc[c] = "none" /\ cur # c
    /\ \A c \in Clients : cur = c /\ ~forked => proc[c] = "none"
    /\ IsInjective(backlog)

\* What each step does with a child.
ChildOf(d) == \/ proc'[d] = proc[d]
              \/ proc[d] # "none" /\ proc'[d] # "none"

\* The steps after which main and the queue are what they were.
LEMMA ProcSame ==
    ASSUME ProcExact, UNCHANGED <<cur, forked, backlog>>,
           \A d \in Clients : conn'[d] = "idle" => conn[d] = "idle",
           \A d \in Clients : ChildOf(d)
    PROVE  ProcExact'
  BY DEF ProcExact, ChildOf

LEMMA ProcStep ==
    ASSUME SysTypes, ProcExact, [Next]_vars
    PROVE  ProcExact'
<1>. Main \notin Clients /\ Logger \notin Clients
  BY NamesAssumption
<1>. backlog \in Seq(Clients) /\ Clients \subseteq Procs
  BY DEF SysTypes, Procs
<1>1. CASE Accept
  <2>1. /\ Head(backlog) \in Clients /\ ToSet(backlog) = ToSet(Tail(backlog)) \cup {Head(backlog)}
        /\ IsInjective(Tail(backlog)) /\ Head(backlog) \notin ToSet(Tail(backlog))
    BY <1>1, TailMembers DEF Accept, ProcExact
  <2>2. /\ cur' = Head(backlog) /\ backlog' = Tail(backlog) /\ UNCHANGED <<proc, conn>>
    BY <1>1 DEF Accept
  <2>. QED  BY <2>1, <2>2 DEF ProcExact
<1>2. CASE Fork
  <2>1. /\ cur \in Clients /\ cur' = cur /\ forked' = TRUE /\ UNCHANGED <<backlog, conn>>
        /\ \A d \in Clients : d # cur => proc'[d] = proc[d]
    BY <1>2 DEF Fork, SysTypes, netVars
  <2>. QED  BY <2>1 DEF ProcExact
<1>3. CASE CloseCopy
  BY <1>3 DEF CloseCopy, ProcExact
<1>4. CASE read_childproc
  <2>1. UNCHANGED <<cur, forked, backlog, conn>>
    BY <1>4 DEF read_childproc, netVars
  <2>2. \A d \in Clients : ChildOf(d)
    BY <1>4 DEF read_childproc, SysTypes, ChildOf
  <2>. QED  BY <2>1, <2>2, ProcSame
<1>5. CASE LogRead \/ LogEnd
  <2>1. UNCHANGED <<cur, forked, backlog, conn>>
    BY <1>5 DEF LogRead, LogEnd, mainVars, netVars
  <2>2. \A d \in Clients : ChildOf(d)
    BY <1>5 DEF LogRead, LogEnd, SysTypes, ChildOf
  <2>. QED  BY <2>1, <2>2, ProcSame
<1>6. ASSUME NEW c \in Clients, Child(c) PROVE ProcExact'
  <2>1. UNCHANGED <<cur, forked, backlog>>
    BY <1>6 DEF Child, ChildRead, ChildReset, ChildEof, ChildEcho, ChildKilled, ChildLog, mainVars, netVars
  <2>2. \A d \in Clients : conn'[d] = "idle" => conn[d] = "idle"
    BY <1>6 DEF Child, ChildRead, ChildReset, ChildEof, ChildEcho, ChildKilled, ChildLog, netVars, SysTypes
  <2>3. \A d \in Clients : ChildOf(d)
    BY <1>6 DEF Child, ChildRead, ChildReset, ChildEof, ChildEcho, ChildKilled, ChildLog, AfterEcho,
                SysTypes, ChildOf
  <2>. QED  BY <2>1, <2>2, <2>3, ProcSame
<1>7. ASSUME NEW c \in Clients, Client(c) PROVE ProcExact'
  <2>1. CASE Connect(c)
    <3>1. /\ conn[c] = "idle" /\ conn'[c] = "open" /\ UNCHANGED <<cur, forked, proc>>
          /\ backlog' = Append(backlog, c) /\ \A d \in Clients : d # c => conn'[d] = conn[d]
      BY <2>1 DEF Connect, SysTypes, mainVars
    <3>2. ToSet(backlog') = ToSet(backlog) \cup {c} /\ IsInjective(backlog')
      BY <3>1, AppendMembers DEF ProcExact
    <3>. QED  BY <3>1, <3>2 DEF ProcExact
  <2>2. CASE Write(c) \/ ShutWr(c) \/ Read(c) \/ Killed(c)
    <3>1. UNCHANGED <<cur, forked, backlog, proc>>
      BY <2>2 DEF Write, ShutWr, Read, Killed, mainVars
    <3>2. \A d \in Clients : conn'[d] = "idle" => conn[d] = "idle"
      BY <2>2 DEF Write, ShutWr, Read, Killed, SysTypes
    <3>. QED  BY <3>1, <3>2, ProcSame DEF ChildOf
  <2>. QED  BY <1>7, <2>1, <2>2 DEF Client
<1>8. CASE UNCHANGED vars
  BY <1>8, ProcSame DEF vars, mainVars, netVars, ChildOf
<1>. QED  BY <1>1, <1>2, <1>3, <1>4, <1>5, <1>6, <1>7, <1>8 DEF Next, Parent

LEMMA ProcInit == Init => ProcExact
<1>1. ASSUME Init PROVE backlog = <<>> /\ cur = Main /\ forked = FALSE /\ \A c \in Clients : proc[c] = "none"
  BY <1>1, NamesAssumption DEF Init, Procs
<1>2. ToSet(<<>>) = {} /\ IsInjective(<<>>)
  BY DEF ToSet, IsInjective
<1>. QED  BY <1>1, <1>2, NamesAssumption DEF ProcExact

-----------------------------------------------------------------------------
(* The numbers of the units on their way to a child.                       *)

\* How many units of a client its child is done with.
Told(c) == sent[c] - Len(inq[c]) - Len(buf[c])

\* A client that is not connected has written nothing and has nothing.
Fresh(c) == conn[c] = "idle" => sent[c] = 0 /\ got[c] = <<>> /\ outq[c] = <<>>

\* What a child holds comes after what it is done with, and what is unread
\* after that; a child that waits for data holds nothing.
Numbered(c) ==
    /\ Told(c) >= 0
    /\ proc[c] \notin {"echo", "log"} => buf[c] = <<>>
    /\ \A j \in 1..Len(inq[c]) : inq[c][j] = <<c, sent[c] - Len(inq[c]) + j>>
    /\ \A j \in 1..Len(buf[c]) : buf[c][j] = <<c, Told(c) + j>>

NumbersExact == \A c \in Clients : Fresh(c) /\ Numbered(c)

\* The lengths are numbers.
LEMMA Lengths ==
    ASSUME TextTypes, NEW c \in Clients
    PROVE  /\ sent[c] \in Nat /\ Len(inq[c]) \in Nat /\ Len(buf[c]) \in Nat /\ Told(c) \in Int
           /\ sent[c] <= MaxSent /\ buf[c] \in Text /\ inq[c] \in Text /\ outq[c] \in Text /\ got[c] \in Text
           /\ MaxSent \in Nat
<1>1. sent[c] \in 0..MaxSent /\ MaxSent \in Nat
  BY SizesAssumption DEF TextTypes
<1>2. buf[c] \in Text /\ inq[c] \in Text /\ outq[c] \in Text /\ got[c] \in Text
  BY DEF TextTypes
<1>3. Len(inq[c]) \in Nat /\ Len(buf[c]) \in Nat
  BY <1>2, TextParts
<1>. QED  BY <1>1, <1>2, <1>3 DEF Told

\* The numbers stay where nothing of a client's text moves.
LEMMA NumberedSame ==
    ASSUME NEW d \in Clients, Numbered(d), UNCHANGED <<buf[d], inq[d], sent[d]>>,
           proc[d] \in {"echo", "log"} => proc'[d] \in {"echo", "log"} \/ buf[d] = <<>>
    PROVE  Numbered(d)' /\ Told(d)' = Told(d)
<1>1. Told(d)' = Told(d)
  BY DEF Told
<1>. QED  BY <1>1 DEF Numbered

\* A child that has passed on what it held is done with it.
LEMMA NumberedDone ==
    ASSUME TextTypes, NEW d \in Clients, Numbered(d), buf'[d] = <<>>, UNCHANGED <<inq[d], sent[d]>>
    PROVE  Numbered(d)' /\ Told(d)' = Told(d) + Len(buf[d])
<1>1. Len(<<>>) = 0
  OBVIOUS
<1>2. Told(d)' = Told(d) + Len(buf[d])
  BY <1>1, Lengths DEF Told
<1>3. Told(d)' >= 0
  BY <1>2, Lengths DEF Numbered
<1>4. \A j \in 1..Len(buf'[d]) : FALSE
  BY <1>1
<1>. QED  BY <1>2, <1>3, <1>4 DEF Numbered

\* What read has moved into the child's buffer comes next.
LEMMA NumberedRead ==
    ASSUME SysTypes, TextTypes, NEW c \in Clients, Numbered(c), ChildRead(c)
    PROVE  Numbered(c)' /\ Told(c)' = Told(c)
<1>1. PICK n \in 1..Len(inq[c]) :
         /\ Len(buf'[c]) = n /\ Len(inq'[c]) = Len(inq[c]) - n
         /\ \A j \in 1..n : buf'[c][j] = inq[c][j]
         /\ \A j \in 1..(Len(inq[c]) - n) : inq'[c][j] = inq[c][n + j]
  BY ReadParts
<1>2. sent' = sent /\ proc'[c] = "echo"
  BY DEF ChildRead, SysTypes, Procs, clntVars
<1>3. buf[c] = <<>> /\ Len(<<>>) = 0
  BY DEF ChildRead, Numbered
<1>4. /\ sent[c] \in Nat /\ Len(inq[c]) \in Nat /\ n \in Nat
  BY Lengths
<1>5. Told(c) = sent[c] - Len(inq[c])
  BY <1>3, <1>4 DEF Told
<1>6. Told(c)' = sent[c] - (Len(inq[c]) - n) - n
  BY <1>1, <1>2 DEF Told
<1>7. Told(c)' = Told(c)
  BY <1>4, <1>5, <1>6
<1>8. ASSUME NEW j \in 1..n PROVE buf'[c][j] = <<c, Told(c) + j>>
  <2>1. j \in 1..Len(inq[c])
    BY <1>4
  <2>2. inq[c][j] = <<c, sent[c] - Len(inq[c]) + j>>
    BY <2>1 DEF Numbered
  <2>. QED  BY <1>1, <1>5, <2>2
<1>9. ASSUME NEW j \in 1..(Len(inq[c]) - n) PROVE inq'[c][j] = <<c, sent[c] - (Len(inq[c]) - n) + j>>
  <2>1. n + j \in 1..Len(inq[c]) /\ sent[c] - Len(inq[c]) + (n + j) = sent[c] - (Len(inq[c]) - n) + j
    BY <1>4
  <2>2. inq[c][n + j] = <<c, sent[c] - Len(inq[c]) + (n + j)>>
    BY <2>1 DEF Numbered
  <2>. QED  BY <1>1, <2>1, <2>2
<1>. QED  BY <1>1, <1>2, <1>7, <1>8, <1>9 DEF Numbered

\* A line is numbered after those before it.
LEMMA NumberedWrite ==
    ASSUME SysTypes, TextTypes, NEW c \in Clients, Numbered(c), Write(c)
    PROVE  Numbered(c)' /\ Told(c)' = Told(c)
<1> DEFINE q == inq[c]
           u == <<c, sent[c] + 1>>
<1>1. inq'[c] = Append(q, u) /\ sent'[c] = sent[c] + 1 /\ UNCHANGED <<buf, proc>>
  BY DEF Write, TextTypes
<1>2. sent[c] \in Nat /\ Len(q) \in Nat /\ Len(buf[c]) \in Nat
  BY Lengths
<1>3. /\ Len(inq'[c]) = Len(q) + 1 /\ inq'[c][Len(q) + 1] = u
      /\ \A j \in 1..Len(q) : inq'[c][j] = q[j]
  BY <1>1 DEF TextTypes, Text
<1>4. Told(c)' = Told(c)
  <2>1. Told(c)' = (sent[c] + 1) - (Len(q) + 1) - Len(buf[c])
    BY <1>1, <1>3, Zenon DEF Told
  <2>2. Told(c) = sent[c] - Len(q) - Len(buf[c])
    BY Zenon DEF Told
  <2>. HIDE DEF q
  <2>. QED  BY <1>2, <2>1, <2>2
<1>5. ASSUME NEW j \in 1..(Len(q) + 1) PROVE inq'[c][j] = <<c, (sent[c] + 1) - (Len(q) + 1) + j>>
  <2>1. (sent[c] + 1) - (Len(q) + 1) + j = sent[c] - Len(q) + j
    BY <1>2
  <2>2. CASE j \in 1..Len(q)
    BY <1>3, <2>1, <2>2 DEF Numbered
  <2>3. CASE j = Len(q) + 1
    <3>1. (sent[c] + 1) - (Len(q) + 1) + j = sent[c] + 1
      BY <1>2, <2>3
    <3>. QED  BY <1>3, <2>3, <3>1
  <2>4. j \in 1..Len(q) \/ j = Len(q) + 1
    BY <1>2
  <2>. QED  BY <2>2, <2>3, <2>4
<1>. HIDE DEF q, u
<1>6. \A j \in 1..Len(inq'[c]) : inq'[c][j] = <<c, sent'[c] - Len(inq'[c]) + j>>
  BY <1>1, <1>3, <1>5
<1>. QED  BY <1>1, <1>4, <1>6 DEF Numbered

\* Before the first line.
LEMMA FreshStep ==
    ASSUME SysTypes, TextTypes, NumbersExact, [Next]_vars, NEW d \in Clients
    PROVE  Fresh(d)'
<1>1. CASE conn'[d] # "idle"
  BY <1>1 DEF Fresh
<1>2. CASE conn[d] = "idle" /\ UNCHANGED <<sent[d], got[d], outq[d]>>
  BY <1>2 DEF NumbersExact, Fresh
<1>3. CASE Parent \/ read_childproc \/ LogRead \/ LogEnd \/ UNCHANGED vars
  <2>1. UNCHANGED <<conn, sent, got, outq>>
    BY <1>3 DEF Parent, Accept, Fork, CloseCopy, read_childproc, LogRead, LogEnd, vars, netVars, clntVars
  <2>. QED  BY <1>1, <1>2, <2>1
<1>4. ASSUME NEW c \in Clients, Child(c) PROVE Fresh(d)'
  <2>1. UNCHANGED <<sent, got>>
    BY <1>4 DEF Child, ChildRead, ChildReset, ChildEof, ChildEcho, ChildKilled, ChildLog, netVars, clntVars
  <2>2. conn'[d] = conn[d] \/ conn'[d] = "dead"
    BY <1>4 DEF Child, ChildRead, ChildReset, ChildEof, ChildEcho, ChildKilled, ChildLog, netVars, SysTypes
  <2>3. outq'[d] = outq[d] \/ conn'[d] # "idle"
    BY <1>4 DEF Child, ChildRead, ChildReset, ChildEof, ChildEcho, ChildKilled, ChildLog, netVars, TextTypes
  <2>. QED  BY <1>1, <1>2, <2>1, <2>2, <2>3
<1>5. ASSUME NEW c \in Clients, Client(c) PROVE Fresh(d)'
  <2>1. CASE c = d
    <3>1. conn'[d] # "idle"
      BY <1>5, <2>1 DEF Client, Connect, Write, ShutWr, Read, Killed, SysTypes
    <3>. QED  BY <1>1, <3>1
  <2>2. CASE c # d
    <3>1. UNCHANGED <<conn[d], sent[d], got[d], outq[d]>>
      BY <1>5, <2>2 DEF Client, Connect, Write, ShutWr, Read, Killed, SysTypes, TextTypes, clntVars
    <3>. QED  BY <1>1, <1>2, <3>1
  <2>. QED  BY <2>1, <2>2
<1>. QED  BY <1>3, <1>4, <1>5 DEF Next

\* Every step keeps the numbers; what a child is done with grows when it has
\* echoed, or logged, what it held, or is killed.
LEMMA NumberedStep ==
    ASSUME SysTypes, TextTypes, ProcExact, NumbersExact, [Next]_vars, NEW d \in Clients
    PROVE  Numbered(d)' /\ (Told(d)' = Told(d) \/ ~store \/ ChildLog(d) \/ ChildKilled(d))
<1>. Numbered(d) /\ d \in Procs /\ d # Logger
  BY NamesAssumption DEF NumbersExact, Procs
<1>1. CASE Parent \/ read_childproc \/ LogRead \/ LogEnd \/ UNCHANGED vars
  <2>1. UNCHANGED <<buf, inq, sent>>
    BY <1>1 DEF Parent, Accept, Fork, CloseCopy, read_childproc, LogRead, LogEnd, vars, netVars, clntVars
  <2>2. proc[d] \in {"echo", "log"} => proc'[d] = proc[d]
    <3>1. CASE Fork
      <4>1. cur = d => proc[d] = "none"
        BY <3>1 DEF Fork, ProcExact
      <4>. QED  BY <3>1, <4>1 DEF Fork, SysTypes
    <3>2. CASE Accept \/ CloseCopy \/ read_childproc \/ LogRead \/ LogEnd \/ UNCHANGED vars
      BY <3>2 DEF Accept, CloseCopy, read_childproc, LogRead, LogEnd, vars, SysTypes
    <3>. QED  BY <1>1, <3>1, <3>2 DEF Parent
  <2>. QED  BY <2>1, <2>2, NumberedSame
<1>2. ASSUME NEW c \in Clients, Child(c), c # d
      PROVE  Numbered(d)' /\ Told(d)' = Told(d)
  <2>1. UNCHANGED <<buf[d], inq[d], sent[d], proc[d]>>
    BY <1>2 DEF Child, ChildRead, ChildReset, ChildEof, ChildEcho, ChildKilled, ChildLog, netVars, clntVars,
                SysTypes, TextTypes
  <2>. QED  BY <2>1, NumberedSame
<1>3. CASE Child(d)
  <2>1. CASE ChildRead(d)
    BY <2>1, NumberedRead
  <2>2. CASE ChildReset(d) \/ ChildEof(d) \/ (ChildEcho(d) /\ store)
    <3>1. UNCHANGED <<buf[d], inq[d], sent[d]>>
      BY <2>2 DEF ChildReset, ChildEof, ChildEcho, clntVars, TextTypes
    <3>2. proc[d] \in {"echo", "log"} => proc'[d] \in {"echo", "log"}
      BY <2>2 DEF ChildReset, ChildEof, ChildEcho, AfterEcho, SysTypes
    <3>. QED  BY <3>1, <3>2, NumberedSame
  <2>3. CASE ChildKilled(d) \/ ChildLog(d) \/ (ChildEcho(d) /\ ~store)
    <3>1. buf'[d] = <<>> /\ UNCHANGED <<inq[d], sent[d]>>
      BY <2>3 DEF ChildKilled, ChildLog, ChildEcho, netVars, clntVars, TextTypes
    <3>. QED  BY <2>3, <3>1, NumberedDone
  <2>. QED  BY <1>3, <2>1, <2>2, <2>3 DEF Child
<1>4. ASSUME NEW c \in Clients, Client(c)
      PROVE  Numbered(d)' /\ Told(d)' = Told(d)
  <2>1. CASE Write(c) /\ c = d
    BY <2>1, NumberedWrite
  <2>2. CASE ~ (Write(c) /\ c = d)
    <3>1. UNCHANGED <<buf[d], inq[d], sent[d], proc[d]>>
      BY <1>4, <2>2 DEF Client, Connect, Write, ShutWr, Read, Killed, clntVars, TextTypes
    <3>. QED  BY <3>1, NumberedSame
  <2>. QED  BY <2>1, <2>2
<1>. QED  BY <1>1, <1>2, <1>3, <1>4 DEF Next

LEMMA NumbersInit == Init => NumbersExact
<1>1. ASSUME Init, NEW c \in Clients
      PROVE  /\ sent[c] = 0 /\ got[c] = <<>> /\ outq[c] = <<>> /\ inq[c] = <<>> /\ buf[c] = <<>>
  BY <1>1 DEF Init
<1>2. Len(<<>>) = 0 /\ 0 - 0 - 0 = 0 /\ 1..0 = {}
  OBVIOUS
<1>3. ASSUME Init, NEW c \in Clients PROVE Told(c) = 0
  <2>1. Told(c) = 0 - Len(<<>>) - Len(<<>>)
    BY <1>1, <1>3 DEF Told
  <2>. QED  BY <1>2, <2>1, Zenon
<1>. QED  BY <1>1, <1>2, <1>3 DEF NumbersExact, Fresh, Numbered

-----------------------------------------------------------------------------
(* No client's text is lost, repeated or out of order on its way back.     *)

\* What a child holds and has not written to the client.
Held(c) == IF proc[c] = "echo" THEN buf[c] ELSE <<>>

\* All of a client's text, wherever it is, and what it has written.
Whole(c)  == got[c] \o outq[c] \o Held(c) \o inq[c]
Typed(c)  == [k \in 1..sent[c] |-> <<c, k>>]

EchoOf(c) == conn[c] \in {"open", "fin"} => Whole(c) = Typed(c)

EchoExact == \A c \in Clients : EchoOf(c)

\* Nothing may be put between parts, and parts may be put together.
Joins(x, a, b) == (x \o <<>>) \o (a \o b) = (x \o a) \o b

LEMMA JoinText == \A x, a, b \in Text : Joins(x, a, b)
  BY DEF Text, Joins

\* What a child holds may as well be put behind what is on its way back.
Puts(x, a, b) == (x \o (a \o b)) \o <<>> = (x \o a) \o b

LEMMA PutText == \A x, a, b \in Text : Puts(x, a, b)
  BY DEF Text, Puts

\* A unit put behind the last part is behind the whole.
Ends(x, a, u) == x \o Append(a, u) = Append(x \o a, u)

LEMMA EndText == \A x, a \in Text : \A u \in Units : Ends(x, a, u)
  BY DEF Text, Ends

\* What has been displayed may be put together with what is before it.
Moved(x, a) == (x \o a) \o <<>> = x \o a

LEMMA MovedText == \A x, a \in Text : Moved(x, a)
  BY DEF Text, Moved

\* The parts are texts.
LEMMA PartTypes ==
    ASSUME TextTypes, NEW c \in Clients
    PROVE  /\ got[c] \in Text /\ outq[c] \in Text /\ Held(c) \in Text /\ inq[c] \in Text /\ buf[c] \in Text
           /\ got[c] \o outq[c] \in Text /\ (got[c] \o outq[c]) \o Held(c) \in Text
<1>1. got[c] \in Text /\ outq[c] \in Text /\ buf[c] \in Text /\ inq[c] \in Text
  BY Lengths
<1>2. Held(c) \in Text
  BY <1>1, TextParts DEF Held
<1>. QED  BY <1>1, <1>2, TextParts

\* A text stays whole where nothing of it moves.
LEMMA EchoSame ==
    ASSUME EchoExact, NEW d \in Clients, Held(d)' = Held(d), UNCHANGED <<got[d], outq[d], inq[d], sent[d]>>,
           conn'[d] = conn[d] \/ (conn[d] = "open" /\ conn'[d] = "fin") \/ conn'[d] \notin {"open", "fin"}
    PROVE  EchoOf(d)'
<1>1. EchoOf(d) /\ Whole(d)' = Whole(d) /\ Typed(d)' = Typed(d)
  BY DEF EchoExact, Whole, Typed
<1>. QED  BY <1>1 DEF EchoOf

\* The steps of main and of the logger move nothing.
LEMMA EchoServer ==
    ASSUME SysTypes, TextTypes, ProcExact, EchoExact,
           Parent \/ read_childproc \/ LogRead \/ LogEnd \/ UNCHANGED vars
    PROVE  EchoExact'
<1>1. UNCHANGED <<buf, inq, outq, got, sent, conn>>
  BY DEF Parent, Accept, Fork, CloseCopy, read_childproc, LogRead, LogEnd, vars, netVars, clntVars
<1>2. ASSUME NEW d \in Clients PROVE proc[d] = "echo" <=> proc'[d] = "echo"
  <2>. d \in Procs /\ d # Logger
    BY NamesAssumption DEF Procs
  <2>1. CASE Fork
    <3>1. cur = d => proc[d] = "none"
      BY <2>1 DEF Fork, ProcExact
    <3>. QED  BY <2>1, <3>1 DEF Fork, SysTypes
  <2>2. CASE Accept \/ CloseCopy \/ read_childproc \/ LogRead \/ LogEnd \/ UNCHANGED vars
    BY <2>2 DEF Accept, CloseCopy, read_childproc, LogRead, LogEnd, vars, SysTypes
  <2>. QED  BY <2>1, <2>2 DEF Parent
<1>3. \A d \in Clients : Held(d)' = Held(d)
  BY <1>1, <1>2 DEF Held
<1>4. ASSUME NEW d \in Clients PROVE EchoOf(d)'
  BY <1>1, <1>3, EchoSame
<1>. QED  BY <1>4 DEF EchoExact

\* read moves units from what is unread to what the child holds.
LEMMA EchoRead ==
    ASSUME SysTypes, TextTypes, NumbersExact, EchoExact, NEW c \in Clients, ChildRead(c)
    PROVE  EchoOf(c)'
<1>1. UNCHANGED <<outq, got, sent, conn>> /\ proc[c] = "read" /\ proc'[c] = "echo"
  BY DEF ChildRead, SysTypes, Procs, clntVars
<1>2. buf'[c] \in Text /\ inq'[c] \in Text /\ buf'[c] \o inq'[c] = inq[c]
  BY ReadParts
<1>3. Held(c) = <<>> /\ Held(c)' = buf'[c]
  BY <1>1 DEF Held
<1>4. Whole(c)' = Whole(c)
  <2> DEFINE x == got[c] \o outq[c]
  <2>1. x \in Text
    BY PartTypes
  <2>2. Joins(x, buf'[c], inq'[c])
    BY <1>2, <2>1, JoinText, Zenon
  <2>3. (x \o <<>>) \o inq[c] = (x \o buf'[c]) \o inq'[c]
    BY <1>2, <2>2, Zenon DEF Joins
  <2>4. Whole(c) = (x \o <<>>) \o inq[c]
    BY <1>3, Zenon DEF Whole
  <2>5. Whole(c)' = (x \o buf'[c]) \o inq'[c]
    BY <1>1, <1>3 DEF Whole
  <2>. HIDE DEF x
  <2>. QED  BY <2>3, <2>4, <2>5, Zenon
<1>. QED  BY <1>1, <1>4 DEF EchoExact, EchoOf, Typed

\* write puts what the child holds behind what is on its way back.
LEMMA EchoWrite ==
    ASSUME SysTypes, TextTypes, NumbersExact, EchoExact, NEW c \in Clients, ChildEcho(c)
    PROVE  EchoOf(c)'
<1>1. UNCHANGED <<inq, got, sent>> /\ proc[c] = "echo" /\ proc'[c] # "echo"
  BY DEF ChildEcho, AfterEcho, SysTypes, Procs, clntVars
<1>2. Held(c) = buf[c] /\ Held(c)' = <<>>
  BY <1>1 DEF Held
<1>3. CASE conn'[c] \notin {"open", "fin"}
  BY <1>3 DEF EchoOf
<1>4. CASE conn'[c] \in {"open", "fin"}
  <2>1. conn' = conn /\ outq'[c] = outq[c] \o buf[c]
    BY <1>4 DEF ChildEcho, Taken, SysTypes, TextTypes
  <2>2. Puts(got[c], outq[c], buf[c])
    BY PartTypes, PutText, Zenon
  <2>3. Whole(c) = ((got[c] \o outq[c]) \o buf[c]) \o inq[c]
    BY <1>2, Zenon DEF Whole
  <2>4. Whole(c)' = ((got[c] \o (outq[c] \o buf[c])) \o <<>>) \o inq[c]
    BY <1>1, <1>2, <2>1 DEF Whole
  <2>5. Whole(c)' = Whole(c)
    BY <2>2, <2>3, <2>4, Zenon DEF Puts
  <2>. QED  BY <1>1, <2>1, <2>5 DEF EchoExact, EchoOf, Typed
<1>. QED  BY <1>3, <1>4

\* The steps of a child.
LEMMA EchoChild ==
    ASSUME SysTypes, TextTypes, NumbersExact, EchoExact, NEW c \in Clients, Child(c)
    PROVE  EchoExact'
<1>1. ASSUME NEW d \in Clients, d # c PROVE EchoOf(d)'
  <2>4. UNCHANGED <<buf[d], inq[d]>>
    BY <1>1 DEF Child, ChildRead, ChildReset, ChildEof, ChildEcho, ChildKilled, ChildLog, netVars, TextTypes
  <2>1. proc'[d] = proc[d]
    <3>. d \in Procs
      BY DEF Procs
    <3>. QED  BY <1>1 DEF Child, ChildRead, ChildReset, ChildEof, ChildEcho, ChildKilled, ChildLog, SysTypes
  <2>5. outq'[d] = outq[d]
    <3>1. outq' = outq \/ outq' = [outq EXCEPT ![c] = @ \o Taken(c)]
      BY <1>1 DEF Child, ChildRead, ChildReset, ChildEof, ChildEcho, ChildKilled, ChildLog, netVars
    <3>. QED  BY <1>1, <3>1 DEF TextTypes
  <2>3. UNCHANGED <<got, sent, conn[d]>>
    BY <1>1 DEF Child, ChildRead, ChildReset, ChildEof, ChildEcho, ChildKilled, ChildLog, netVars, clntVars,
                SysTypes
  <2>2. Held(d)' = Held(d)
    BY <2>1, <2>4 DEF Held
  <2>. QED  BY <2>1, <2>2, <2>3, <2>4, <2>5, EchoSame
<1>2. EchoOf(c)'
  <2>1. CASE ChildRead(c) \/ ChildEcho(c)
    BY <2>1, EchoRead, EchoWrite
  <2>2. CASE ChildReset(c) \/ ChildEof(c) \/ ChildLog(c)
    <3>1. UNCHANGED <<inq, outq, got, sent>> /\ (conn'[c] = conn[c] \/ conn'[c] \notin {"open", "fin"})
      BY <2>2 DEF ChildReset, ChildEof, ChildLog, netVars, clntVars, SysTypes
    <3>2. proc[c] # "echo" /\ proc'[c] # "echo"
      BY <2>2 DEF ChildReset, ChildEof, ChildLog, SysTypes, Procs
    <3>3. Held(c)' = Held(c)
      BY <3>2 DEF Held
    <3>. QED  BY <3>1, <3>3, EchoSame
  <2>3. CASE ChildKilled(c)
    BY <2>3 DEF ChildKilled, EchoOf
  <2>. QED  BY <2>1, <2>2, <2>3 DEF Child
<1>. QED  BY <1>1, <1>2 DEF EchoExact

\* A client's units are numbered on and on.
LEMMA LineGoesOn ==
    \A c : \A n \in Nat :
        Append([k \in 1..n |-> <<c, k>>], <<c, n + 1>>) = [k \in 1..(n + 1) |-> <<c, k>>]
<1>. SUFFICES ASSUME NEW c, NEW n \in Nat
              PROVE  Append([k \in 1..n |-> <<c, k>>], <<c, n + 1>>) = [k \in 1..(n + 1) |-> <<c, k>>]
  OBVIOUS
<1> DEFINE t == [k \in 1..n |-> <<c, k>>]
           u == <<c, n + 1>>
           T == {c} \X Nat
           r == [k \in 1..(n + 1) |-> <<c, k>>]
<1>1. t \in Seq(T) /\ Len(t) = n /\ u \in T /\ \A k \in 1..n : t[k] = <<c, k>>
  OBVIOUS
<1>2. r \in Seq(T) /\ Len(r) = n + 1 /\ \A k \in 1..(n + 1) : r[k] = <<c, k>>
  OBVIOUS
<1>3. u = <<c, n + 1>>
  OBVIOUS
<1>. HIDE DEF t, u, T, r
<1>4. /\ Append(t, u) \in Seq(T) /\ Len(Append(t, u)) = n + 1 /\ Append(t, u)[n + 1] = u
      /\ \A k \in 1..n : Append(t, u)[k] = t[k]
  BY <1>1, AppendProperties
<1>5. \A k \in 1..(n + 1) : Append(t, u)[k] = r[k]
  <2>1. \A k \in 1..(n + 1) : k \in 1..n \/ k = n + 1
    OBVIOUS
  <2>2. n + 1 \in 1..(n + 1)
    OBVIOUS
  <2>. QED  BY <1>1, <1>2, <1>3, <1>4, <2>1, <2>2, Zenon
<1>6. Append(t, u) = r
  BY <1>2, <1>4, <1>5, SeqEqual
<1>. QED  BY <1>6 DEF t, u, r

\* The line a client writes is behind the others.
LEMMA EchoLine ==
    ASSUME SysTypes, TextTypes, NumbersExact, EchoExact, NEW c \in Clients, Write(c)
    PROVE  EchoOf(c)'
<1> DEFINE x == (got[c] \o outq[c]) \o Held(c)
           u == <<c, sent[c] + 1>>
<1>1. /\ conn[c] = "open" /\ inq'[c] = Append(inq[c], u) /\ sent'[c] = sent[c] + 1
      /\ UNCHANGED <<conn, outq, got, buf, proc>>
  BY DEF Write, TextTypes
<1>2. u \in Units /\ sent[c] \in Nat
  <2>1. sent[c] \in Nat /\ MaxSent \in Nat /\ sent[c] < MaxSent
    BY Lengths DEF Write
  <2>2. sent[c] + 1 \in 1..MaxSent
    BY <2>1
  <2>. QED  BY <2>1, <2>2 DEF Units
<1>3. Held(c)' = Held(c)
  BY <1>1 DEF Held
<1>4. x \in Text /\ inq[c] \in Text
  BY PartTypes
<1>5. Ends(x, inq[c], u)
  BY <1>2, <1>4, EndText, Zenon
<1>6. Whole(c) = x \o inq[c]
  BY Zenon DEF Whole
<1>7. Whole(c)' = x \o Append(inq[c], u)
  BY <1>1, <1>3 DEF Whole
<1>8. Whole(c) = Typed(c)
  BY <1>1 DEF EchoExact, EchoOf
<1>9. Append(Typed(c), u) = [k \in 1..(sent[c] + 1) |-> <<c, k>>]
  BY <1>2, LineGoesOn, Zenon DEF Typed
<1>. HIDE DEF x, u
<1>10. Whole(c)' = Append(Typed(c), u)
  BY <1>5, <1>6, <1>7, <1>8, Zenon DEF Ends
<1>. QED  BY <1>1, <1>9, <1>10 DEF EchoOf, Typed

\* The steps of a client.
LEMMA EchoClient ==
    ASSUME SysTypes, TextTypes, ProcExact, NumbersExact, EchoExact, NEW c \in Clients, Client(c)
    PROVE  EchoExact'
<1>1. UNCHANGED <<buf, proc>> /\ \A d \in Clients : Held(d)' = Held(d)
  BY DEF Client, Connect, Write, ShutWr, Read, Killed, Held
<1>2. ASSUME NEW d \in Clients, d # c PROVE EchoOf(d)'
  <2>1. UNCHANGED <<inq[d], outq[d], got[d], sent[d], conn[d]>>
    BY <1>2 DEF Client, Connect, Write, ShutWr, Read, Killed, clntVars, SysTypes, TextTypes
  <2>. QED  BY <1>1, <2>1, EchoSame
<1>3. EchoOf(c)'
  <2>1. CASE Connect(c)
    <3>1. conn[c] = "idle" /\ UNCHANGED <<inq, outq, got, sent>>
      BY <2>1 DEF Connect, clntVars
    <3>2. got[c] = <<>> /\ outq[c] = <<>> /\ sent[c] = 0 /\ Numbered(c)
      BY <3>1 DEF NumbersExact, Fresh
    <3>3. proc[c] = "none" /\ Held(c) = <<>>
      BY <3>1 DEF ProcExact, Held
    <3>4. buf[c] = <<>>
      BY <3>2, <3>3 DEF Numbered
    <3>5. Len(inq[c]) = 0
      <4>1. 0 - Len(inq[c]) - Len(buf[c]) >= 0 /\ Len(inq[c]) \in Nat /\ Len(buf[c]) \in Nat
        BY <3>2, Lengths DEF Numbered, Told
      <4>. QED  BY <4>1
    <3>6. inq[c] = <<>>
      BY <3>5, Lengths DEF Text
    <3>7. Whole(c)' = <<>> \o <<>> \o <<>> \o <<>> /\ Typed(c)' = [k \in 1..0 |-> <<c, k>>]
      BY <1>1, <3>1, <3>2, <3>3, <3>6 DEF Whole, Typed
    <3>8. <<>> \o <<>> \o <<>> \o <<>> = <<>> /\ [k \in 1..0 |-> <<c, k>>] = <<>>
      OBVIOUS
    <3>. QED  BY <3>7, <3>8 DEF EchoOf
  <2>2. CASE Write(c)
    BY <2>2, EchoLine
  <2>3. CASE ShutWr(c) \/ Killed(c)
    <3>1. UNCHANGED <<inq, got, sent>> /\ (conn'[c] \notin {"open", "fin"}
                                            \/ (outq' = outq /\ conn[c] = "open" /\ conn'[c] = "fin"))
      BY <2>3 DEF ShutWr, Killed, clntVars, SysTypes
    <3>2. CASE conn'[c] \notin {"open", "fin"}
      BY <3>2 DEF EchoOf
    <3>. QED  BY <1>1, <3>1, <3>2, EchoSame
  <2>4. CASE Read(c)
    <3>1. /\ got'[c] = got[c] \o outq[c] /\ outq'[c] = <<>> /\ UNCHANGED <<inq, sent, conn>>
      BY <2>4 DEF Read, TextTypes
    <3>2. Moved(got[c], outq[c])
      BY PartTypes, MovedText, Zenon
    <3>3. Whole(c)' = ((got[c] \o outq[c]) \o <<>>) \o Held(c) \o inq[c]
      BY <1>1, <3>1 DEF Whole
    <3>4. Whole(c)' = Whole(c)
      BY <3>2, <3>3, Zenon DEF Moved, Whole
    <3>. QED  BY <3>1, <3>4 DEF EchoExact, EchoOf, Typed
  <2>. QED  BY <2>1, <2>2, <2>3, <2>4 DEF Client
<1>. QED  BY <1>2, <1>3 DEF EchoExact

\* Every step keeps every text whole.
LEMMA EchoStep ==
    ASSUME SysTypes, TextTypes, ProcExact, NumbersExact, EchoExact, [Next]_vars
    PROVE  EchoExact'
  BY EchoServer, EchoChild, EchoClient DEF Next

LEMMA EchoInit == Init => EchoExact
  BY DEF Init, EchoExact, EchoOf

-----------------------------------------------------------------------------
(* The log has what the clients wrote.                                     *)

\* Each unit comes after the one its client wrote before it.
Follows(q) ==
    \A i \in DOMAIN q :
        LET u == q[i]
        IN  u[2] = 1 \/ \E k \in 1..(i - 1) : q[k] = <<u[1], u[2] - 1>>

\* Of a client's text, the log and the pipe have what its child is done with.
HasUpTo(q, c, t) == \A n \in 1..MaxSent : <<c, n>> \in ToSet(q) <=> n <= t
LoggedOf(c) == HasUpTo(Logged, c, Told(c))

\* A list that has a client's units from t on.
GoesOn(b, c, t) == \A j \in 1..Len(b) : b[j] = <<c, t + j>>

\* There is a log only where there is a logger.  A child that was killed may
\* have taken the last part of a text along.
LogExact ==
    /\ IsInjective(Logged) /\ Follows(Logged)
    /\ ~store => log = <<>> /\ pipe = <<>> /\ \A c \in Clients : proc[c] # "log"
    /\ store => \A c \in Clients : proc[c] \notin {"zombie", "reaped"} => LoggedOf(c)

\* The two parts of a pair.
LEMMA PairParts == \A u, c, n : u = <<c, n>> => u[1] = c /\ u[2] = n
  OBVIOUS

LEMMA PairSame == \A c, d, m, n : <<c, m>> = <<d, n>> => c = d /\ m = n
  OBVIOUS

\* A child's chunk, numbered from where the list has its client's text up to,
\* may be put behind the list.
LEMMA ChunkFollows ==
    ASSUME NEW q \in Text, NEW b \in Text, NEW c \in Clients, NEW t \in Nat, IsInjective(q), Follows(q),
           HasUpTo(q, c, t), GoesOn(b, c, t)
    PROVE  /\ IsInjective(q \o b) /\ Follows(q \o b)
           /\ \A d \in Clients : d # c => \A n : <<d, n>> \in ToSet(q \o b) <=> <<d, n>> \in ToSet(q)
           /\ HasUpTo(q \o b, c, t + Len(b))
<1> DEFINE r == q \o b
           L == Len(q)
           M == Len(b)
<1>1. /\ q \in Seq(Units) /\ b \in Seq(Units) /\ L \in Nat /\ M \in Nat /\ MaxSent \in Nat
  BY SizesAssumption DEF Text
<1>2. /\ r \in Seq(Units) /\ Len(r) = L + M /\ DOMAIN r = 1..(L + M)
      /\ \A k \in 1..L : r[k] = q[k]
      /\ \A j \in 1..M : r[L + j] = b[j]
  BY <1>1
<1>3. \A j \in 1..M : <<c, t + j>> \in Units /\ b[j] = <<c, t + j>>
  <2>1. \A j \in 1..M : b[j] \in Units
    BY <1>1
  <2>2. \A j \in 1..M : b[j] = <<c, t + j>>
    BY DEF GoesOn
  <2>. QED  BY <2>1, <2>2
<1>4. \A j \in 1..M : t + j \in 1..MaxSent
  BY <1>3 DEF Units
<1>5. \A x : x \in ToSet(q) <=> \E k \in 1..L : q[k] = x
  BY <1>1, ToSetByIndex
<1>6. \A x : x \in ToSet(b) <=> \E j \in 1..M : b[j] = x
  BY <1>1, ToSetByIndex
<1>7. /\ ToSet(r) = ToSet(q) \cup ToSet(b)
      /\ IsInjective(q) /\ IsInjective(b) /\ ToSet(q) \cap ToSet(b) = {} => IsInjective(r)
  BY <1>1, ConcatMembers
<1>. HIDE DEF r, L, M
<1>8. IsInjective(b)
  <2>1. ASSUME NEW k \in 1..M, NEW l \in 1..M, b[k] = b[l] PROVE k = l
    <3>1. <<c, t + k>> = <<c, t + l>>
      BY <1>3, <2>1
    <3>2. t + k = t + l
      BY <3>1
    <3>. QED  BY <1>1, <3>2
  <2>. QED  BY <1>1, <2>1, ToSetByIndex DEF M
<1>9. ASSUME NEW x \in ToSet(q), x \in ToSet(b) PROVE FALSE
  <2>1. PICK j \in 1..M : b[j] = x
    BY <1>6, <1>9
  <2>3. t + j \in 1..MaxSent /\ ~ (t + j <= t)
    BY <1>1, <1>4
  <2>2. t + j \in 1..MaxSent /\ x = <<c, t + j>> /\ ~ (t + j <= t)
    BY <1>3, <2>1, <2>3, Zenon
  <2>. QED  BY <1>9, <2>2 DEF HasUpTo
<1>10. IsInjective(r)
  BY <1>7, <1>8, <1>9
<1>11. Follows(r)
  <2>1. ASSUME NEW i \in 1..L
        PROVE  r[i][2] = 1 \/ \E k \in 1..(i - 1) : r[k] = <<r[i][1], r[i][2] - 1>>
    <3>1. r[i] = q[i] /\ i \in DOMAIN q /\ \A k \in 1..(i - 1) : r[k] = q[k]
      BY <1>1, <1>2, <2>1 DEF L
    <3>2. q[i][2] = 1 \/ \E k \in 1..(i - 1) : q[k] = <<q[i][1], q[i][2] - 1>>
      BY <3>1, Zenon DEF Follows
    <3>. QED  BY <3>1, <3>2
  <2>2. ASSUME NEW j \in 1..M, NEW i, i = L + j
        PROVE  r[i][2] = 1 \/ \E k \in 1..(i - 1) : r[k] = <<r[i][1], r[i][2] - 1>>
    <3>1. r[i] = <<c, t + j>> /\ r[i][1] = c /\ r[i][2] = t + j
      <4>1. r[L + j] = b[j] /\ b[j] = <<c, t + j>>
        BY <1>2, <1>3, Zenon
      <4>2. r[i] = <<c, t + j>>
        BY <2>2, <4>1, Zenon
      <4>. QED  BY <4>2, PairParts, Zenon
    <3>2. CASE j = 1 /\ t = 0
      BY <3>1, <3>2
    <3>3. CASE j = 1 /\ t # 0
      <4>1. t \in 1..MaxSent /\ t <= t /\ t + j - 1 = t
        BY <1>1, <1>4, <3>3
      <4>2. <<c, t>> \in ToSet(q)
        BY <4>1 DEF HasUpTo
      <4>3. PICK k \in 1..L : q[k] = <<c, t>>
        BY <1>5, <4>2
      <4>4. k \in 1..(i - 1) /\ r[k] = <<c, t>>
        BY <1>1, <1>2, <2>2, <3>3, <4>3
      <4>. QED  BY <3>1, <4>1, <4>4
    <3>4. CASE j # 1
      <4>1. j - 1 \in 1..M /\ L + (j - 1) \in 1..(i - 1) /\ t + (j - 1) = t + j - 1
        BY <1>1, <2>2, <3>4
      <4>2. r[L + (j - 1)] = <<c, t + (j - 1)>>
        BY <1>2, <1>3, <4>1
      <4>. QED  BY <3>1, <4>1, <4>2
    <3>. QED  BY <3>2, <3>3, <3>4
  <2>3. ASSUME NEW i \in DOMAIN r PROVE i \in 1..L \/ \E j \in 1..M : i = L + j
    <3>1. i \in 1..L \/ (i - L \in 1..M /\ i = L + (i - L))
      BY <1>1, <1>2, <2>3
    <3>. QED  BY <3>1
  <2>. QED  BY <2>1, <2>2, <2>3 DEF Follows
<1>12. ASSUME NEW d \in Clients, d # c, NEW n PROVE <<d, n>> \notin ToSet(b)
  <2>1. SUFFICES ASSUME <<d, n>> \in ToSet(b) PROVE FALSE
    OBVIOUS
  <2>2. PICK j \in 1..M : b[j] = <<d, n>>
    BY <1>6, <2>1
  <2>3. <<c, t + j>> = <<d, n>>
    BY <1>3, <2>2, Zenon
  <2>. QED  BY <1>12, <2>3, PairSame, Zenon
<1>13. ASSUME NEW n \in 1..MaxSent PROVE <<c, n>> \in ToSet(b) <=> t < n /\ n <= t + M
  <2>1. ASSUME <<c, n>> \in ToSet(b) PROVE t < n /\ n <= t + M
    <3>1. PICK j \in 1..M : b[j] = <<c, n>>
      BY <1>6, <2>1
    <3>2. n = t + j
      <4>1. <<c, t + j>> = <<c, n>>
        BY <1>3, <3>1, Zenon
      <4>. QED  BY <4>1, PairSame, Zenon
    <3>. QED  BY <1>1, <3>2
  <2>2. ASSUME t < n, n <= t + M PROVE <<c, n>> \in ToSet(b)
    <3>1. n - t \in 1..M /\ t + (n - t) = n
      BY <1>1, <2>2
    <3>2. b[n - t] = <<c, n>>
      BY <1>3, <3>1
    <3>. QED  BY <1>6, <3>1, <3>2
  <2>. QED  BY <2>1, <2>2
<1>14. ASSUME NEW n \in 1..MaxSent PROVE <<c, n>> \in ToSet(r) <=> n <= t + M
  <2>1. <<c, n>> \in ToSet(r) <=> <<c, n>> \in ToSet(q) \/ <<c, n>> \in ToSet(b)
    BY <1>7
  <2>2. <<c, n>> \in ToSet(q) <=> n <= t
    BY DEF HasUpTo
  <2>3. <<c, n>> \in ToSet(b) <=> t < n /\ n <= t + M
    BY <1>13
  <2>4. n <= t + M <=> n <= t \/ (t < n /\ n <= t + M)
    BY <1>1
  <2>. QED  BY <2>1, <2>2, <2>3, <2>4, Zenon
<1>15. \A d \in Clients : d # c => \A n : <<d, n>> \in ToSet(r) <=> <<d, n>> \in ToSet(q)
  BY <1>7, <1>12
<1>. QED  BY <1>10, <1>11, <1>14, <1>15 DEF r, M, HasUpTo

\* The log's text stays where nothing is put into the pipe, and a child is
\* done with no more, or is a child no longer.
LEMMA LogSame ==
    ASSUME LogExact, store' = store, Logged' = Logged, ~store => UNCHANGED <<log, pipe>>,
           \A d \in Clients : proc'[d] = "log" => store \/ proc[d] = "log",
           \A d \in Clients : \/ ~store
                              \/ proc'[d] \in {"zombie", "reaped"}
                              \/ proc[d] \notin {"zombie", "reaped"} /\ Told(d)' = Told(d)
    PROVE  LogExact'
<1>1. IsInjective(Logged)' /\ Follows(Logged)'
  BY DEF LogExact
<1>2. CASE store
  <2>1. ASSUME NEW d \in Clients, proc'[d] \notin {"zombie", "reaped"} PROVE LoggedOf(d)'
    <3>1. LoggedOf(d) /\ Told(d)' = Told(d)
      BY <1>2, <2>1 DEF LogExact
    <3>. QED  BY <3>1 DEF LoggedOf
  <2>. QED  BY <1>1, <1>2, <2>1 DEF LogExact
<1>3. CASE ~store
  BY <1>1, <1>3 DEF LogExact
<1>. QED  BY <1>2, <1>3

\* Text that is put behind the pipe is behind what was logged before.
JoinsLog(a, q, b) == a \o (q \o b) = (a \o q) \o b

LEMMA JoinLog == \A a, q, b \in Text : JoinsLog(a, q, b)
  BY DEF Text, JoinsLog

\* A child writes what it holds to the pipe: in one piece, after what the
\* log has of its client.
LEMMA LogChunk ==
    ASSUME SysTypes, TextTypes, NumbersExact, LogExact, NEW c \in Clients, ChildLog(c)
    PROVE  LogExact'
<1>. c \in Procs /\ Clients \subseteq Procs
  BY DEF Procs
<1>1. /\ pipe' = pipe \o buf[c] /\ buf'[c] = <<>> /\ UNCHANGED <<store, log, inq, sent>>
      /\ proc[c] = "log" /\ proc'[c] = "read"
      /\ \A d \in Clients : d # c => proc'[d] = proc[d] /\ buf'[d] = buf[d]
  BY DEF ChildLog, netVars, clntVars, SysTypes, TextTypes
<1>2. store
  BY <1>1 DEF LogExact
<1>3. Numbered(c) /\ LoggedOf(c)
  BY <1>1, <1>2 DEF NumbersExact, LogExact
<1>4. Told(c) \in Nat /\ Told(c)' = Told(c) + Len(buf[c])
  BY <1>1, <1>3, NumberedDone, Lengths DEF Numbered
<1>5. Logged \in Text /\ buf[c] \in Text /\ Logged' = Logged \o buf[c]
  <2>1. pipe \in Text /\ log \in Text /\ buf[c] \in Text
    BY Lengths DEF TextTypes
  <2>2. JoinsLog(log, pipe, buf[c])
    BY <2>1, JoinLog, Zenon
  <2>3. Logged \in Text
    BY <2>1, TextParts DEF Logged
  <2>4. Logged' = log \o (pipe \o buf[c])
    BY <1>1 DEF Logged
  <2>. QED  BY <2>1, <2>2, <2>3, <2>4, Zenon DEF Logged, JoinsLog
<1>6. /\ IsInjective(Logged) /\ Follows(Logged)
      /\ HasUpTo(Logged, c, Told(c)) /\ GoesOn(buf[c], c, Told(c))
  BY <1>3 DEF LogExact, LoggedOf, Numbered, GoesOn
<1>7. /\ IsInjective(Logged') /\ Follows(Logged')
      /\ \A d \in Clients : d # c => \A n : <<d, n>> \in ToSet(Logged') <=> <<d, n>> \in ToSet(Logged)
      /\ HasUpTo(Logged', c, Told(c) + Len(buf[c]))
  BY <1>4, <1>5, <1>6, ChunkFollows
<1>8. ASSUME NEW d \in Clients, proc'[d] \notin {"zombie", "reaped"} PROVE LoggedOf(d)'
  <2>1. CASE d = c
    BY <1>4, <1>7, <2>1 DEF LoggedOf
  <2>2. CASE d # c
    <3>1. Told(d)' = Told(d)
      BY <1>1, <2>2 DEF Told
    <3>2. LoggedOf(d)
      BY <1>1, <1>2, <1>8, <2>2 DEF LogExact
    <3>. QED  BY <1>7, <2>2, <3>1, <3>2 DEF LoggedOf, HasUpTo
  <2>. QED  BY <2>1, <2>2
<1>. QED  BY <1>1, <1>2, <1>7, <1>8 DEF LogExact

\* The logger moves text from the pipe to the file.
LEMMA LogMoved ==
    ASSUME SysTypes, TextTypes, LogExact, LogRead
    PROVE  Logged' = Logged /\ store
<1>1. PICK a \in Text, b \in Text : pipe = a \o b /\ log' = log \o a /\ pipe' = b
  BY LogParts
<1>2. JoinsLog(log, a, b)
  <2>1. log \in Text
    BY DEF TextTypes
  <2>. QED  BY <2>1, JoinLog, Zenon
<1>3. Logged' = Logged
  BY <1>1, <1>2 DEF Logged, JoinsLog
<1>4. store
  BY DEF LogRead, LogExact
<1>. QED  BY <1>3, <1>4

\* Every step keeps the log exact.
LEMMA LogStep ==
    ASSUME SysTypes, TextTypes, ProcExact, NumbersExact, LogExact, [Next]_vars
    PROVE  LogExact'
<1>. Clients \subseteq Procs /\ Logger \notin Clients
  BY NamesAssumption DEF Procs
<1>1. CASE \E c \in Clients : ChildLog(c)
  BY <1>1, LogChunk
<1>2. CASE ~ \E c \in Clients : ChildLog(c)
  <2>1. store' = store
    BY DEF Next, Parent, Accept, Fork, CloseCopy, read_childproc, LogRead, LogEnd, Child, ChildRead, ChildReset,
           ChildEof, ChildEcho, ChildKilled, ChildLog, Client, Connect, Write, ShutWr, Read, Killed, vars
  <2>2. Logged' = Logged /\ (~store => UNCHANGED <<log, pipe>>)
    <3>1. CASE LogRead
      BY <3>1, LogMoved
    <3>2. CASE ~LogRead
      <4>1. UNCHANGED <<log, pipe>>
        BY <1>2, <3>2 DEF Next, Parent, Accept, Fork, CloseCopy, read_childproc, LogEnd, Child, ChildRead,
             ChildReset, ChildEof, ChildEcho, ChildKilled, Client, Connect, Write, ShutWr, Read, Killed,
             vars, logVars
      <4>. QED  BY <4>1 DEF Logged
    <3>. QED  BY <3>1, <3>2
  <2>3. ASSUME NEW d \in Clients
        PROVE  /\ proc'[d] = "log" => store \/ proc[d] = "log"
               /\ proc'[d] \in {"zombie", "reaped"} \/ proc[d] \notin {"zombie", "reaped"}
    <3>1. CASE Parent \/ read_childproc \/ LogRead \/ LogEnd \/ UNCHANGED vars
      <4>1. CASE Fork
        <5>1. cur = d => proc[d] = "none"
          BY <4>1 DEF Fork, ProcExact
        <5>. QED  BY <4>1, <5>1 DEF Fork, SysTypes
      <4>2. CASE Accept \/ CloseCopy \/ read_childproc \/ LogRead \/ LogEnd \/ UNCHANGED vars
        BY <4>2 DEF Accept, CloseCopy, read_childproc, LogRead, LogEnd, vars, SysTypes
      <4>. QED  BY <3>1, <4>1, <4>2 DEF Parent
    <3>2. ASSUME NEW c \in Clients, Child(c)
          PROVE  /\ proc'[d] = "log" => store \/ proc[d] = "log"
                 /\ proc'[d] \in {"zombie", "reaped"} \/ proc[d] \notin {"zombie", "reaped"}
      BY <3>2 DEF Child, ChildRead, ChildReset, ChildEof, ChildEcho, ChildKilled, ChildLog, AfterEcho, SysTypes
    <3>3. ASSUME NEW c \in Clients, Client(c)
          PROVE  proc' = proc
      BY <3>3 DEF Client, Connect, Write, ShutWr, Read, Killed
    <3>. QED  BY <3>1, <3>2, <3>3 DEF Next
  <2>4. ASSUME NEW d \in Clients
        PROVE  ~store \/ proc'[d] \in {"zombie", "reaped"} \/ Told(d)' = Told(d)
    <3>1. Told(d)' = Told(d) \/ ~store \/ ChildLog(d) \/ ChildKilled(d)
      BY NumberedStep
    <3>2. ChildKilled(d) => proc'[d] = "zombie"
      BY DEF ChildKilled, SysTypes
    <3>. QED  BY <1>2, <3>1, <3>2
  <2>. QED  BY <2>1, <2>2, <2>3, <2>4, LogSame
<1>. QED  BY <1>1, <1>2

LEMMA LogInit == Init => LogExact
<1>1. ASSUME Init PROVE log = <<>> /\ pipe = <<>> /\ \A c \in Clients : proc[c] = "none" /\ Told(c) = 0
  <2>1. /\ log = <<>> /\ pipe = <<>>
        /\ \A c \in Clients : proc[c] = "none" /\ sent[c] = 0 /\ inq[c] = <<>> /\ buf[c] = <<>>
    BY <1>1, NamesAssumption DEF Init, Procs
  <2>2. Len(<<>>) = 0 /\ 0 - 0 - 0 = 0
    OBVIOUS
  <2>3. ASSUME NEW c \in Clients PROVE Told(c) = 0
    <3>1. Told(c) = 0 - Len(<<>>) - Len(<<>>)
      BY <2>1 DEF Told
    <3>. QED  BY <2>2, <3>1, Zenon
  <2>. QED  BY <2>1, <2>3
<1>2. <<>> \o <<>> = <<>> /\ ToSet(<<>>) = {} /\ IsInjective(<<>>) /\ Follows(<<>>)
  BY DEF ToSet, IsInjective, Follows
<1>3. \A n \in 1..MaxSent : ~ (n <= 0)
  BY SizesAssumption
<1>4. \A c : HasUpTo(<<>>, c, 0)
  BY <1>2, <1>3 DEF HasUpTo
<1>. QED  BY <1>1, <1>2, <1>4 DEF LogExact, LoggedOf, Logged

-----------------------------------------------------------------------------
TextInv == SysTypes /\ TextTypes /\ ProcExact /\ NumbersExact /\ EchoExact /\ LogExact

\* Whatever the numbers of clients, the sizes of the buffers and of the pipe,
\* and however often the logger reads: a client that is not interrupted gets
\* back what it wrote, whole and in order, and the log has every client's text
\* without a gap or a repetition, in the order it was written.
THEOREM TextCorrect == Spec => []TextExact
<1>1. TextInv => TextExact
  <2>1. TextInv => EchoIntact
    BY DEF TextInv, EchoExact, EchoOf, EchoIntact, Whole, Typed, Held
  <2>2. TextInv => LogFaithful
    BY DEF TextInv, LogExact, LogFaithful, Follows
  <2>. QED  BY <2>1, <2>2, TypeParts DEF TextInv, TextExact
<1>2. Init => TextInv
  BY TypeInit, ProcInit, NumbersInit, EchoInit, LogInit DEF TextInv
<1>3. TextInv /\ [Next]_vars => TextInv'
  <2>. SUFFICES ASSUME TextInv, [Next]_vars PROVE TextInv'
    OBVIOUS
  <2>. SysTypes /\ TextTypes /\ ProcExact /\ NumbersExact /\ EchoExact /\ LogExact
    BY DEF TextInv
  <2>1. SysTypes' /\ TextTypes' /\ ProcExact'
    BY TypeStep, ProcStep
  <2>2. NumbersExact'
    BY FreshStep, NumberedStep DEF NumbersExact
  <2>3. EchoExact' /\ LogExact'
    BY EchoStep, LogStep
  <2>. QED  BY <2>1, <2>2, <2>3 DEF TextInv
<1>. QED  BY <1>1, <1>2, <1>3, PTL DEF Spec
=============================================================================
