------------------------------- MODULE Scripts -------------------------------
(***************************************************************************)
(* The programs of the repository that talk over TCP with blocking calls   *)
(* in straight lines and simple loops, as scripts: what each main (and     *)
(* each handler of a connection) does after socket() and before return,    *)
(* call by call.  The machine that runs them is Streams.                   *)
(***************************************************************************)
EXTENDS Calls, SequencesExt

\* The lines a user types, as texts and as writes, each with what follows it.
Typed(c) == FlattenSeq([k \in 1..Lines |-> Text(c, k)])
PerLine(c, reply) == FlattenSeq([k \in 1..Lines |-> <<Write(Text(c, k))>> \o reply])

-----------------------------------------------------------------------------
(* Chapters 1 and 2: a greeting.                                           *)

Hello == Text("serv", 1)
hserver == <<Listen, Accept, Write(Hello), Close, CloseL, Exit>>
hclient == <<Connect, Read(BUF_SIZE, Check), Close, Exit>>
hServer == hserver
hClient == hclient
tcp_server == <<Listen, Accept, Write(Hello), CloseL, Close, Exit>>
tcp_client == <<Connect, UntilEof(1, Check), Close, Exit>>
tcp_server_win == hserver
tcp_client_win == tcp_client
tcp_server_delay ==
    <<Listen, Accept>> \o [i \in 1..2 |-> Write(<<Hello[i]>>)] \o <<CloseL, Close, Exit>>
tcp_client_delay == hclient
tcp_server_win_delay ==
    <<Listen, Accept>> \o [i \in 1..2 |-> Write(<<Hello[i]>>)] \o <<Close, CloseL, Exit>>
tcp_client_win_delay == <<Connect, Read(BUF_SIZE, FALSE), Close, Exit>>

(* Chapters 4, 5, 9, 10, 15, 18 and 21: echo servers that serve one client *)
(* after the other, and clients that read once or count what they read.    *)

echo_server == <<Listen>> \o Repeat(Rounds, <<Accept, Echo, Close>>) \o <<CloseL, Exit>>
echo_server_win == echo_server
echo_server2 == echo_server
reuseaddr_eserver == <<Listen, Accept, Echo, Close, CloseL, Exit>>
echo_stdserv ==     \* both streams hold one descriptor: the second fclose fails
    <<Listen>> \o Repeat(Rounds, <<Accept, EchoLine, Close, CloseW>>) \o <<CloseL, Exit>>

ReadsOnce(c, chk) == <<Connect>> \o PerLine(c, <<Read(BUF_SIZE, chk)>>) \o <<Close, Exit>>
Counts(c, chk)    == <<Connect>> \o PerLine(c, <<Count(2, chk)>>) \o <<Close, Exit>>
echo_client(c)      == ReadsOnce(c, FALSE)
echo_client_win(c)  == ReadsOnce(c, FALSE)
echo_client9(c)     == ReadsOnce(c, Check)
echo_client10(c)    == ReadsOnce(c, FALSE)
echo_client2(c)     == Counts(c, Check)
echo_client18(c)    == Counts(c, FALSE)
echo_client21(c)    == Counts(c, FALSE)
echo_stdclient(c)   == <<Connect>> \o PerLine(c, <<Gets>>) \o <<Close, CloseW, Exit>>

\* Chapter 18, exercise 7: a thread per client, one mutex for a whole connection.
multi_thread_main == <<Listen>> \o Repeat(Rounds, <<Accept, Spawn>>) \o <<Accept>>
KeepsMutex == <<Copy, Lock, Echo, Close>>   \* in a changed program: no unlock
handle_clnt == <<Copy, Lock, Echo, Unlock, Close>>

(* Chapter 5: lengths and counts in front of the data.                     *)

Letter(m) == <<Write(Number(Len(m))), Write(m)>>
letter1 == Text("serv", 1)
letter2 == Text("serv", 2)
\* The server's str_len still holds the length of letter1; the client sets neither
\* str_len nor message before the first letter, and both before the second.
tcp5_server == <<Listen, Accept>> \o Letter(letter1) \o <<ReadLetter({Len(letter1)}, Unset)>>
               \o Letter(letter2) \o <<Close, CloseL, Exit>>
tcp5_client(c) == <<Connect, ReadLetter(Anything, Unset)>> \o Letter(Text(c, 1))
                  \o <<ReadLetter({0}, Cleared), Close, Exit>>

\* The name fills FILE_NAME_SIZE, of which the server reads all but the last byte.
file5_server == <<Listen, Accept, Read(2, FALSE), Open, Close, CloseL, Exit>>
file5_client(c) == <<Connect, Write(Name(c)), Read(BUF_SIZE, Check), Close, Exit>>

\* A request [opnds, op] as it is sent: the count, the operands, the operator.
opmsg(count, q) == <<count>> \o [i \in DOMAIN q.opnds |-> Number(q.opnds[i])]
                   \o << << <<"op", q.op>> >> >>
op_client(q) == <<Connect, Write(FlattenSeq(opmsg(Byte(Len(q.opnds)), q))), Read(2, FALSE),
                  Close, Exit>>
op_client_win(q) == op_client(q)
op_serves(accept) == <<Listen>> \o Repeat(Rounds, <<accept, Sized(2, 1), Calculate, Close>>)
                     \o <<CloseL, Exit>>
op_server == op_serves(AcceptAnyway)
op_server_win == op_serves(Accept)
jeongmo_op_client(q) ==
    LET items == opmsg(Number(Len(q.opnds)), q)
    IN  <<Connect>> \o [i \in DOMAIN items |-> Write(items[i])] \o <<Read(2, Check), Close, Exit>>
jeongmo_op_server == <<Listen, Accept, Operands, Calculate, CloseL, Close, Exit>>

(* Chapters 7 and 16: half-close, then a message the other way.            *)

Thanks(c) == Text(c, 1)
file_serves(accept) == <<Listen, accept, Write(<<file_contents[1]>>), Write(<<file_contents[2]>>),
                         Shut, Read(BUF_SIZE, FALSE), Close, CloseL, Exit>>
file_server == file_serves(Accept)
file_client(c) == <<Connect, UntilEof(BUF_SIZE, FALSE), Write(Thanks(c)), Close, Exit>>
file_server_win == file_serves(AcceptAnyway)
file_client_win(c) == file_client(c)
sep_clnt(c) == <<Connect, UntilEof(BUF_SIZE, FALSE), Write(Thanks(c)), CloseW, Close, Exit>>
sep_serv == <<Listen, Accept, Write(Hello), CloseW, Gets, Close, Exit>>
\* In a changed program the copy is closed without shutdown.
ClosesCopy == <<Listen, Accept, Dup, Write(Hello), CloseW, Gets, Close, Exit>>
sep_serv2 == <<Listen, Accept, Dup, Write(Hello), Shut, CloseW, Gets, Close, Exit>>

(* Chapters 13 and 22: single transfers.                                   *)

peek_send(c) == <<Connect, Write(Text(c, 1)), Close, Exit>>
peek_recv == <<Listen, Accept, Peek, Read(BUF_SIZE, FALSE), CloseL, Close, Exit>>
OverlappedSend(c) == <<Connect, Write(Text(c, 1)), Close, Exit>>
OverlappedRecv == <<Listen, Accept, Read(BUF_SIZE, Check), Close, CloseL, Exit>>
CmplRoutinesRecv == <<Listen, Accept, Arm, Read(BUF_SIZE, Check), Close, CloseL, Exit>>

(* Chapter 24: web servers.                                                *)

webserv_linux_main == <<Listen>> \o Repeat(Rounds, <<Accept, Spawn>>) \o <<Accept>>
webserv_win_main == <<Listen>> \o Repeat(Rounds, <<Accept, Spawn>>) \o <<Accept>>
request_handler == <<Copy, Dup, Gets, Route>>
RequestHandler == <<Read(BUF_SIZE, FALSE), Route>>
=============================================================================
