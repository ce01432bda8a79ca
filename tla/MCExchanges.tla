----------------------------- MODULE MCExchanges -----------------------------
(***************************************************************************)
(* Which programs talk to which in the runs, what users type, and what     *)
(* the clients should have read in the end.                                *)
(***************************************************************************)
EXTENDS Scripts, TLC
CONSTANTS c1, c2
MCClients == {c1, c2}
MCImpatient == {c1}
MCFds == 1..4

Pair(serv, hand, clnt, want, win) ==
    [serv |-> serv, hand |-> hand, clnt |-> clnt, want |-> want, win |-> win]
One(serv, clnt, want, win) == Pair(serv, <<>>, (c1 :> clnt), (c1 :> want), win)
Two(serv, hand, clnt(_), win) ==
    Pair(serv, hand, [c \in Clients |-> clnt(c)], [c \in Clients |-> Typed(c)], win)
\* 2 - 3 wraps around below zero, 2 * 3 * 3 above Word.
Asks(c) == IF c = c1 THEN [opnds |-> <<2, 3>>, op |-> "-"] ELSE [opnds |-> <<2, 3, 3>>, op |-> "*"]
Sums(q) == Number(IF q.op = "-" THEN Word - 1 ELSE 18 % Word)
Op(serv, clnt(_), win) == Pair(serv, <<>>, [c \in Clients |-> clnt(Asks(c))],
                               [c \in Clients |-> Sums(Asks(c))], win)
Web(serv, hand, kind, win) ==
    Pair(serv, hand, [c \in DOMAIN kind |-> browser(c, kind[c])],
         [c \in DOMAIN kind |-> IF kind[c] = "get" THEN Page(c) ELSE Error(c)], win)
Letter5(m) == Number(Len(m)) \o m

MCExchanges ==
    "none"    :> Pair(<<>>, <<>>, <<>>, <<>>, FALSE) @@   \* another machine runs
    "hello"   :> One(hserver, hclient, Hello, FALSE) @@
    "hello_w" :> One(hServer, hClient, Hello, TRUE) @@
    "tcp"     :> One(tcp_server, tcp_client, Hello, FALSE) @@
    "tcp_w"   :> One(tcp_server_win, tcp_client_win, Hello, TRUE) @@
    "delay"   :> One(tcp_server_delay, tcp_client_delay, Hello, FALSE) @@
    "delay_w" :> One(tcp_server_win_delay, tcp_client_win_delay, Hello, TRUE) @@
    "echo"    :> Two(echo_server, <<>>, echo_client, FALSE) @@
    "echo10"  :> Two(echo_server, <<>>, echo_client10, FALSE) @@
    "echo_w"  :> Two(echo_server_win, <<>>, echo_client_win, TRUE) @@
    "echo2"   :> Two(echo_server2, <<>>, echo_client2, FALSE) @@
    "reuse"   :> One(reuseaddr_eserver, echo_client9(c1), Typed(c1), FALSE) @@
    "std"     :> Two(echo_stdserv, <<>>, echo_stdclient, FALSE) @@
    "letters" :> One(tcp5_server, tcp5_client(c1),
                     Letter5(letter1) \o Letter5(letter2), FALSE) @@
    "file5"   :> One(file5_server, file5_client(c1), file_contents, FALSE) @@
    "op"      :> Op(op_server, op_client, FALSE) @@
    "op_w"    :> Op(op_server_win, op_client_win, TRUE) @@
    "op_j"    :> One(jeongmo_op_server, jeongmo_op_client(Asks(c1)), Sums(Asks(c1)), FALSE) @@
    "file"    :> One(file_server, file_client(c1), file_contents, FALSE) @@
    "file_w"  :> One(file_server_win, file_client_win(c1), file_contents, TRUE) @@
    "sep"     :> One(sep_serv, sep_clnt(c1), Hello, FALSE) @@
    "sep2"    :> One(sep_serv2, sep_clnt(c1), Hello, FALSE) @@
    "peek"    :> One(peek_recv, peek_send(c1), <<>>, FALSE) @@
    "overlap" :> One(OverlappedRecv, OverlappedSend(c1), <<>>, TRUE) @@
    "routine" :> One(CmplRoutinesRecv, OverlappedSend(c1), <<>>, TRUE) @@
    \* The servers with a thread per connection.
    "multi"   :> Two(multi_thread_main, handle_clnt, echo_client18, FALSE) @@
    "web"     :> Web(webserv_linux_main, request_handler, c1 :> "get" @@ c2 :> "missing", FALSE) @@
    "web_p"   :> Web(webserv_linux_main, request_handler, c1 :> "post", FALSE) @@
    "webs"    :> Web(webserv_win_main, RequestHandler, c1 :> "post" @@ c2 :> "get", TRUE) @@
    "webs_m"  :> Web(webserv_win_main, RequestHandler, c1 :> "missing" @@ c2 :> "get", TRUE)
=============================================================================
