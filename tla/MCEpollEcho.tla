----------------------------- MODULE MCEpollEcho -----------------------------
(* An instance of EpollEcho for TLC. *)
EXTENDS EpollEcho

\* The standard streams, serv_sock and epfd hold 0 to 4.
MCFDs == {5, 6}
=============================================================================
