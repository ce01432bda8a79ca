----------------------------- MODULE MCEpollChat -----------------------------
(* An instance of EpollChat for TLC. *)
EXTENDS EpollChat, TLC

\* The standard streams, serv_sock and epfd hold 0 to 4.
MCFDs == {5, 6}

Symmetry == Permutations(Clients)
=============================================================================
