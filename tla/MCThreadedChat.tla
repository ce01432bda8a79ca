--------------------------- MODULE MCThreadedChat ---------------------------
(* Instances of ThreadedChat for TLC. *)
EXTENDS ThreadedChat, TLC

\* The three standard streams and serv_sock hold 0 to 3.
MCFDs == {4, 5}
Descriptors == {4, 5, 6}

Symmetry == Permutations(Clients)
=============================================================================
