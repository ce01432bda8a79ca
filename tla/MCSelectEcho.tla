----------------------------- MODULE MCSelectEcho -----------------------------
(* Instances of SelectEcho for TLC. *)
EXTENDS SelectEcho

\* One socket more than an fd_set has room for.
MCFDs == {2, 3, 4}
=============================================================================
