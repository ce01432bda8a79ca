------------------------------ MODULE MCForkEcho ------------------------------
(* An instance of ForkEcho for TLC. *)
EXTENDS ForkEcho
=============================================================================
