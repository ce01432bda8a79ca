------------------------------ MODULE MCWinChat ------------------------------
(* An instance of WinChat for TLC; the constants are in the configuration. *)
EXTENDS WinChat
=============================================================================
