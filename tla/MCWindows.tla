------------------------------ MODULE MCWindows ------------------------------
(* An instance of Windows for TLC; the constants are in the configuration. *)
EXTENDS Windows
=============================================================================
