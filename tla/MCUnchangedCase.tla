-------------------------- MODULE MCUnchangedCase --------------------------
(* UnchangedCase for TLC. *)
EXTENDS UnchangedCase
=============================================================================
