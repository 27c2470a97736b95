------------------------------- MODULE MCSmp -------------------------------
(* Smp for TLC. *)
EXTENDS SmpInv
=============================================================================
