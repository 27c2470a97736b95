------------------------------ MODULE MCApBoot ------------------------------
(* ApBoot for TLC. *)
EXTENDS ApBoot
=============================================================================
