---------------------------- MODULE MCInitValue ----------------------------
(* InitValue for TLC: the boot of both start files, and the cases of a     *)
(* program linked with cstart64.S, as those with AP_INIT_CHECK are.        *)
EXTENDS InitValue
=============================================================================
