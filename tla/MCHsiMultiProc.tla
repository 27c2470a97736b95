--------------------------- MODULE MCHsiMultiProc ---------------------------
(* The lock-step cases on conforming and on broken processors.             *)
EXTENDS HsiMultiProc

Setting(fault, cpuid, patient) ==
  [fault |-> fault, monitor |-> cpuid, deadline |-> cpuid, patient |-> patient]
MCSettings ==
  {Setting(f, TRUE, TRUE) : f \in {"none", "lock", "split"}}
  \union {Setting("none", FALSE, TRUE), Setting("lock", TRUE, FALSE)}
=============================================================================
