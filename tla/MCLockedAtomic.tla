--------------------------- MODULE MCLockedAtomic ---------------------------
(* Model-checking instance of LockedAtomic: each build on processors that  *)
(* keep every access atomic and on faulty ones, with and without the races *)
(* of the start-up, and with plain operands loaded once or at each use.    *)
EXTENDS LockedAtomic

Setting(build, fault, prompt, reload) ==
  [build |-> build, fault |-> fault, prompt |-> prompt, reload |-> reload]
MCSettings ==
  {Setting("non_safety_vm", "none", TRUE, FALSE),
   Setting("non_safety_vm", "none", FALSE, FALSE),
   Setting("native", "none", TRUE, FALSE),
   Setting("native", "none", FALSE, TRUE),
   Setting("native", "lock", TRUE, FALSE),
   Setting("native", "split", TRUE, FALSE)}
=============================================================================
