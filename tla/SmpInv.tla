------------------------------- MODULE SmpInv -------------------------------
(***************************************************************************)
(* The inductive invariant of Smp.  A call passes through three phases:    *)
(*   - Unread: its caller holds ipi_lock and the destination has not yet   *)
(*     finished copying the mailbox;                                       *)
(*   - Unanswered: the destination still owes its caller ipi_done = 1;     *)
(*   - Late: the handler works on its own copies.                          *)
(***************************************************************************)
EXTENDS Smp

Preparing == {"locked", "clear", "func", "data", "wait", "icr"}
Reading == {"func", "data", "wait", "done_early"}
Late == {"eoi_early", "call", "run", "dec", "done_late"}

(* CPU d still has to write ipi_done for the call now in the mailbox. *)
Unanswered(d) ==
  \/ irr[d]
  \/ hpc[d] \in Reading
  \/ hpc[d] \in {"call", "run", "dec", "done_late"} /\ hw[d]

(* The call cur has not been picked up yet. *)
Unread ==
  \/ \E c \in CPU : pc[c] \in Preparing
  \/ \E d \in CPU : irr[d] \/ hpc[d] \in Reading

(* ipi_lock is held exactly while some CPU is inside __on_cpu, by one CPU. *)
LockInv ==
  /\ \A c, d \in CPU : pc[c] \in Holding /\ pc[d] \in Holding => c = d
  /\ \A c \in CPU : pc[c] \in Holding => ipi_lock
  
(* What the owner c of ipi_lock knows of its own call. *)
Owns(c) ==
  /\ cur.from = c /\ cur.to = cpu[c]
  /\ cur.sync = Waits(op[c])
  /\ cur \in posted
  /\ pc[c] \in {"data", "wait", "icr", "spin"} => ipi_function = cur
  /\ pc[c] \in {"wait", "icr", "spin"} => ipi_data = cur
  /\ pc[c] \in {"icr", "spin"} => ipi_wait = cur.sync
  /\ pc[c] \in {"func", "data", "wait", "icr"} => ~ipi_done
  /\ pc[c] \in Preparing \ {"locked"} => cur \in counted
  /\ pc[c] = "locked" => cur \notin counted
  /\ pc[c] \in {"spin", "unlock"} /\ cur.sync /\ (pc[c] = "spin" => ipi_done)
       => cur \in ended
  /\ pc[c] = "self" => hpc[c] = "none" /\ cur \in started
OwnerInv == \A c \in CPU : pc[c] \in Holding => Owns(c)

(* A handler that owes ipi_done has a caller that waits for it, and there  *)
(* is at most one such handler.                                            *)
SignalInv ==
  \A d \in CPU : Unanswered(d) =>
    /\ ~ipi_done
    /\ \E c \in CPU : pc[c] = "spin" /\ cpu[c] = d
    /\ irr[d] => ~(hpc[d] \in Reading)
    /\ irr[d] => ~(hpc[d] \in {"call", "run", "dec", "done_late"} /\ hw[d])

(* What the handler of CPU d has copied. *)
Copied(d) ==
  /\ hpc[d] \in {"data", "wait", "done_early"} => hf[d] = cur
  /\ hpc[d] \in {"wait", "done_early"} => hd[d] = cur
  /\ hpc[d] = "done_early" => ~hw[d] /\ ~cur.sync
  /\ hpc[d] \in Late =>
       /\ hf[d] \in posted /\ hf[d].to = d
       /\ hd[d] = hf[d] /\ hw[d] = hf[d].sync
       /\ hw[d] => hf[d] = cur
  /\ hpc[d] \in Late \ {"done_late"} => hf[d] \in counted
  /\ hpc[d] \in {"eoi_early", "call"} => hf[d] \notin started
  /\ hpc[d] \in {"run", "dec"} => hf[d] \in started
  /\ hpc[d] \in {"dec", "done_late"} => hf[d] \in ended
  /\ hpc[d] = "eoi_early" => ~hw[d]
  /\ hpc[d] = "done_late" => hw[d]
HandlerInv == \A d \in CPU : Copied(d)

(* A call nobody picked up was not run, and no handler works on it. *)
FreshInv ==
  /\ Unread => cur \notin started
  /\ (Unread \/ \E c \in CPU : pc[c] = "self") =>
       \A d \in CPU : hpc[d] \in Late => hf[d] # cur
  /\ (\E d \in CPU : irr[d] \/ hpc[d] \in Reading) => cur \in counted

HistoryInv ==
  /\ \A k \in posted : k.id <= cur.id
  /\ started \subseteq posted /\ ended \subseteq started
  /\ counted \subseteq posted
  /\ \A k \in posted :
       \/ k \in ended \/ k \in counted
       \/ k = cur /\ \E c \in CPU : pc[c] \in {"locked", "self"}

(* active_cpus. *)
CountInv ==
  /\ IsFiniteSet(counted)
  /\ ActiveExact

(* Which routine may be where. *)
PhaseInv ==
  /\ pc[0] = "boot" => ~up
  /\ \A c \in CPU :
       /\ op[c] = "smp_init" => c = 0 /\ ~up
       /\ pc[c] = "count" => op[c] = "smp_init"
       /\ pc[c] = "boot" => c = 0
       /\ pc[c] = "drain" => up
       /\ op[c] \in {"on_cpu", "on_cpu_async", "on_cpus"} => up
       /\ pc[c] \in Holding \cup {"lock"} => op[c] # "none"

(* A CPU knows itself by its own identifier or by none. *)
IdInv == \A c \in CPU : smp_id[c] \in {c, N}

(* The inductive invariant of the call protocol.                           *)
IInv == /\ TypeOK /\ LockInv /\ OwnerInv /\ SignalInv /\ HandlerInv
        /\ FreshInv /\ HistoryInv /\ CountInv /\ PhaseInv /\ IdInv
-----------------------------------------------------------------------------
(* Smp implements RemoteCall. *)
Running == [c \in CPU |-> IF hpc[c] = "run" THEN {hf[c]}
                          ELSE IF pc[c] = "self" THEN {cur} ELSE {}]
Returned == {k \in posted : k = cur => \A c \in CPU : pc[c] \notin Holding}

RC == INSTANCE RemoteCall WITH running <- Running, returned <- Returned

(* The library keeps the promise of RemoteCall: every step of Smp is a     *)
(* step of the abstract interface or changes nothing it can see.           *)
ImplementsRemoteCall == RC!Spec
=============================================================================
