-------------------------------- MODULE Smp --------------------------------
(***************************************************************************)
(* Cross-processor calls of the guest library (lib/x86/smp.c): on_cpu,     *)
(* on_cpu_async, on_cpus and smp_init on one side, the interrupt handler   *)
(* ipi() on the other.                                                     *)
(*                                                                         *)
(* A caller owns the one mailbox (ipi_function, ipi_data, ipi_wait,        *)
(* ipi_done) while it holds ipi_lock, posts a call, raises IPI_VECTOR on   *)
(* the destination and spins on ipi_done.  The destination may itself be   *)
(* spinning for ipi_lock; the handler runs on top of that spin, with       *)
(* interrupts disabled (IPI_VECTOR is an interrupt gate).                  *)
(*                                                                         *)
(* Every access to shared memory is a step of its own.  The functions that *)
(* are called are leaf functions: they make no cross-processor calls.      *)
(***************************************************************************)
EXTENDS Naturals, FiniteSets

CONSTANTS N,               \* cpu_count()
          MaxInvocations   \* bound: API calls made after smp_init

ASSUME SmpAssumption == N \in Nat \ {0} /\ MaxInvocations \in Nat

CPU == 0 .. N - 1

VARIABLES
  ipi_lock,      \* the test-and-set word of the spin lock
  ipi_function,  \* mailbox: function, named by the call that supplied it
  ipi_data,      \* mailbox: its argument, named by the call that supplied it
  ipi_wait,      \* mailbox: does the caller wait for completion?
  ipi_done,      \* mailbox: handshake flag
  active_cpus,   \* atomic counter
  smp_id,        \* per CPU: identifier kept in the per-CPU area, N if unset
  pc,            \* per CPU: where the interrupted program stands
  op,            \* per CPU: the library routine being executed
  cpu,           \* per CPU: argument cpu of __on_cpu
  hpc,           \* per CPU: where ipi() stands, "none" outside the handler
  hf, hd, hw,    \* per CPU: locals function, data, wait of ipi()
  irr,           \* per CPU: IPI_VECTOR is requested in the local APIC
  isr,           \* per CPU: IPI_VECTOR is in service in the local APIC
  up,            \* smp_init has returned
  invocations,   \* bound counter
  cur,           \* history: the call of the latest owner of ipi_lock
  posted,        \* history: calls made so far
  started,       \* history: calls whose function was entered
  ended,         \* history: calls whose function returned
  counted        \* history: remote calls now included in active_cpus

mailbox == <<ipi_function, ipi_data, ipi_wait, ipi_done>>
program == <<pc, op, cpu>>
locals  == <<hf, hd, hw>>
apic    == <<irr, isr>>
history == <<cur, posted, started, ended, counted>>
vars == <<ipi_lock, mailbox, active_cpus, smp_id, program, hpc, locals, apic,
          up, invocations, history>>

(* A call is identified by its number, the calling and the called CPU,     *)
(* what its function does (setup_smp_id writes smp_id, others do not) and  *)
(* whether the caller waits for it.                                        *)
Call == [id : Nat, from : CPU, to : CPU, setup : BOOLEAN, sync : BOOLEAN]
NoCall == [id |-> 0, from |-> 0, to |-> 0, setup |-> FALSE, sync |-> FALSE]

Ops == {"none", "smp_init", "on_cpu", "on_cpu_async", "on_cpus"}
Holding == {"locked", "self", "clear", "func", "data", "wait", "icr", "spin",
            "unlock"}
ProgramLabels == {"boot", "ready", "lock", "drain", "count"} \cup Holding
HandlerLabels == {"none", "func", "data", "wait", "done_early", "eoi_early",
                  "call", "run", "dec", "done_late", "eoi_late"}

Waits(o) == o \in {"smp_init", "on_cpu"}

(* The interrupted program makes progress only outside the handler. *)
At(c, label) == pc[c] = label /\ hpc[c] = "none"
Goto(c, label) == pc' = [pc EXCEPT ![c] = label]
HandlerGoto(c, label) == hpc' = [hpc EXCEPT ![c] = label]

Init ==
  /\ ipi_lock = FALSE
  /\ ipi_function = NoCall /\ ipi_data = NoCall
  /\ ipi_wait = FALSE /\ ipi_done = FALSE
  /\ active_cpus = 0
  /\ smp_id = [c \in CPU |-> N]
  /\ pc = [c \in CPU |-> IF c = 0 THEN "boot" ELSE "ready"]
  /\ op = [c \in CPU |-> "none"]
  /\ cpu = [c \in CPU |-> 0]
  /\ hpc = [c \in CPU |-> "none"]
  /\ hf = [c \in CPU |-> NoCall] /\ hd = [c \in CPU |-> NoCall]
  /\ hw = [c \in CPU |-> FALSE]
  /\ irr = [c \in CPU |-> FALSE] /\ isr = [c \in CPU |-> FALSE]
  /\ up = FALSE
  /\ invocations = 0
  /\ cur = NoCall
  /\ posted = {} /\ started = {} /\ ended = {} /\ counted = {}
-----------------------------------------------------------------------------
(* The effect of a called function on the state modelled here. *)
SetupSmpId(c, k) == smp_id' = IF k.setup THEN [smp_id EXCEPT ![c] = c]
                                         ELSE smp_id

(* smp_init on the boot CPU: its own id, then on_cpu(i, setup_smp_id) for  *)
(* every other CPU, then one atomic_inc that counts the boot CPU itself.   *)
SmpInit ==
  /\ At(0, "boot")
  /\ smp_id' = [smp_id EXCEPT ![0] = 0]
  /\ op' = [op EXCEPT ![0] = "smp_init"]
  /\ IF N > 1 THEN cpu' = [cpu EXCEPT ![0] = 1] /\ Goto(0, "lock")
              ELSE cpu' = cpu /\ Goto(0, "count")
  /\ UNCHANGED <<ipi_lock, mailbox, active_cpus, hpc, locals, apic, up,
                 invocations, history>>

SmpInitCount ==
  /\ At(0, "count")
  /\ active_cpus' = active_cpus + 1
  /\ up' = TRUE
  /\ op' = [op EXCEPT ![0] = "none"]
  /\ Goto(0, "ready")
  /\ UNCHANGED <<ipi_lock, mailbox, smp_id, cpu, hpc, locals, apic,
                 invocations, history>>

(* on_cpu, on_cpu_async and on_cpus are entered by any CPU once smp_init   *)
(* is done; on_cpus starts its loop at cpu_count() - 1.                    *)
Invoke(c, o, target) ==
  /\ At(c, "ready") /\ up
  /\ invocations < MaxInvocations
  /\ invocations' = invocations + 1
  /\ op' = [op EXCEPT ![c] = o]
  /\ cpu' = [cpu EXCEPT ![c] = target]
  /\ Goto(c, "lock")
  /\ UNCHANGED <<ipi_lock, mailbox, active_cpus, smp_id, hpc, locals, apic,
                 up, history>>

OnCpu(c) == \E d \in CPU : Invoke(c, "on_cpu", d)
OnCpuAsync(c) == \E d \in CPU : Invoke(c, "on_cpu_async", d)
OnCpus(c) == Invoke(c, "on_cpus", N - 1)
-----------------------------------------------------------------------------
(* __on_cpu. *)
SpinLock(c) ==
  /\ At(c, "lock")
  /\ ~ipi_lock
  /\ ipi_lock' = TRUE
  /\ cur' = [id |-> cur.id + 1, from |-> c, to |-> cpu[c],
             setup |-> op[c] = "smp_init", sync |-> Waits(op[c])]
  /\ posted' = posted \cup {cur'}
  /\ Goto(c, "locked")
  /\ UNCHANGED <<mailbox, active_cpus, smp_id, op, cpu, hpc, locals, apic, up,
                 invocations, started, ended, counted>>

CallSelf(c) ==
  /\ At(c, "locked")
  /\ cpu[c] = smp_id[c]
  /\ started' = started \cup {cur}
  /\ Goto(c, "self")
  /\ UNCHANGED <<ipi_lock, mailbox, active_cpus, smp_id, op, cpu, hpc, locals,
                 apic, up, invocations, cur, posted, ended, counted>>

SelfReturns(c) ==
  /\ At(c, "self")
  /\ SetupSmpId(c, cur)
  /\ ended' = ended \cup {cur}
  /\ Goto(c, "unlock")
  /\ UNCHANGED <<ipi_lock, mailbox, active_cpus, op, cpu, hpc, locals, apic,
                 up, invocations, cur, posted, started, counted>>

(* Mutant: the call is posted without being counted. *)
IncActiveMissing(c) ==
  /\ At(c, "locked")
  /\ cpu[c] # smp_id[c]
  /\ counted' = counted \cup {cur}
  /\ Goto(c, "clear")
  /\ UNCHANGED <<ipi_lock, mailbox, active_cpus, smp_id, op, cpu, hpc, locals,
                 apic, up, invocations, cur, posted, started, ended>>

IncActive(c) ==
  /\ At(c, "locked")
  /\ cpu[c] # smp_id[c]
  /\ active_cpus' = active_cpus + 1
  /\ counted' = counted \cup {cur}
  /\ Goto(c, "clear")
  /\ UNCHANGED <<ipi_lock, mailbox, smp_id, op, cpu, hpc, locals, apic, up,
                 invocations, cur, posted, started, ended>>

ClearDone(c) ==
  /\ At(c, "clear")
  /\ ipi_done' = FALSE
  /\ Goto(c, "func")
  /\ UNCHANGED <<ipi_lock, ipi_function, ipi_data, ipi_wait, active_cpus,
                 smp_id, op, cpu, hpc, locals, apic, up, invocations, history>>

SetFunction(c) ==
  /\ At(c, "func")
  /\ ipi_function' = cur
  /\ Goto(c, "data")
  /\ UNCHANGED <<ipi_lock, ipi_data, ipi_wait, ipi_done, active_cpus, smp_id,
                 op, cpu, hpc, locals, apic, up, invocations, history>>

SetData(c) ==
  /\ At(c, "data")
  /\ ipi_data' = cur
  /\ Goto(c, "wait")
  /\ UNCHANGED <<ipi_lock, ipi_function, ipi_wait, ipi_done, active_cpus,
                 smp_id, op, cpu, hpc, locals, apic, up, invocations, history>>

SetWait(c) ==
  /\ At(c, "wait")
  /\ ipi_wait' = Waits(op[c])
  /\ Goto(c, "icr")
  /\ UNCHANGED <<ipi_lock, ipi_function, ipi_data, ipi_done, active_cpus,
                 smp_id, op, cpu, hpc, locals, apic, up, invocations, history>>

(* Mutant: the request goes to every CPU. *)
WriteIcrAll(c) ==
  /\ At(c, "icr")
  /\ irr' = [d \in CPU |-> TRUE]
  /\ Goto(c, "spin")
  /\ UNCHANGED <<ipi_lock, mailbox, active_cpus, smp_id, op, cpu, hpc, locals,
                 isr, up, invocations, history>>

(* The request register has one bit per vector: a request that finds the   *)
(* bit set is lost.                                                        *)
WriteIcr(c) ==
  /\ At(c, "icr")
  /\ irr' = [irr EXCEPT ![cpu[c]] = TRUE]
  /\ Goto(c, "spin")
  /\ UNCHANGED <<ipi_lock, mailbox, active_cpus, smp_id, op, cpu, hpc, locals,
                 isr, up, invocations, history>>

(* Mutant: an asynchronous caller does not wait for the acknowledgement. *)
SeeDoneSyncOnly(c) ==
  /\ At(c, "spin")
  /\ Waits(op[c]) => ipi_done
  /\ Goto(c, "unlock")
  /\ UNCHANGED <<ipi_lock, mailbox, active_cpus, smp_id, op, cpu, hpc, locals,
                 apic, up, invocations, history>>

SeeDone(c) ==
  /\ At(c, "spin")
  /\ ipi_done
  /\ Goto(c, "unlock")
  /\ UNCHANGED <<ipi_lock, mailbox, active_cpus, smp_id, op, cpu, hpc, locals,
                 apic, up, invocations, history>>

(* spin_unlock, and what the calling routine does next: on_cpu and         *)
(* on_cpu_async return, the loops of on_cpus and smp_init go on.           *)
Unlock(c) ==
  /\ At(c, "unlock")
  /\ ipi_lock' = FALSE
  /\ \/ /\ op[c] \in {"on_cpu", "on_cpu_async"}
        /\ Goto(c, "ready")
        /\ op' = [op EXCEPT ![c] = "none"]
        /\ UNCHANGED cpu
     \/ /\ op[c] = "on_cpus"
        /\ IF cpu[c] > 0
             THEN cpu' = [cpu EXCEPT ![c] = @ - 1] /\ Goto(c, "lock")
             ELSE cpu' = cpu /\ Goto(c, "drain")
        /\ UNCHANGED op
     \/ /\ op[c] = "smp_init"
        /\ IF cpu[c] + 1 < N
             THEN cpu' = [cpu EXCEPT ![c] = @ + 1] /\ Goto(c, "lock")
             ELSE cpu' = cpu /\ Goto(c, "count")
        /\ UNCHANGED op
  /\ UNCHANGED <<mailbox, active_cpus, smp_id, hpc, locals, apic, up,
                 invocations, history>>

(* Mutants: the limit of the loop is off by one, either way. *)
DrainedUpTo(c, limit) ==
  /\ At(c, "drain")
  /\ active_cpus <= limit
  /\ op' = [op EXCEPT ![c] = "none"]
  /\ Goto(c, "ready")
  /\ UNCHANGED <<ipi_lock, mailbox, active_cpus, smp_id, cpu, hpc, locals,
                 apic, up, invocations, history>>
DrainedEarly(c) == DrainedUpTo(c, 2)
DrainedNever(c) == DrainedUpTo(c, 0)

(* on_cpus: the loop "while (cpus_active() > 1) pause()" exits. *)
Drained(c) ==
  /\ At(c, "drain")
  /\ active_cpus <= 1
  /\ op' = [op EXCEPT ![c] = "none"]
  /\ Goto(c, "ready")
  /\ UNCHANGED <<ipi_lock, mailbox, active_cpus, smp_id, cpu, hpc, locals,
                 apic, up, invocations, history>>
-----------------------------------------------------------------------------
(* ipi(), entered through the interrupt gate of IPI_VECTOR. *)
TakeIpi(c) ==
  /\ irr[c] /\ ~isr[c] /\ hpc[c] = "none"
  /\ irr' = [irr EXCEPT ![c] = FALSE]
  /\ isr' = [isr EXCEPT ![c] = TRUE]
  /\ HandlerGoto(c, "func")
  /\ UNCHANGED <<ipi_lock, mailbox, active_cpus, smp_id, program, locals, up,
                 invocations, history>>

(* Mutant: the mailbox is acknowledged before all of it has been read. *)
ReadFunctionAcks(c) ==
  /\ hpc[c] = "func"
  /\ hf' = [hf EXCEPT ![c] = ipi_function]
  /\ ipi_done' = TRUE
  /\ HandlerGoto(c, "data")
  /\ UNCHANGED <<ipi_lock, ipi_function, ipi_data, ipi_wait, active_cpus,
                 smp_id, program, hd, hw, apic, up, invocations, history>>

ReadFunction(c) ==
  /\ hpc[c] = "func"
  /\ hf' = [hf EXCEPT ![c] = ipi_function]
  /\ HandlerGoto(c, "data")
  /\ UNCHANGED <<ipi_lock, mailbox, active_cpus, smp_id, program, hd, hw, apic,
                 up, invocations, history>>

ReadData(c) ==
  /\ hpc[c] = "data"
  /\ hd' = [hd EXCEPT ![c] = ipi_data]
  /\ HandlerGoto(c, "wait")
  /\ UNCHANGED <<ipi_lock, mailbox, active_cpus, smp_id, program, hf, hw, apic,
                 up, invocations, history>>

(* Mutant: the wait mode is ignored. *)
ReadWaitIgnored(c) ==
  /\ hpc[c] = "wait"
  /\ hw' = [hw EXCEPT ![c] = ipi_wait]
  /\ HandlerGoto(c, "done_early")
  /\ UNCHANGED <<ipi_lock, mailbox, active_cpus, smp_id, program, hf, hd, apic,
                 up, invocations, history>>

ReadWait(c) ==
  /\ hpc[c] = "wait"
  /\ hw' = [hw EXCEPT ![c] = ipi_wait]
  /\ HandlerGoto(c, IF ipi_wait THEN "call" ELSE "done_early")
  /\ UNCHANGED <<ipi_lock, mailbox, active_cpus, smp_id, program, hf, hd, apic,
                 up, invocations, history>>

DoneEarly(c) ==
  /\ hpc[c] = "done_early"
  /\ ipi_done' = TRUE
  /\ HandlerGoto(c, "eoi_early")
  /\ UNCHANGED <<ipi_lock, ipi_function, ipi_data, ipi_wait, active_cpus,
                 smp_id, program, locals, apic, up, invocations, history>>

EoiEarly(c) ==
  /\ hpc[c] = "eoi_early"
  /\ isr' = [isr EXCEPT ![c] = FALSE]
  /\ HandlerGoto(c, "call")
  /\ UNCHANGED <<ipi_lock, mailbox, active_cpus, smp_id, program, locals, irr,
                 up, invocations, history>>

CallFunction(c) ==
  /\ hpc[c] = "call"
  /\ started' = started \cup {hf[c]}
  /\ HandlerGoto(c, "run")
  /\ UNCHANGED <<ipi_lock, mailbox, active_cpus, smp_id, program, locals, apic,
                 up, invocations, cur, posted, ended, counted>>

FunctionReturns(c) ==
  /\ hpc[c] = "run"
  /\ SetupSmpId(c, hf[c])
  /\ ended' = ended \cup {hf[c]}
  /\ HandlerGoto(c, "dec")
  /\ UNCHANGED <<ipi_lock, mailbox, active_cpus, program, locals, apic, up,
                 invocations, cur, posted, started, counted>>

(* Mutant: only calls with a waiter are uncounted. *)
DecActiveSyncOnly(c) ==
  /\ hpc[c] = "dec"
  /\ active_cpus' = IF hw[c] THEN active_cpus - 1 ELSE active_cpus
  /\ counted' = counted \ {hf[c]}
  /\ HandlerGoto(c, IF hw[c] THEN "done_late" ELSE "none")
  /\ UNCHANGED <<ipi_lock, mailbox, smp_id, program, locals, apic, up,
                 invocations, cur, posted, started, ended>>

(* atomic_dec; without a waiter the handler then returns (iretq). *)
DecActive(c) ==
  /\ hpc[c] = "dec"
  /\ active_cpus' = active_cpus - 1
  /\ counted' = counted \ {hf[c]}
  /\ HandlerGoto(c, IF hw[c] THEN "done_late" ELSE "none")
  /\ UNCHANGED <<ipi_lock, mailbox, smp_id, program, locals, apic, up,
                 invocations, cur, posted, started, ended>>

DoneLate(c) ==
  /\ hpc[c] = "done_late"
  /\ ipi_done' = TRUE
  /\ HandlerGoto(c, "eoi_late")
  /\ UNCHANGED <<ipi_lock, ipi_function, ipi_data, ipi_wait, active_cpus,
                 smp_id, program, locals, apic, up, invocations, history>>

EoiLate(c) ==
  /\ hpc[c] = "eoi_late"
  /\ isr' = [isr EXCEPT ![c] = FALSE]
  /\ HandlerGoto(c, "none")
  /\ UNCHANGED <<ipi_lock, mailbox, active_cpus, smp_id, program, locals, irr,
                 up, invocations, history>>
-----------------------------------------------------------------------------
ProgramStep(c) ==
  \/ SpinLock(c) \/ CallSelf(c) \/ SelfReturns(c) \/ IncActive(c)
  \/ ClearDone(c) \/ SetFunction(c) \/ SetData(c) \/ SetWait(c)
  \/ WriteIcr(c) \/ SeeDone(c) \/ Unlock(c) \/ Drained(c)

HandlerStep(c) ==
  \/ TakeIpi(c) \/ ReadFunction(c) \/ ReadData(c) \/ ReadWait(c)
  \/ DoneEarly(c) \/ EoiEarly(c) \/ CallFunction(c) \/ FunctionReturns(c)
  \/ DecActive(c) \/ DoneLate(c) \/ EoiLate(c)

(* A CPU with nothing to do executes hlt. *)
Halted ==
  /\ \E c \in CPU : At(c, "ready") /\ ~irr[c]
  /\ UNCHANGED vars

Next ==
  \/ SmpInit \/ SmpInitCount \/ Halted
  \/ \E c \in CPU : OnCpu(c) \/ OnCpuAsync(c) \/ OnCpus(c)
  \/ \E c \in CPU : ProgramStep(c) \/ HandlerStep(c)

Spec == Init /\ [][Next]_vars

(* Each CPU keeps executing; pending interrupts are delivered.  Nothing is *)
(* assumed of spin_lock beyond weak fairness, and nobody is made to call.  *)
Fairness ==
  /\ WF_vars(SmpInit) /\ WF_vars(SmpInitCount)
  /\ \A c \in CPU : WF_vars(ProgramStep(c)) /\ WF_vars(HandlerStep(c))

FairSpec == Spec /\ Fairness
-----------------------------------------------------------------------------
(* The variables keep their types; active_cpus never drops below zero.     *)
TypeOK ==
  /\ ipi_lock \in BOOLEAN
  /\ ipi_function \in Call /\ ipi_data \in Call
  /\ ipi_wait \in BOOLEAN /\ ipi_done \in BOOLEAN
  /\ active_cpus \in Nat
  /\ smp_id \in [CPU -> CPU \cup {N}]
  /\ pc \in [CPU -> ProgramLabels]
  /\ op \in [CPU -> Ops]
  /\ cpu \in [CPU -> CPU]
  /\ hpc \in [CPU -> HandlerLabels]
  /\ hf \in [CPU -> Call] /\ hd \in [CPU -> Call] /\ hw \in [CPU -> BOOLEAN]
  /\ irr \in [CPU -> BOOLEAN] /\ isr \in [CPU -> BOOLEAN]
  /\ up \in BOOLEAN
  /\ invocations \in 0 .. MaxInvocations
  /\ cur \in Call
  /\ posted \subseteq Call /\ started \subseteq Call /\ ended \subseteq Call
  /\ counted \subseteq Call

(* The function that runs, its argument and the wait flag were all posted  *)
(* by one and the same call, made to this CPU: no handler ever combines    *)
(* mailbox fields of two calls.                                            *)
MailboxIntegrity ==
  \A c \in CPU : hpc[c] \in {"call", "run", "dec"} =>
    /\ hf[c] \in posted /\ hf[c].to = c
    /\ hd[c] = hf[c] /\ hw[c] = hf[c].sync

(* No request is merged with one still pending: when a caller writes the   *)
(* ICR, the request bit of the destination is clear.                       *)
NoLostIpi == \A c \in CPU : pc[c] = "icr" => ~irr[cpu[c]]

(* A synchronous call (on_cpu, smp_init) releases ipi_lock and returns     *)
(* only after its function has returned.                                   *)
SyncCompletes ==
  \A c \in CPU : pc[c] = "unlock" /\ Waits(op[c]) => cur \in ended

(* A function is entered at most once per call.                            *)
AtMostOnce ==
  \A c \in CPU : /\ hpc[c] = "call" => hf[c] \notin started
                 /\ pc[c] = "locked" => cur \notin started

(* Functions never nest on one CPU: no handler runs on top of a function   *)
(* that the same CPU executes for itself under ipi_lock.                   *)
NoNesting == \A c \in CPU : pc[c] = "self" => hpc[c] = "none"

(* active_cpus counts the boot CPU (once smp_init is done) and every       *)
(* remote call whose handler has not yet accounted for it.                 *)
ActiveExact ==
  active_cpus = Cardinality(counted) + (IF up THEN 1 ELSE 0)

(* When on_cpus returns, every function it posted has returned, on every   *)
(* CPU.                                                                    *)
OnCpusCompletes ==
  [][\A c \in CPU : pc[c] = "drain" /\ pc'[c] = "ready" =>
       \A k \in posted : k.from = c => k \in ended]_vars

(* Every on_cpu, on_cpu_async and on_cpus returns, when finitely many      *)
(* calls compete for ipi_lock.                                             *)
CallsReturn == \A c \in CPU : pc[c] = "lock" ~> pc[c] = "ready"
=============================================================================
