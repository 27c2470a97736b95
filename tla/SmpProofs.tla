----------------------------- MODULE SmpProofs -----------------------------
(***************************************************************************)
(* Proofs about Smp for every number of CPUs and every number of calls:    *)
(* what the steps preserve (types, ownership of ipi_lock, the handshake),  *)
(* that IInv of SmpInv is inductive and implies the safety properties, and *)
(* that Smp implements RemoteCall.                                         *)
(***************************************************************************)
EXTENDS SmpInv, FiniteSetTheorems, TLAPS

(* CPU 0 and CPU N - 1 exist: smp_init runs on the former, the loop of     *)
(* on_cpus starts at the latter.                                           *)
LEMMA LastCPU == 0 \in CPU /\ N - 1 \in CPU /\ N \notin CPU
  BY SmpAssumption DEF CPU

(* What the program steps, and what the handler steps, leave alone. *)
LEMMA ProgramFrame ==
  ASSUME NEW c \in CPU, ProgramStep(c)
  PROVE  UNCHANGED <<hpc, locals, isr, up, invocations>>
  BY DEF ProgramStep, SpinLock, CallSelf, SelfReturns, IncActive, ClearDone,
     SetFunction, SetData, SetWait, WriteIcr, SeeDone, Unlock, Drained, apic

LEMMA HandlerFrame ==
  ASSUME NEW c \in CPU, HandlerStep(c)
  PROVE  UNCHANGED <<ipi_lock, ipi_function, ipi_data, ipi_wait, program, up,
                     invocations, cur, posted>>
  BY DEF HandlerStep, TakeIpi, ReadFunction, ReadData, ReadWait, DoneEarly,
     EoiEarly, CallFunction, FunctionReturns, DecActive, DoneLate, EoiLate,
     mailbox, history

(* The call made by a CPU that takes ipi_lock is well formed and its       *)
(* number is larger than those of all earlier calls.                       *)
LEMMA NewCall ==
  ASSUME IInv, NEW c \in CPU, SpinLock(c)
  PROVE  cur' \in Call /\ cur'.id = cur.id + 1 /\ cur' \notin posted
<1>1. cur' \in Call /\ cur'.id = cur.id + 1 /\ cur.id \in Nat
  BY DEF SpinLock, IInv, TypeOK, Call, Waits
<1>2. QED
  BY <1>1 DEF IInv, HistoryInv

(* A called function leaves smp_id a map from CPUs to identifiers. *)
LEMMA SetupType ==
  ASSUME IInv, NEW c \in CPU, NEW k, SetupSmpId(c, k)
  PROVE  smp_id' \in [CPU -> CPU \cup {N}]
  BY DEF IInv, TypeOK, SetupSmpId

(* Where a CPU goes on after spin_unlock. *)
LEMMA UnlockGoes ==
  ASSUME IInv, NEW c \in CPU, Unlock(c)
  PROVE  /\ op' \in [CPU -> Ops] /\ cpu' \in [CPU -> CPU]
         /\ \E l \in {"ready", "lock", "drain", "count"} :
              pc' = [pc EXCEPT ![c] = l]
<1> TypeOK /\ cpu[c] \in CPU
  BY DEF IInv, TypeOK
<1>1. CASE op[c] \in {"on_cpu", "on_cpu_async"}
  BY <1>1 DEF TypeOK, Unlock, Goto, Ops
<1>2. CASE op[c] = "on_cpus"
  <2>1. cpu[c] > 0 => cpu[c] - 1 \in CPU
    BY SmpAssumption DEF CPU
  <2>2. QED
    BY <1>2, <2>1 DEF TypeOK, Unlock, Goto
<1>3. CASE op[c] = "smp_init"
  <2>1. cpu[c] + 1 < N => cpu[c] + 1 \in CPU
    BY SmpAssumption DEF CPU
  <2>2. QED
    BY <1>3, <2>1 DEF TypeOK, Unlock, Goto
<1>4. QED
  BY <1>1, <1>2, <1>3 DEF Unlock

(* atomic_dec finds its own call in the count, so it stays non-negative. *)
LEMMA DecCounts ==
  ASSUME IInv, NEW c \in CPU, hpc[c] = "dec"
  PROVE  /\ active_cpus \in Nat \ {0}
         /\ IsFiniteSet(counted \ {hf[c]})
         /\ Cardinality(counted) \in Nat
         /\ Cardinality(counted \ {hf[c]}) = Cardinality(counted) - 1
<1>1. hf[c] \in counted /\ IsFiniteSet(counted)
  BY DEF IInv, HandlerInv, Copied, CountInv, Late
<1>2. /\ IsFiniteSet(counted \ {hf[c]})
      /\ Cardinality(counted \ {hf[c]}) = Cardinality(counted) - 1
  BY <1>1, FS_RemoveElement
<1>3. Cardinality(counted) \in Nat /\ Cardinality(counted \ {hf[c]}) \in Nat
  BY <1>1, <1>2, FS_CardinalityType
<1>4. QED
  BY <1>2, <1>3 DEF IInv, CountInv, ActiveExact
-----------------------------------------------------------------------------
(* One lemma per conjunct of IInv: every step preserves it. *)
LEMMA TypeStep == IInv /\ [Next]_vars => TypeOK'
<1> SUFFICES ASSUME IInv, [Next]_vars PROVE TypeOK'
  OBVIOUS
<1>1. CASE SmpInit
  <2>1. N > 1 => 1 \in CPU
    BY SmpAssumption DEF CPU
  <2>2. smp_id' \in [CPU -> CPU \cup {N}] /\ cpu' \in [CPU -> CPU]
    BY <1>1, <2>1, LastCPU DEF SmpInit, IInv, TypeOK
  <2>3. QED
    BY <1>1, <2>2, LastCPU DEF SmpInit, Goto, mailbox, locals, apic, history,
       IInv, TypeOK, Ops, ProgramLabels
<1>2. CASE SmpInitCount
  BY <1>2, LastCPU DEF SmpInitCount, Goto, mailbox, locals, apic, history,
     IInv, TypeOK, Ops, ProgramLabels
<1>3. ASSUME NEW c \in CPU, NEW d \in CPU,
             NEW o \in {"on_cpu", "on_cpu_async", "on_cpus"}, Invoke(c, o, d)
      PROVE TypeOK'
  BY <1>3, SmpAssumption DEF Invoke, Goto, mailbox, locals, apic, history,
     IInv, TypeOK, Ops, ProgramLabels
<1>4. ASSUME NEW c \in CPU, ProgramStep(c) PROVE TypeOK'
  <2>1. CASE SpinLock(c)
    BY <2>1, NewCall DEF SpinLock, Goto, mailbox, locals, apic, IInv, TypeOK,
       Holding, ProgramLabels
  <2>2. CASE CallSelf(c) \/ SelfReturns(c)
    BY <2>2, SetupType DEF CallSelf, SelfReturns, Goto, mailbox, locals,
       apic, IInv, TypeOK, Holding, ProgramLabels
  <2>3. CASE IncActive(c)
    BY <2>3 DEF IncActive, Goto, mailbox, locals, apic, IInv, TypeOK,
       Holding, ProgramLabels
  <2>4. CASE ClearDone(c) \/ SetFunction(c) \/ SetData(c) \/ SetWait(c)
    <3>1. Waits(op[c]) \in BOOLEAN
      BY DEF Waits
    <3>2. QED
      BY <2>4, <3>1 DEF ClearDone, SetFunction, SetData, SetWait, Goto,
         locals, apic, history, IInv, TypeOK, Ops, Holding, ProgramLabels
  <2>5. CASE WriteIcr(c)
    BY <2>5 DEF WriteIcr, Goto, mailbox, locals, history, IInv, TypeOK,
       Holding, ProgramLabels
  <2>6. CASE SeeDone(c) \/ Drained(c)
    BY <2>6 DEF SeeDone, Drained, Goto, mailbox, locals, apic, history, IInv,
       TypeOK, Ops, Holding, ProgramLabels
  <2>7. CASE Unlock(c)
    <3>1. PICK l \in {"ready", "lock", "drain", "count"} :
            pc' = [pc EXCEPT ![c] = l]
      BY <2>7, UnlockGoes
    <3>2. QED
      BY <2>7, <3>1, UnlockGoes DEF Unlock, mailbox, locals, apic, history,
         IInv, TypeOK, ProgramLabels
  <2>8. QED
    BY <1>4, <2>1, <2>2, <2>3, <2>4, <2>5, <2>6, <2>7 DEF ProgramStep
<1>5. ASSUME NEW c \in CPU, HandlerStep(c) PROVE TypeOK'
  <2>1. CASE TakeIpi(c)
    BY <2>1 DEF TakeIpi, HandlerGoto, mailbox, program, locals, history,
       IInv, TypeOK, HandlerLabels
  <2>2. CASE ReadFunction(c)
    BY <2>2 DEF ReadFunction, HandlerGoto, mailbox, program, apic, history,
       IInv, TypeOK, HandlerLabels
  <2>3. CASE ReadData(c)
    BY <2>3 DEF ReadData, HandlerGoto, mailbox, program, apic, history, IInv,
       TypeOK, HandlerLabels
  <2>4. CASE ReadWait(c)
    BY <2>4 DEF ReadWait, HandlerGoto, mailbox, program, apic, history, IInv,
       TypeOK, HandlerLabels
  <2>5. CASE DoneEarly(c)
    BY <2>5 DEF DoneEarly, HandlerGoto, program, locals, apic, history, IInv,
       TypeOK, HandlerLabels
  <2>6. CASE DoneLate(c)
    BY <2>6 DEF DoneLate, HandlerGoto, program, locals, apic, history, IInv,
       TypeOK, HandlerLabels
  <2>7. CASE EoiEarly(c)
    BY <2>7 DEF EoiEarly, HandlerGoto, mailbox, program, locals, history,
       IInv, TypeOK, HandlerLabels
  <2>8. CASE EoiLate(c)
    BY <2>8 DEF EoiLate, HandlerGoto, mailbox, program, locals, history,
       IInv, TypeOK, HandlerLabels
  <2>9. CASE CallFunction(c) \/ FunctionReturns(c)
    BY <2>9, SetupType DEF CallFunction, FunctionReturns, HandlerGoto,
       mailbox, program, locals, apic, IInv, TypeOK, HandlerLabels
  <2>10. CASE DecActive(c)
    <3>1. active_cpus' \in Nat
      BY <2>10, DecCounts DEF DecActive
    <3>2. QED
      BY <2>10, <3>1 DEF DecActive, HandlerGoto, mailbox, program, locals,
         apic, IInv, TypeOK, HandlerLabels
  <2>11. QED
    BY <1>5, <2>1, <2>2, <2>3, <2>4, <2>5, <2>6, <2>7, <2>8, <2>9, <2>10 DEF
       HandlerStep
<1>6. CASE UNCHANGED vars
  BY <1>6 DEF vars, mailbox, program, locals, apic, history, IInv, TypeOK
<1>7. QED
  BY <1>1, <1>2, <1>3, <1>4, <1>5, <1>6, LastCPU
     DEF Next, Halted, OnCpu, OnCpuAsync, OnCpus

LEMMA LockStep == IInv /\ [Next]_vars => LockInv'
<1> SUFFICES ASSUME IInv, [Next]_vars PROVE LockInv'
  OBVIOUS
<1>0. LockInv /\ pc \in [CPU -> ProgramLabels]
  BY DEF IInv, TypeOK
<1>1. CASE SmpInit
  BY <1>0, <1>1 DEF SmpInit, Goto, LockInv, Holding
<1>2. CASE SmpInitCount
  BY <1>0, <1>2 DEF SmpInitCount, Goto, LockInv, Holding
<1>3. ASSUME NEW c \in CPU, NEW d \in CPU,
             NEW o \in {"on_cpu", "on_cpu_async", "on_cpus"}, Invoke(c, o, d)
      PROVE LockInv'
  BY <1>0, <1>3 DEF Invoke, Goto, LockInv, Holding
<1>4. ASSUME NEW c \in CPU, ProgramStep(c) PROVE LockInv'
  <2>1. CASE SpinLock(c)
    BY <1>0, <2>1 DEF SpinLock, Goto, LockInv
  <2>2. CASE CallSelf(c) \/ SelfReturns(c)
    BY <1>0, <2>2 DEF CallSelf, SelfReturns, At, Goto, LockInv,
       Holding
  <2>3. CASE IncActive(c)
    BY <1>0, <2>3 DEF IncActive, At, Goto, LockInv, Holding
  <2>4. CASE ClearDone(c) \/ SetFunction(c)
    BY <1>0, <2>4 DEF ClearDone, SetFunction, At, Goto, LockInv,
       Holding
  <2>5. CASE SetData(c) \/ SetWait(c)
    BY <1>0, <2>5 DEF SetData, SetWait, At, Goto, LockInv, Holding
  <2>6. CASE WriteIcr(c) \/ SeeDone(c)
    BY <1>0, <2>6 DEF WriteIcr, SeeDone, At, Goto, LockInv, Holding
  <2>7. CASE Drained(c)
    BY <1>0, <2>7 DEF Drained, Goto, LockInv, Holding
  <2>8. CASE Unlock(c)
    <3>1. \E l \in {"ready", "lock", "drain", "count"} :
             pc' = [pc EXCEPT ![c] = l]
      BY <2>8, UnlockGoes
    <3>2. \A d \in CPU : pc'[d] \notin Holding
      BY <1>0, <2>8, <3>1 DEF Unlock, At, LockInv, Holding
    <3>3. QED
      BY <3>2 DEF LockInv
  <2>9. QED
    BY <1>4, <2>1, <2>2, <2>3, <2>4, <2>5, <2>6, <2>7, <2>8 DEF ProgramStep
<1>5. ASSUME NEW c \in CPU, HandlerStep(c) PROVE LockInv'
  BY <1>0, <1>5, HandlerFrame DEF program, LockInv
<1>6. CASE UNCHANGED vars
  BY <1>0, <1>6 DEF vars, program, LockInv
<1>7. QED
  BY <1>1, <1>2, <1>3, <1>4, <1>5, <1>6, LastCPU
     DEF Next, Halted, OnCpu, OnCpuAsync, OnCpus

LEMMA PhaseStep == IInv /\ [Next]_vars => PhaseInv'
<1> SUFFICES ASSUME IInv, [Next]_vars PROVE PhaseInv'
  OBVIOUS
<1>0. /\ PhaseInv /\ pc \in [CPU -> ProgramLabels] /\ op \in [CPU -> Ops]
      /\ up \in BOOLEAN
  BY DEF IInv, TypeOK
<1>1. CASE SmpInit
  BY <1>0, <1>1 DEF SmpInit, At, Goto, PhaseInv
<1>2. CASE SmpInitCount
  BY <1>0, <1>2 DEF SmpInitCount, At, Goto, PhaseInv, Holding
<1>3. ASSUME NEW c \in CPU, NEW d \in CPU,
             NEW o \in {"on_cpu", "on_cpu_async", "on_cpus"}, Invoke(c, o, d)
      PROVE PhaseInv'
  BY <1>0, <1>3 DEF Invoke, Goto, PhaseInv
<1>4. ASSUME NEW c \in CPU, ProgramStep(c) PROVE PhaseInv'
  <2>1. CASE SpinLock(c)
    BY <1>0, <2>1 DEF SpinLock, At, Goto, PhaseInv
  <2>2. CASE CallSelf(c)
    BY <1>0, <2>2 DEF CallSelf, At, Goto, PhaseInv, Holding
  <2>3. CASE SelfReturns(c)
    BY <1>0, <2>3 DEF SelfReturns, At, Goto, PhaseInv, Holding
  <2>4. CASE IncActive(c)
    BY <1>0, <2>4 DEF IncActive, At, Goto, PhaseInv, Holding
  <2>5. CASE ClearDone(c)
    BY <1>0, <2>5 DEF ClearDone, At, Goto, PhaseInv, Holding
  <2>6. CASE SetFunction(c)
    BY <1>0, <2>6 DEF SetFunction, At, Goto, PhaseInv, Holding
  <2>7. CASE SetData(c)
    BY <1>0, <2>7 DEF SetData, At, Goto, PhaseInv, Holding
  <2>8. CASE SetWait(c)
    BY <1>0, <2>8 DEF SetWait, At, Goto, PhaseInv, Holding
  <2>9. CASE WriteIcr(c)
    BY <1>0, <2>9 DEF WriteIcr, At, Goto, PhaseInv, Holding
  <2>10. CASE SeeDone(c)
    BY <1>0, <2>10 DEF SeeDone, At, Goto, PhaseInv, Holding
  <2>11. CASE Drained(c)
    BY <1>0, <2>11 DEF Drained, Goto, PhaseInv, Holding
  <2>12. CASE Unlock(c)
    <3>1. UNCHANGED up /\ op[c] # "none"
      BY <1>0, <2>12 DEF Unlock, At, PhaseInv, Holding
    <3>2. CASE op[c] \in {"on_cpu", "on_cpu_async"}
      <4>1. op' = [op EXCEPT ![c] = "none"] /\ pc' = [pc EXCEPT ![c] = "ready"]
        BY <2>12, <3>2 DEF Unlock, Goto
      <4>2. QED
        BY <1>0, <3>1, <3>2, <4>1 DEF PhaseInv, Holding
    <3>3. CASE op[c] = "on_cpus"
      <4>1. op' = op /\ \E l \in {"lock", "drain"} : pc' = [pc EXCEPT ![c] = l]
        BY <2>12, <3>3 DEF Unlock, Goto
      <4>2. QED
        BY <1>0, <3>1, <3>3, <4>1 DEF PhaseInv, Holding
    <3>4. CASE op[c] = "smp_init"
      <4>1. op' = op /\ \E l \in {"lock", "count"} : pc' = [pc EXCEPT ![c] = l]
        BY <2>12, <3>4 DEF Unlock, Goto
      <4>2. QED
        BY <1>0, <3>1, <3>4, <4>1 DEF PhaseInv, Holding
    <3>5. QED
      BY <2>12, <3>2, <3>3, <3>4 DEF Unlock
  <2>13. QED
    BY <1>4, <2>1, <2>2, <2>3, <2>4, <2>5, <2>6, <2>7, <2>8, <2>9, <2>10,
       <2>11, <2>12 DEF ProgramStep
<1>5. ASSUME NEW c \in CPU, HandlerStep(c) PROVE PhaseInv'
  BY <1>0, <1>5, HandlerFrame DEF program, PhaseInv, Holding
<1>6. CASE UNCHANGED vars
  BY <1>0, <1>6 DEF vars, program, PhaseInv
<1>7. QED
  BY <1>1, <1>2, <1>3, <1>4, <1>5, <1>6, LastCPU
     DEF Next, Halted, OnCpu, OnCpuAsync, OnCpus

(* A step that leaves the call and the mailbox alone keeps what the owner  *)
(* knows, unless it starts a handler under the owner's feet.               *)
LEMMA OwnerFrame ==
  ASSUME OwnerInv,
         \A d \in CPU : pc'[d] \in Holding =>
           /\ pc'[d] = pc[d] /\ op'[d] = op[d] /\ cpu'[d] = cpu[d]
           /\ pc[d] = "self" => hpc'[d] = "none"
           /\ pc[d] \in Preparing => (cur \in counted' <=> cur \in counted),
         UNCHANGED <<ipi_function, ipi_data, ipi_wait, ipi_done, cur, posted>>,
         started \subseteq started', ended \subseteq ended'
  PROVE  OwnerInv'
<1> SUFFICES ASSUME NEW d \in CPU, pc'[d] \in Holding PROVE Owns(d)'
  BY DEF OwnerInv
<1>1. Owns(d) /\ pc'[d] = pc[d] /\ op'[d] = op[d] /\ cpu'[d] = cpu[d]
  BY DEF OwnerInv
<1>2. QED
  BY <1>1 DEF Owns, Preparing

(* The CPU that holds ipi_lock after a step of its own is the only one     *)
(* OwnerInv is about.                                                      *)
LEMMA OwnerAlone ==
  ASSUME LockInv', NEW c \in CPU, pc'[c] \in Holding, Owns(c)'
  PROVE  OwnerInv'
  BY DEF OwnerInv, LockInv

LEMMA OwnerStep == IInv /\ [Next]_vars => OwnerInv'
<1> SUFFICES ASSUME IInv, [Next]_vars PROVE OwnerInv'
  OBVIOUS
<1>0. /\ LockInv' /\ OwnerInv /\ LockInv
      /\ pc \in [CPU -> ProgramLabels] /\ op \in [CPU -> Ops]
      /\ cpu \in [CPU -> CPU] /\ hpc \in [CPU -> HandlerLabels]
      /\ \A d \in CPU : pc[d] = "self" => hpc[d] = "none"
  BY LockStep DEF IInv, TypeOK, OwnerInv, Owns, Holding
<1>1. CASE SmpInit
  BY <1>0, <1>1, LastCPU, OwnerFrame
     DEF SmpInit, Goto, mailbox, history, Holding
<1>2. CASE SmpInitCount
  BY <1>0, <1>2, LastCPU, OwnerFrame
     DEF SmpInitCount, Goto, At, mailbox, history, Holding
<1>3. ASSUME NEW c \in CPU, NEW d \in CPU,
             NEW o \in {"on_cpu", "on_cpu_async", "on_cpus"}, Invoke(c, o, d)
      PROVE OwnerInv'
  BY <1>0, <1>3, OwnerFrame DEF Invoke, Goto, At, mailbox, history, Holding
<1>4. ASSUME NEW c \in CPU, ProgramStep(c) PROVE OwnerInv'
  <2>0. pc[c] \in Holding => Owns(c)
    BY <1>0 DEF OwnerInv
  <2>1. CASE SpinLock(c)
    <3>1. cur' \notin posted /\ cur' \in posted'
      BY <2>1, NewCall DEF SpinLock
    <3>2. /\ cur'.from = c /\ cur'.to = cpu[c]
          /\ cur'.sync = Waits(op[c])
      BY <2>1 DEF SpinLock
    <3>3. pc'[c] = "locked"
      BY <1>0, <2>1 DEF SpinLock, Goto
    <3>4. cur' \notin counted'
      BY <2>1, <3>1 DEF SpinLock, IInv, HistoryInv
    <3>5. QED
      BY <1>0, <2>1, <3>1, <3>2, <3>3, <3>4, OwnerAlone
         DEF SpinLock, Owns, Preparing, Holding
  <2>2. CASE CallSelf(c)
    BY <1>0, <2>0, <2>2, OwnerAlone DEF CallSelf, At, Goto, Owns, Holding,
       Preparing
  <2>3. CASE SelfReturns(c)
    BY <1>0, <2>0, <2>3, OwnerAlone DEF SelfReturns, At, Goto, Owns, Holding,
       Preparing
  <2>4. CASE IncActive(c)
    BY <1>0, <2>0, <2>4, OwnerAlone DEF IncActive, At, Goto, Owns, Holding,
       mailbox
  <2>5. CASE ClearDone(c)
    BY <1>0, <2>0, <2>5, OwnerAlone DEF ClearDone, At, Goto, Owns, Holding,
       Preparing, history
  <2>6. CASE SetFunction(c)
    BY <1>0, <2>0, <2>6, OwnerAlone DEF SetFunction, At, Goto, Owns, Holding,
       Preparing, history
  <2>7. CASE SetData(c)
    BY <1>0, <2>0, <2>7, OwnerAlone DEF SetData, At, Goto, Owns, Holding,
       Preparing, history
  <2>8. CASE SetWait(c)
    BY <1>0, <2>0, <2>8, OwnerAlone DEF SetWait, At, Goto, Owns, Holding,
       Preparing, history
  <2>9. CASE WriteIcr(c)
    BY <1>0, <2>0, <2>9, OwnerAlone DEF WriteIcr, At, Goto, Owns, Holding,
       Preparing, mailbox, history
  <2>10. CASE SeeDone(c)
    BY <1>0, <2>0, <2>10, OwnerAlone DEF SeeDone, At, Goto, Owns, Holding,
       Preparing, mailbox, history
  <2>11. CASE Drained(c)
    BY <1>0, <2>11, OwnerFrame DEF Drained, At, Goto, Holding, mailbox,
       history
  <2>12. CASE Unlock(c)
    <3>1. \A d \in CPU : pc'[d] \notin Holding
      <4>1. \E l \in {"ready", "lock", "drain", "count"} :
               pc' = [pc EXCEPT ![c] = l]
        BY <2>12, UnlockGoes
      <4>2. QED
        BY <1>0, <2>12, <4>1 DEF Unlock, At, LockInv, Holding
    <3>2. QED
      BY <3>1 DEF OwnerInv
  <2>13. QED
    BY <1>4, <2>1, <2>2, <2>3, <2>4, <2>5, <2>6, <2>7, <2>8, <2>9, <2>10,
       <2>11, <2>12 DEF ProgramStep
<1>5. ASSUME NEW c \in CPU, HandlerStep(c) PROVE OwnerInv'
  <2>0. /\ hpc[c] # "none" => pc[c] # "self"
        /\ SignalInv /\ HandlerInv /\ FreshInv
    BY <1>0 DEF IInv
  <2>1. CASE TakeIpi(c)
    <3>1. pc[c] # "self"
      BY <1>0, <2>0, <2>1 DEF TakeIpi, SignalInv, Unanswered, LockInv, Holding
    <3>2. QED
      BY <1>0, <2>1, <3>1, OwnerFrame DEF TakeIpi, HandlerGoto, mailbox,
         program, history
  <2>2. CASE ReadFunction(c) \/ ReadData(c) \/ ReadWait(c)
    BY <1>0, <2>0, <2>2, OwnerFrame DEF ReadFunction, ReadData, ReadWait,
       HandlerGoto, mailbox, program, history
  <2>3. CASE DoneEarly(c) \/ DoneLate(c)
    <3>1. PICK s \in CPU : pc[s] = "spin"
      BY <2>0, <2>3 DEF DoneEarly, DoneLate, SignalInv, HandlerInv, Copied,
         Unanswered, Reading
    <3>2. cur.sync => cur \in ended
      BY <2>0, <2>3 DEF DoneEarly, DoneLate, HandlerInv, Copied, Late
    <3>3. Owns(s) /\ UNCHANGED <<ipi_function, ipi_data, ipi_wait, history,
                                 pc, op, cpu>>
      BY <1>0, <2>3, <3>1 DEF OwnerInv, Holding, DoneEarly, DoneLate, program
    <3>4. QED
      BY <1>0, <3>1, <3>2, <3>3, OwnerAlone DEF Owns, Holding, Preparing,
         history
  <2>4. CASE EoiEarly(c) \/ EoiLate(c)
    BY <1>0, <2>0, <2>4, OwnerFrame DEF EoiEarly, EoiLate, HandlerGoto,
       mailbox, program, history
  <2>5. CASE CallFunction(c) \/ FunctionReturns(c)
    BY <1>0, <2>0, <2>5, OwnerFrame DEF CallFunction, FunctionReturns,
       HandlerGoto, mailbox, program
  <2>6. CASE DecActive(c)
    <3>1. (\E d \in CPU : pc[d] \in Preparing) => hf[c] # cur
      BY <2>0, <2>6 DEF DecActive, FreshInv, Unread, Late
    <3>2. QED
      BY <1>0, <2>0, <2>6, <3>1, OwnerFrame DEF DecActive, HandlerGoto,
         mailbox, program
  <2>7. QED
    BY <1>5, <2>1, <2>2, <2>3, <2>4, <2>5, <2>6 DEF HandlerStep
<1>6. CASE UNCHANGED vars
  BY <1>0, <1>6, OwnerFrame DEF vars, mailbox, program, history
<1>7. QED
  BY <1>1, <1>2, <1>3, <1>4, <1>5, <1>6, LastCPU
     DEF Next, Halted, OnCpu, OnCpuAsync, OnCpus

(* SignalInv is about six variables: a step that leaves them alone keeps   *)
(* it.                                                                     *)
LEMMA SignalFrame ==
  ASSUME SignalInv, UNCHANGED <<pc, cpu, hpc, hw, irr, ipi_done>>
  PROVE  SignalInv'
  BY DEF SignalInv, Unanswered

(* While the owner of ipi_lock does not spin on ipi_done, no handler owes  *)
(* an answer, and a step of the owner leaves it so.                        *)
LEMMA SignalQuiet ==
  ASSUME IInv, NEW c \in CPU, pc[c] \in Holding \ {"spin"},
         UNCHANGED <<hpc, hw, irr>>
  PROVE  SignalInv'
<1>1. LockInv /\ SignalInv
  BY DEF IInv
<1>2. \A d \in CPU : ~Unanswered(d)
  BY <1>1 DEF LockInv, SignalInv, Holding
<1>3. QED
  BY <1>2 DEF SignalInv, Unanswered

LEMMA SignalStep == IInv /\ [Next]_vars => SignalInv'
<1> SUFFICES ASSUME IInv, [Next]_vars PROVE SignalInv'
  OBVIOUS
<1>0. /\ SignalInv /\ LockInv
      /\ pc \in [CPU -> ProgramLabels] /\ hpc \in [CPU -> HandlerLabels]
      /\ irr \in [CPU -> BOOLEAN] /\ hw \in [CPU -> BOOLEAN]
      /\ cpu \in [CPU -> CPU]
  BY DEF IInv, TypeOK
<1>1. CASE SmpInit
  BY <1>0, <1>1 DEF SmpInit, At, Goto, mailbox, locals, apic, SignalInv,
     Unanswered
<1>2. CASE SmpInitCount
  BY <1>0, <1>2 DEF SmpInitCount, At, Goto, mailbox, locals, apic, SignalInv,
     Unanswered
<1>3. ASSUME NEW c \in CPU, NEW d \in CPU,
             NEW o \in {"on_cpu", "on_cpu_async", "on_cpus"}, Invoke(c, o, d)
      PROVE SignalInv'
  BY <1>0, <1>3 DEF Invoke, At, Goto, mailbox, locals, apic, SignalInv,
     Unanswered
<1>4. ASSUME NEW c \in CPU, ProgramStep(c) PROVE SignalInv'
  <2>1. CASE SpinLock(c)
    BY <1>0, <2>1 DEF SpinLock, locals, apic, LockInv, SignalInv, Holding,
       Unanswered
  <2>2. CASE CallSelf(c) \/ SelfReturns(c)
    BY <2>2, SignalQuiet
       DEF CallSelf, SelfReturns, At, Holding, locals, apic
  <2>3. CASE IncActive(c)
    BY <2>3, SignalQuiet DEF IncActive, At, Holding, locals, apic
  <2>4. CASE ClearDone(c) \/ SetFunction(c) \/ SetData(c) \/ SetWait(c)
    BY <2>4, SignalQuiet DEF ClearDone, SetFunction, SetData, SetWait, At,
       Holding, locals, apic
  <2>5. CASE WriteIcr(c)
    <3>1. pc[c] = "icr" /\ ~ipi_done /\ cur.to = cpu[c]
      BY <2>5 DEF WriteIcr, At, IInv, OwnerInv, Owns, Holding
    <3>2. \A d \in CPU : ~Unanswered(d)
      BY <1>0, <3>1 DEF SignalInv, LockInv, Holding
    <3>3. /\ pc' = [pc EXCEPT ![c] = "spin"]
          /\ irr' = [irr EXCEPT ![cpu[c]] = TRUE]
          /\ UNCHANGED <<cpu, hpc, hw, ipi_done>>
      BY <2>5, <3>1 DEF WriteIcr, Goto, mailbox, locals
    <3>4. QED
      BY <1>0, <3>1, <3>2, <3>3 DEF SignalInv, Unanswered
  <2>6. CASE SeeDone(c) \/ Drained(c)
    BY <1>0, <2>6 DEF SeeDone, Drained, At, Goto, mailbox, locals, apic,
       SignalInv, Unanswered
  <2>7. CASE Unlock(c)
    BY <2>7, SignalQuiet DEF Unlock, At, Holding, locals, apic
  <2>8. QED
    BY <1>4, <2>1, <2>2, <2>3, <2>4, <2>5, <2>6, <2>7 DEF ProgramStep
<1>5. ASSUME NEW c \in CPU, HandlerStep(c) PROVE SignalInv'
  <2>1. CASE TakeIpi(c)
    BY <1>0, <2>1 DEF TakeIpi, HandlerGoto, mailbox, program, locals,
       SignalInv, Unanswered
  <2>2. CASE ReadFunction(c) \/ ReadData(c) \/ ReadWait(c)
    BY <1>0, <2>2 DEF ReadFunction, ReadData, ReadWait, HandlerGoto, mailbox,
       program, apic, SignalInv, Reading, Unanswered
  <2>3. CASE DoneEarly(c) \/ DoneLate(c)
    <3>1. /\ hpc[c] \in {"done_early", "done_late"} /\ HandlerInv
          /\ hpc' = [hpc EXCEPT ![c] = IF hpc[c] = "done_early"
                                      THEN "eoi_early" ELSE "eoi_late"]
          /\ UNCHANGED <<pc, cpu, hw, irr>>
      BY <2>3 DEF DoneEarly, DoneLate, HandlerGoto, program, locals, apic,
         IInv
    <3>2. Unanswered(c) /\ ~irr[c]
      BY <1>0, <3>1 DEF HandlerInv, Copied, SignalInv, Reading, Unanswered
    <3>3. \A d \in CPU : Unanswered(d) => d = c
      BY <1>0, <3>2 DEF SignalInv, LockInv, Holding
    <3>4. \A d \in CPU : ~Unanswered(d)'
      BY <1>0, <3>1, <3>2, <3>3 DEF HandlerInv, Copied, Reading, Unanswered
    <3>5. QED
      BY <3>4 DEF SignalInv
  <2>4. CASE EoiEarly(c) \/ EoiLate(c)
    <3>1. hpc[c] = "eoi_early" => ~hw[c]
      BY DEF IInv, HandlerInv, Copied
    <3>2. QED
      BY <1>0, <2>4, <3>1 DEF EoiEarly, EoiLate, HandlerGoto, mailbox,
         program, locals, SignalInv, Reading, Unanswered
  <2>5. CASE CallFunction(c) \/ FunctionReturns(c)
    BY <1>0, <2>5 DEF CallFunction, FunctionReturns, HandlerGoto, mailbox,
       program, locals, apic, SignalInv, Reading, Unanswered
  <2>6. CASE DecActive(c)
    <3>1. /\ hpc[c] = "dec"
          /\ hpc' = [hpc EXCEPT ![c] = IF hw[c] THEN "done_late" ELSE "none"]
          /\ UNCHANGED <<pc, cpu, hw, irr, ipi_done>>
      BY <1>0, <2>6 DEF DecActive, HandlerGoto, mailbox, program, locals, apic
    <3>2. QED
      BY <1>0, <3>1 DEF SignalInv, Reading, Unanswered
  <2>7. QED
    BY <1>5, <2>1, <2>2, <2>3, <2>4, <2>5, <2>6 DEF HandlerStep
<1>6. CASE UNCHANGED vars
  BY <1>6, SignalFrame DEF vars, mailbox, program, locals, apic, IInv
<1>7. QED
  BY <1>1, <1>2, <1>3, <1>4, <1>5, <1>6, LastCPU
     DEF Next, Halted, OnCpu, OnCpuAsync, OnCpus
-----------------------------------------------------------------------------
(* What the handler of one CPU copied stays right when the step leaves     *)
(* that handler alone and takes nothing away from its call.                *)
LEMMA CopiedFrame ==
  ASSUME NEW d \in CPU, Copied(d),
         hpc'[d] = hpc[d], hf'[d] = hf[d], hd'[d] = hd[d], hw'[d] = hw[d],
         hpc[d] \in {"data", "wait", "done_early"} => cur' = cur,
         hpc[d] \in Late =>
           /\ hw[d] => cur' = cur
           /\ hf[d] \in counted => hf[d] \in counted'
           /\ hf[d] \in started' <=> hf[d] \in started,
         posted \subseteq posted', ended \subseteq ended'
  PROVE  Copied(d)'
  BY DEF Copied, Late

(* While a handler reads the mailbox, the caller it reads for waits, no    *)
(* other call is under way, and the call it reads is new and counted.      *)
LEMMA ReaderAlone ==
  ASSUME IInv, NEW c \in CPU, hpc[c] \in Reading
  PROVE  /\ \A d \in CPU : pc[d] \notin Preparing /\ pc[d] # "self"
         /\ \A d \in CPU : ~irr[d]
         /\ \A d \in CPU : hpc[d] \in Reading => d = c
         /\ cur \notin started /\ cur \in counted /\ cur \in posted
         /\ \A d \in CPU : hpc[d] \in Late => hf[d] # cur
         /\ cur.to = c
         /\ ipi_function = cur /\ ipi_data = cur /\ ipi_wait = cur.sync
<1>1. Unanswered(c) /\ Unread
  BY DEF Unanswered, Unread
<1>2. PICK k \in CPU : pc[k] = "spin" /\ cpu[k] = c
  BY <1>1 DEF IInv, SignalInv
<1>3. \A d \in CPU : pc[d] \in Holding => d = k
  BY <1>2 DEF IInv, LockInv, Holding
<1>4. \A d \in CPU : Unanswered(d) => d = c
  BY <1>2, <1>3 DEF IInv, SignalInv, Holding
<1>5. ~irr[c]
  BY <1>1 DEF IInv, SignalInv
<1>6. Owns(k)
  BY <1>2 DEF IInv, OwnerInv, Holding
<1>7. \A d \in CPU : pc[d] \notin Preparing /\ pc[d] # "self"
  BY <1>2, <1>3 DEF Holding, Preparing
<1>8. \A d \in CPU : ~irr[d] /\ (hpc[d] \in Reading => d = c)
  BY <1>4, <1>5 DEF Unanswered
<1>9. /\ cur.to = c /\ cur \in posted
      /\ ipi_function = cur /\ ipi_data = cur /\ ipi_wait = cur.sync
  BY <1>2, <1>6 DEF Owns
<1>10. /\ cur \notin started /\ cur \in counted
       /\ \A d \in CPU : hpc[d] \in Late => hf[d] # cur
  BY <1>1 DEF IInv, FreshInv
<1> QED
  BY <1>7, <1>8, <1>9, <1>10

(* A handler step changes only what its own CPU copied. *)
LEMMA OtherHandlers ==
  ASSUME IInv, NEW c \in CPU, HandlerStep(c), NEW d \in CPU, d # c
  PROVE  Copied(d)'
<1>1. /\ hpc'[d] = hpc[d] /\ hf'[d] = hf[d] /\ hd'[d] = hd[d]
      /\ hw'[d] = hw[d]
  <2> /\ hpc \in [CPU -> HandlerLabels] /\ hf \in [CPU -> Call]
      /\ hd \in [CPU -> Call] /\ hw \in [CPU -> BOOLEAN]
    BY DEF IInv, TypeOK
  <2>1. CASE ReadFunction(c)
    BY <2>1 DEF ReadFunction, HandlerGoto
  <2>2. CASE ReadData(c)
    BY <2>2 DEF ReadData, HandlerGoto
  <2>3. CASE ReadWait(c)
    BY <2>3 DEF ReadWait, HandlerGoto
  <2>4. CASE \/ TakeIpi(c) \/ DoneEarly(c) \/ EoiEarly(c) \/ CallFunction(c)
             \/ FunctionReturns(c) \/ DecActive(c) \/ DoneLate(c)
             \/ EoiLate(c)
    <3>1. UNCHANGED locals /\ \E l : HandlerGoto(c, l)
      BY <2>4 DEF TakeIpi, DoneEarly, EoiEarly, CallFunction,
         FunctionReturns, DecActive, DoneLate, EoiLate
    <3> QED
      BY <3>1 DEF HandlerGoto, locals
  <2> QED
    BY <2>1, <2>2, <2>3, <2>4 DEF HandlerStep
<1>2. /\ UNCHANGED <<cur, posted>> /\ ended \subseteq ended'
      /\ \/ UNCHANGED <<started, counted>>
         \/ /\ hpc[c] \in Late /\ UNCHANGED counted
            /\ started' = started \cup {hf[c]}
         \/ /\ hpc[c] \in Late /\ UNCHANGED started
            /\ counted' = counted \ {hf[c]}
  BY DEF HandlerStep, TakeIpi, ReadFunction, ReadData, ReadWait, DoneEarly,
     EoiEarly, CallFunction, FunctionReturns, DecActive, DoneLate, EoiLate,
     history, Late
<1>3. Copied(c) /\ Copied(d)
  BY DEF IInv, HandlerInv
<1>4. hpc[c] \in Late /\ hpc[d] \in Late => hf[c] # hf[d]
  BY <1>3 DEF Copied
<1>5. hpc[d] \in Late =>
        /\ hf[d] \in counted => hf[d] \in counted'
        /\ hf[d] \in started' <=> hf[d] \in started
  BY <1>2, <1>4
<1> QED
  BY <1>1, <1>2, <1>3, <1>5, CopiedFrame

(* What a handler step does to the copies of its own CPU. *)
LEMMA OwnHandler ==
  ASSUME IInv, NEW c \in CPU, HandlerStep(c)
  PROVE  Copied(c)'
<1> Copied(c)
  BY DEF IInv, HandlerInv
<1>0. /\ hpc \in [CPU -> HandlerLabels] /\ hf \in [CPU -> Call]
      /\ hd \in [CPU -> Call] /\ hw \in [CPU -> BOOLEAN]
  BY DEF IInv, TypeOK
<1>1. CASE TakeIpi(c)
  BY <1>0, <1>1 DEF TakeIpi, HandlerGoto, Copied, Late
<1>2. CASE ReadFunction(c)
  <2>1. /\ hpc'[c] = "data" /\ hf'[c] = ipi_function /\ UNCHANGED cur
        /\ hpc[c] = "func"
    BY <1>0, <1>2 DEF ReadFunction, HandlerGoto, history
  <2>2. ipi_function = cur
    BY <2>1, ReaderAlone DEF Reading
  <2> QED
    BY <2>1, <2>2 DEF Copied, Late
<1>3. CASE ReadData(c)
  <2>1. /\ hpc'[c] = "wait" /\ hd'[c] = ipi_data /\ UNCHANGED <<cur, hf>>
        /\ hpc[c] = "data"
    BY <1>0, <1>3 DEF ReadData, HandlerGoto, history
  <2>2. ipi_data = cur
    BY <2>1, ReaderAlone DEF Reading
  <2> QED
    BY <2>1, <2>2 DEF Copied, Late
<1>4. CASE ReadWait(c)
  <2>1. /\ hpc[c] = "wait" /\ hw'[c] = ipi_wait
        /\ hpc'[c] = IF ipi_wait THEN "call" ELSE "done_early"
        /\ UNCHANGED <<hf, hd, cur, posted, started, counted>>
    BY <1>0, <1>4 DEF ReadWait, HandlerGoto, history
  <2>2. /\ ipi_wait = cur.sync /\ cur.to = c
        /\ cur \notin started /\ cur \in counted /\ cur \in posted
    BY <2>1, ReaderAlone DEF Reading
  <2>3. hf[c] = cur /\ hd[c] = cur
    BY <2>1 DEF Copied
  <2>4. CASE ipi_wait
    BY <2>1, <2>2, <2>3, <2>4 DEF Copied, Late
  <2>5. CASE ~ipi_wait
    BY <2>1, <2>2, <2>3, <2>5 DEF Copied, Late
  <2> QED
    BY <2>4, <2>5
<1>5. CASE DoneEarly(c)
  <2>1. /\ hpc[c] = "done_early" /\ hpc'[c] = "eoi_early"
        /\ UNCHANGED <<hf, hd, hw, cur, posted, started, counted>>
    BY <1>0, <1>5 DEF DoneEarly, HandlerGoto, locals, history
  <2>2. /\ cur.to = c
        /\ cur \notin started /\ cur \in counted /\ cur \in posted
    BY <2>1, ReaderAlone DEF Reading
  <2>3. hf[c] = cur /\ hd[c] = cur /\ ~hw[c] /\ ~cur.sync
    BY <2>1 DEF Copied
  <2>4. hw[c] = cur.sync
    <3>1. cur.sync \in BOOLEAN /\ hw[c] \in BOOLEAN
      BY <1>0 DEF IInv, TypeOK, Call
    <3> QED
      BY <2>3, <3>1
  <2> QED
    BY <2>1, <2>2, <2>3, <2>4 DEF Copied, Late
<1>6. CASE EoiEarly(c)
  BY <1>0, <1>6 DEF EoiEarly, HandlerGoto, locals, history, Copied, Late
<1>7. CASE CallFunction(c)
  BY <1>0, <1>7 DEF CallFunction, HandlerGoto, locals, Copied, Late
<1>8. CASE FunctionReturns(c)
  BY <1>0, <1>8 DEF FunctionReturns, HandlerGoto, locals, Copied, Late
<1>9. CASE DecActive(c)
  <2>1. /\ hpc[c] = "dec"
        /\ hpc'[c] = IF hw[c] THEN "done_late" ELSE "none"
        /\ UNCHANGED <<hf, hd, hw, cur, posted, started, ended>>
    BY <1>0, <1>9 DEF DecActive, HandlerGoto, locals
  <2> QED
    BY <2>1 DEF Copied, Late
<1>10. CASE DoneLate(c) \/ EoiLate(c)
  <2>1. hpc'[c] \in {"eoi_late", "none"}
    BY <1>0, <1>10 DEF DoneLate, EoiLate, HandlerGoto
  <2> QED
    BY <2>1 DEF Copied, Late
<1> QED
  BY <1>1, <1>2, <1>3, <1>4, <1>5, <1>6, <1>7, <1>8, <1>9, <1>10
     DEF HandlerStep

(* What a step of the callers does to the history. *)
LEMMA ProgramHistory ==
  ASSUME IInv, NEW c \in CPU, ProgramStep(c)
  PROVE  /\ posted \subseteq posted' /\ ended \subseteq ended'
         /\ counted \subseteq counted'
         /\ \/ UNCHANGED <<cur, started>>
            \/ ~ipi_lock /\ UNCHANGED started
            \/ /\ pc[c] = "locked" /\ UNCHANGED cur
               /\ started' = started \cup {cur}
<1>1. CASE SpinLock(c)
  BY <1>1 DEF SpinLock
<1>2. CASE CallSelf(c)
  BY <1>2 DEF CallSelf, At
<1>3. CASE SelfReturns(c) \/ IncActive(c)
  BY <1>3 DEF SelfReturns, IncActive
<1>4. CASE \/ ClearDone(c) \/ SetFunction(c) \/ SetData(c) \/ SetWait(c)
           \/ WriteIcr(c) \/ SeeDone(c) \/ Unlock(c) \/ Drained(c)
  <2>1. UNCHANGED history
    BY <1>4 DEF ClearDone, SetFunction, SetData, SetWait, WriteIcr, SeeDone,
       Unlock, Drained
  <2> QED
    BY <2>1 DEF history
<1> QED
  BY <1>1, <1>2, <1>3, <1>4 DEF ProgramStep

LEMMA HandlerInvStep == IInv /\ [Next]_vars => HandlerInv'
<1> SUFFICES ASSUME IInv, [Next]_vars PROVE HandlerInv'
  OBVIOUS
<1>1. ASSUME UNCHANGED <<hpc, locals, history>> PROVE HandlerInv'
  BY <1>1 DEF locals, history, IInv, HandlerInv, Copied
<1>2. CASE SmpInit \/ SmpInitCount \/ UNCHANGED vars
  BY <1>1, <1>2 DEF SmpInit, SmpInitCount, vars
<1>3. ASSUME NEW c \in CPU, NEW d \in CPU,
             NEW o \in {"on_cpu", "on_cpu_async", "on_cpus"}, Invoke(c, o, d)
      PROVE HandlerInv'
  BY <1>1, <1>3 DEF Invoke
<1>4. ASSUME NEW c \in CPU, ProgramStep(c), NEW d \in CPU PROVE Copied(d)'
  <2>1. /\ hpc'[d] = hpc[d] /\ hf'[d] = hf[d] /\ hd'[d] = hd[d]
        /\ hw'[d] = hw[d]
    BY <1>4, ProgramFrame DEF locals
  <2>2. Copied(d)
    BY DEF IInv, HandlerInv
  <2>3. ~ipi_lock => ~Unanswered(d)
    BY DEF IInv, LockInv, SignalInv, Holding
  <2>4. ~ipi_lock => /\ hpc[d] \notin {"data", "wait", "done_early"}
                     /\ hpc[d] \in Late => ~hw[d]
    BY <2>2, <2>3 DEF Unanswered, Reading, Late, Copied
  <2>5. pc[c] = "locked" => (hpc[d] \in Late => hf[d] # cur)
    BY <1>4 DEF IInv, FreshInv, Unread, Preparing
  <2>6. /\ hpc[d] \in {"data", "wait", "done_early"} => cur' = cur
        /\ hpc[d] \in Late => (hw[d] => cur' = cur)
        /\ hpc[d] \in Late => (hf[d] \in started' <=> hf[d] \in started)
    BY <1>4, <2>4, <2>5, ProgramHistory
  <2> QED
    BY <1>4, <2>1, <2>2, <2>6, ProgramHistory, CopiedFrame
<1>5. ASSUME NEW c \in CPU, HandlerStep(c) PROVE HandlerInv'
  BY <1>5, OwnHandler, OtherHandlers DEF HandlerInv
<1>6. QED
  BY <1>2, <1>3, <1>4, <1>5, LastCPU
     DEF Next, Halted, OnCpu, OnCpuAsync, OnCpus, HandlerInv

LEMMA FreshStep == IInv /\ [Next]_vars => FreshInv'
<1> SUFFICES ASSUME IInv, [Next]_vars PROVE FreshInv'
  OBVIOUS
<1>0. hpc \in [CPU -> HandlerLabels]
  BY DEF IInv, TypeOK
<1>a. ASSUME UNCHANGED <<pc, irr, hf, cur, started, counted>>,
             \A d \in CPU : hpc'[d] \in Late => hpc[d] \in Late,
             \A d \in CPU : hpc'[d] \in Reading => hpc[d] \in Reading
      PROVE  FreshInv'
  BY <1>a DEF IInv, FreshInv, Unread
<1>1. CASE SmpInit
  BY <1>1 DEF SmpInit, Goto, locals, apic, history, IInv, TypeOK, FreshInv,
     Preparing, Unread
<1>2. CASE SmpInitCount
  BY <1>2 DEF SmpInitCount, Goto, locals, apic, history, IInv, FreshInv,
     Preparing, Unread
<1>3. ASSUME NEW c \in CPU, NEW d \in CPU,
             NEW o \in {"on_cpu", "on_cpu_async", "on_cpus"}, Invoke(c, o, d)
      PROVE FreshInv'
  BY <1>3 DEF Invoke, Goto, locals, apic, history, IInv, FreshInv, Preparing,
     Unread
<1>4. ASSUME NEW c \in CPU, ProgramStep(c) PROVE FreshInv'
  <2>1. CASE SpinLock(c)
    <3>1. cur' \notin posted
      BY <2>1, NewCall
    <3>2. \A d \in CPU : ~irr[d] /\ hpc[d] \notin Reading
      BY <2>1 DEF SpinLock, IInv, LockInv, SignalInv, Unanswered, Holding
    <3>3. \A d \in CPU : hpc[d] \in Late => hf[d] # cur'
      BY <3>1 DEF IInv, HandlerInv, Copied
    <3>4. cur' \notin started
      BY <3>1 DEF IInv, HistoryInv
    <3>5. QED
      BY <2>1, <3>2, <3>3, <3>4 DEF SpinLock, FreshInv, locals, apic
  <2>2. CASE CallSelf(c) \/ SelfReturns(c)
    <3>1. /\ UNCHANGED <<irr, hpc, hf, cur, counted>>
          /\ pc[c] \in {"locked", "self"} /\ hpc[c] = "none"
          /\ \E l \in {"self", "unlock"} : pc' = [pc EXCEPT ![c] = l]
      BY <2>2 DEF CallSelf, SelfReturns, At, Goto, locals, apic
    <3>2. pc'[c] \in {"self", "unlock"} /\ \A d \in CPU : d # c => pc'[d] = pc[d]
      BY <3>1 DEF IInv, TypeOK
    <3>3. \A d \in CPU : pc[d] \in Holding => d = c
      BY <3>1 DEF IInv, LockInv, Holding
    <3>4. \A d \in CPU : ~Unanswered(d)
      BY <3>1, <3>3 DEF IInv, SignalInv, Holding
    <3>5. ~Unread'
      BY <3>1, <3>2, <3>3, <3>4 DEF Unread, Unanswered, Holding, Preparing
    <3>6. \A d \in CPU : hpc[d] \in Late => hf[d] # cur
      BY <3>1 DEF IInv, FreshInv, Unread, Preparing
    <3> QED
      BY <3>1, <3>5, <3>6 DEF FreshInv, Unread
  <2>3. CASE IncActive(c)
    BY <2>3 DEF IncActive, At, locals, IInv, FreshInv, Preparing, Unread
  <2>4. CASE ClearDone(c) \/ SetFunction(c) \/ SetData(c) \/ SetWait(c)
    BY <2>4 DEF ClearDone, SetFunction, SetData, SetWait, At, locals, apic,
       history, IInv, FreshInv, Preparing, Unread
  <2>5. CASE WriteIcr(c)
    <3>1. UNCHANGED <<hpc, hf, history>> /\ pc[c] = "icr"
      BY <2>5 DEF WriteIcr, At, locals
    <3>2. cur \in counted /\ Unread
      BY <3>1 DEF IInv, OwnerInv, Owns, Holding, Preparing, Unread
    <3>3. cur \notin started /\ \A d \in CPU : hpc[d] \in Late => hf[d] # cur
      BY <3>2 DEF IInv, FreshInv
    <3> QED
      BY <3>1, <3>2, <3>3 DEF FreshInv, history
  <2>6. CASE SeeDone(c) \/ Drained(c)
    BY <2>6 DEF SeeDone, Drained, Goto, locals, apic, history, IInv, TypeOK,
       FreshInv, Preparing, Unread
  <2>7. CASE Unlock(c)
    <3>1. /\ UNCHANGED <<irr, hpc, hf, cur, started, counted>>
          /\ \E l \in {"ready", "lock", "drain", "count"} :
               pc' = [pc EXCEPT ![c] = l]
      BY <2>7, UnlockGoes DEF Unlock, locals, apic, history
    <3>2. \A d \in CPU : \/ pc'[d] = pc[d]
                         \/ pc'[d] \notin Preparing \cup {"self"}
      BY <3>1 DEF IInv, TypeOK, Preparing
    <3> QED
      BY <3>1, <3>2 DEF IInv, FreshInv, Unread
  <2>8. QED
    BY <1>4, <2>1, <2>2, <2>3, <2>4, <2>5, <2>6, <2>7 DEF ProgramStep
<1>5. ASSUME NEW c \in CPU, HandlerStep(c) PROVE FreshInv'
  <2>1. CASE TakeIpi(c)
    <3>1. /\ UNCHANGED <<pc, hf, cur, started, counted>> /\ irr[c]
          /\ \A d \in CPU : irr'[d] => irr[d]
          /\ \A d \in CPU : \/ hpc'[d] = hpc[d]
                            \/ d = c /\ hpc'[d] = "func"
      <4>1. irr \in [CPU -> BOOLEAN] /\ hpc \in [CPU -> HandlerLabels]
        BY DEF IInv, TypeOK
      <4> QED
        <5>1. /\ UNCHANGED <<pc, hf, cur, started, counted>> /\ irr[c]
              /\ irr' = [irr EXCEPT ![c] = FALSE]
              /\ hpc' = [hpc EXCEPT ![c] = "func"]
          BY <2>1 DEF TakeIpi, HandlerGoto, program, locals, history
        <5> QED
          BY <4>1, <5>1
    <3>2. Unread /\ \A d \in CPU : hpc'[d] \in Late => hpc[d] \in Late
      BY <3>1 DEF Unread, Late
    <3>3. /\ cur \notin started /\ cur \in counted
          /\ \A d \in CPU : hpc[d] \in Late => hf[d] # cur
      BY <3>1, <3>2 DEF IInv, FreshInv
    <3> QED
      BY <3>1, <3>2, <3>3 DEF FreshInv
  <2>2. CASE \/ ReadFunction(c) \/ ReadData(c) \/ ReadWait(c)
             \/ DoneEarly(c)
    <3>0. hpc \in [CPU -> HandlerLabels] /\ hf \in [CPU -> Call]
      BY DEF IInv, TypeOK
    <3>1. /\ UNCHANGED <<pc, irr, cur, started, counted>>
          /\ \A d \in CPU : d # c => hpc'[d] = hpc[d] /\ hf'[d] = hf[d]
          /\ hpc[c] \in Reading /\ hpc'[c] \in Reading \cup Late
      <4>1. CASE ReadFunction(c)
        BY <3>0, <4>1 DEF ReadFunction, HandlerGoto, program, apic, history,
           Reading
      <4>2. CASE ReadData(c)
        BY <3>0, <4>2 DEF ReadData, HandlerGoto, program, apic, history,
           Reading
      <4>3. CASE ReadWait(c)
        BY <3>0, <4>3 DEF ReadWait, HandlerGoto, program, apic, history,
           Reading, Late
      <4>4. CASE DoneEarly(c)
        BY <3>0, <4>4 DEF DoneEarly, HandlerGoto, program, locals, apic,
           history, Reading, Late
      <4> QED
        BY <2>2, <4>1, <4>2, <4>3, <4>4
    <3>2. /\ \A d \in CPU : pc[d] \notin Preparing /\ pc[d] # "self"
          /\ \A d \in CPU : ~irr[d]
          /\ \A d \in CPU : hpc[d] \in Reading => d = c
          /\ cur \notin started /\ cur \in counted
          /\ \A d \in CPU : hpc[d] \in Late => hf[d] # cur
      BY <3>1, ReaderAlone
    <3>3. CASE hpc'[c] \in Reading
      <4>1. \A d \in CPU : hpc'[d] \in Late => d # c
        BY <3>3 DEF Reading, Late
      <4> QED
        BY <3>1, <3>2, <4>1 DEF FreshInv
    <3>4. CASE hpc'[c] \in Late
      <4>1. \A d \in CPU : hpc'[d] \notin Reading
        BY <3>1, <3>2, <3>4 DEF Reading, Late
      <4>2. ~Unread'
        BY <3>1, <3>2, <4>1 DEF Unread
      <4> QED
        BY <3>1, <3>2, <4>1, <4>2 DEF FreshInv
    <3> QED
      BY <3>1, <3>3, <3>4
  <2>3. CASE DoneLate(c)
    BY <1>0, <1>a, <2>3 DEF DoneLate, HandlerGoto, Reading, Late, locals,
       apic, program, history
  <2>4. CASE EoiEarly(c) \/ EoiLate(c)
    BY <1>0, <1>a, <2>4 DEF EoiEarly, EoiLate, HandlerGoto, program, locals,
       history, Reading, Late
  <2>5. CASE CallFunction(c) \/ FunctionReturns(c)
    <3>1. /\ UNCHANGED <<pc, irr, hf, cur, counted>> /\ hpc[c] \in Late
          /\ started' \subseteq started \cup {hf[c]}
          /\ \A d \in CPU : \/ hpc'[d] = hpc[d]
                            \/ d = c /\ hpc'[d] \in {"run", "dec"}
      BY <1>0, <2>5 DEF CallFunction, FunctionReturns, HandlerGoto, program,
         locals, apic, Late
    <3>2. /\ Unread' => Unread
          /\ \A d \in CPU : hpc'[d] \in Late => hpc[d] \in Late
          /\ \A d \in CPU : hpc'[d] \in Reading => hpc[d] \in Reading
      BY <3>1 DEF Unread, Late, Reading
    <3>3. Unread => hf[c] # cur
      BY <3>1 DEF IInv, FreshInv
    <3> QED
      BY <3>1, <3>2, <3>3 DEF IInv, FreshInv
  <2>6. CASE DecActive(c)
    <3>1. /\ hpc[c] = "dec" /\ counted' = counted \ {hf[c]}
          /\ \A d \in CPU : \/ hpc'[d] = hpc[d]
                            \/ d = c /\ hpc'[d] \in {"done_late", "none"}
          /\ UNCHANGED <<pc, irr, hf, cur, started>>
      <4>1. hpc \in [CPU -> HandlerLabels]
        BY DEF IInv, TypeOK
      <4> QED
        BY <2>6, <4>1 DEF DecActive, HandlerGoto, program, locals, apic
    <3>2. /\ Unread' => Unread
          /\ \A d \in CPU : hpc'[d] \in Late => hpc[d] \in Late
          /\ \A d \in CPU : hpc'[d] \in Reading => hpc[d] \in Reading
      BY <3>1 DEF Unread, Late, Reading
    <3>3. (\E d \in CPU : irr[d] \/ hpc[d] \in Reading) => hf[c] # cur
      BY <3>1 DEF IInv, FreshInv, Unread, Late
    <3> QED
      BY <3>1, <3>2, <3>3 DEF IInv, FreshInv
  <2>7. QED
    BY <1>5, <2>1, <2>2, <2>3, <2>4, <2>5, <2>6 DEF HandlerStep
<1>6. CASE UNCHANGED vars
  BY <1>6 DEF vars, program, locals, apic, history, IInv, FreshInv, Unread
<1>7. QED
  BY <1>1, <1>2, <1>3, <1>4, <1>5, <1>6, LastCPU
     DEF Next, Halted, OnCpu, OnCpuAsync, OnCpus

LEMMA HistoryStep == IInv /\ [Next]_vars => HistoryInv'
<1> SUFFICES ASSUME IInv, [Next]_vars PROVE HistoryInv'
  OBVIOUS
<1>1. CASE SmpInit
  BY <1>1 DEF SmpInit, At, Goto, mailbox, history, IInv, TypeOK, HistoryInv
<1>2. CASE SmpInitCount
  BY <1>2 DEF SmpInitCount, At, Goto, history, IInv, HistoryInv
<1>3. ASSUME NEW c \in CPU, NEW d \in CPU,
             NEW o \in {"on_cpu", "on_cpu_async", "on_cpus"}, Invoke(c, o, d)
      PROVE HistoryInv'
  BY <1>3 DEF Invoke, At, Goto, history, IInv, HistoryInv
<1>4. ASSUME NEW c \in CPU, ProgramStep(c) PROVE HistoryInv'
  <2>1. CASE SpinLock(c)
    <3>1. \A k \in posted' : k.id <= cur'.id
      <4>1. cur'.id = cur.id + 1 /\ cur.id \in Nat
        BY <2>1, NewCall DEF IInv, TypeOK, Call
      <4>2. \A k \in posted : k.id \in Nat /\ k.id <= cur.id
        BY DEF IInv, TypeOK, HistoryInv, Call
      <4>3. posted' = posted \cup {cur'}
        BY <2>1 DEF SpinLock
      <4>4. QED
        BY <4>1, <4>2, <4>3
    <3>2. \A d \in CPU : pc[d] \notin Holding
      BY <2>1 DEF SpinLock, IInv, LockInv
    <3>3. pc'[c] = "locked"
      BY <2>1 DEF SpinLock, Goto, IInv, TypeOK
    <3>4. QED
      BY <2>1, <3>1, <3>2, <3>3 DEF SpinLock, IInv, HistoryInv, Holding
  <2>2. CASE CallSelf(c)
    <3>1. /\ UNCHANGED <<cur, posted, ended, counted>> /\ pc[c] = "locked"
          /\ started' = started \cup {cur} /\ pc' = [pc EXCEPT ![c] = "self"]
      BY <2>2 DEF CallSelf, At, Goto
    <3>2. cur \in posted
      BY <3>1 DEF IInv, OwnerInv, Owns, Holding
    <3>3. \E d \in CPU : pc'[d] \in {"locked", "self"}
      BY <3>1 DEF IInv, TypeOK
    <3> QED
      BY <3>1, <3>2, <3>3 DEF IInv, HistoryInv
  <2>9. CASE SelfReturns(c)
    <3>1. /\ UNCHANGED <<cur, posted, started, counted>> /\ pc[c] = "self"
          /\ ended' = ended \cup {cur}
      BY <2>9 DEF SelfReturns, At
    <3>2. cur \in started
      BY <3>1 DEF IInv, OwnerInv, Owns, Holding
    <3> QED
      BY <3>1, <3>2 DEF IInv, HistoryInv
  <2>3. CASE IncActive(c)
    BY <2>3 DEF IncActive, At, IInv, OwnerInv, Owns, HistoryInv, Holding
  <2>4. CASE ClearDone(c) \/ SetFunction(c) \/ SetData(c) \/ SetWait(c)
    BY <2>4 DEF ClearDone, SetFunction, SetData, SetWait, At, history, IInv,
       OwnerInv, Owns, HistoryInv, Holding
  <2>5. CASE WriteIcr(c)
    BY <2>5 DEF WriteIcr, At, history, IInv, OwnerInv, Owns, HistoryInv,
       Holding
  <2>6. CASE SeeDone(c) \/ Drained(c)
    <3>1. /\ UNCHANGED history /\ pc[c] \notin {"locked", "self"}
          /\ \E l : pc' = [pc EXCEPT ![c] = l]
      BY <2>6 DEF SeeDone, Drained, At, Goto
    <3>2. \A d \in CPU : pc[d] \in {"locked", "self"} => pc'[d] = pc[d]
      BY <3>1 DEF IInv, TypeOK
    <3> QED
      BY <3>1, <3>2 DEF history, IInv, HistoryInv
  <2>7. CASE Unlock(c)
    BY <2>7 DEF Unlock, At, history, IInv, OwnerInv, Owns, HistoryInv, Holding
  <2>8. QED
    BY <1>4, <2>1, <2>2, <2>3, <2>4, <2>5, <2>6, <2>7, <2>9
       DEF ProgramStep
<1>5. ASSUME NEW c \in CPU, HandlerStep(c) PROVE HistoryInv'
  <2>1. CASE TakeIpi(c)
    BY <2>1 DEF TakeIpi, program, history, IInv, HistoryInv
  <2>2. CASE ReadFunction(c) \/ ReadData(c) \/ ReadWait(c)
    BY <2>2 DEF ReadFunction, ReadData, ReadWait, program, history, IInv,
       HistoryInv
  <2>3. CASE DoneEarly(c) \/ DoneLate(c)
    BY <2>3 DEF DoneEarly, DoneLate, program, history, IInv, HistoryInv
  <2>4. CASE EoiEarly(c) \/ EoiLate(c)
    BY <2>4 DEF EoiEarly, EoiLate, program, history, IInv, HistoryInv
  <2>5. CASE CallFunction(c) \/ FunctionReturns(c)
    <3>1. /\ UNCHANGED <<pc, cur, posted, counted>>
          /\ \/ /\ hpc[c] = "call" /\ UNCHANGED ended
                /\ started' = started \cup {hf[c]}
             \/ /\ hpc[c] = "run" /\ UNCHANGED started
                /\ ended' = ended \cup {hf[c]}
      BY <2>5 DEF CallFunction, FunctionReturns, program
    <3>2. hf[c] \in posted /\ (hpc[c] = "run" => hf[c] \in started)
      BY <3>1 DEF IInv, HandlerInv, Copied, Late
    <3> QED
      BY <3>1, <3>2 DEF IInv, HistoryInv
  <2>6. CASE DecActive(c)
    <3>1. /\ UNCHANGED <<pc, cur, posted, started, ended>> /\ hpc[c] = "dec"
          /\ counted' = counted \ {hf[c]}
      BY <2>6 DEF DecActive, program
    <3>2. hf[c] \in ended
      BY <3>1 DEF IInv, HandlerInv, Copied
    <3> QED
      BY <3>1, <3>2 DEF IInv, HistoryInv
  <2>7. QED
    BY <1>5, <2>1, <2>2, <2>3, <2>4, <2>5, <2>6 DEF HandlerStep
<1>6. CASE UNCHANGED vars
  BY <1>6 DEF vars, program, history, IInv, HistoryInv
<1>7. QED
  BY <1>1, <1>2, <1>3, <1>4, <1>5, <1>6, LastCPU
     DEF Next, Halted, OnCpu, OnCpuAsync, OnCpus

LEMMA CountStep == IInv /\ [Next]_vars => CountInv'
<1> SUFFICES ASSUME IInv, [Next]_vars PROVE CountInv'
  OBVIOUS
<1>1. CASE SmpInit
  BY <1>1 DEF SmpInit, history, IInv, CountInv, ActiveExact
<1>2. CASE SmpInitCount
  <2>1. ~up /\ Cardinality(counted) \in Nat
    BY <1>2, LastCPU, FS_CardinalityType DEF SmpInitCount, At, IInv, PhaseInv,
       CountInv
  <2>2. QED
    BY <1>2, <2>1 DEF SmpInitCount, history, IInv, CountInv, ActiveExact
<1>3. ASSUME NEW c \in CPU, NEW d \in CPU,
             NEW o \in {"on_cpu", "on_cpu_async", "on_cpus"}, Invoke(c, o, d)
      PROVE CountInv'
  BY <1>3 DEF Invoke, history, IInv, CountInv, ActiveExact
<1>4. ASSUME NEW c \in CPU, ProgramStep(c) PROVE CountInv'
  <2>1. CASE SpinLock(c) \/ CallSelf(c) \/ SelfReturns(c) \/ ClearDone(c) \/
             SetFunction(c) \/ SetData(c) \/ SetWait(c) \/ WriteIcr(c) \/
             SeeDone(c) \/ Drained(c) \/ Unlock(c)
    <3>1. UNCHANGED <<counted, active_cpus, up>>
      BY <2>1 DEF SpinLock, CallSelf, SelfReturns, ClearDone, SetFunction,
         SetData, SetWait, WriteIcr, SeeDone, Drained, Unlock, history
    <3>2. QED
      BY <3>1 DEF IInv, CountInv, ActiveExact
  <2>2. CASE IncActive(c)
    <3>1. cur \notin counted /\ IsFiniteSet(counted)
      BY <2>2 DEF IncActive, At, IInv, OwnerInv, Owns, Holding, CountInv
    <3>2. /\ IsFiniteSet(counted \cup {cur})
          /\ Cardinality(counted \cup {cur}) = Cardinality(counted) + 1
      BY <3>1, FS_AddElement
    <3>3. Cardinality(counted) \in Nat
      BY <3>1, FS_CardinalityType
    <3>4. up' = up /\ counted' = counted \cup {cur} /\ active_cpus' = active_cpus + 1
      BY <2>2 DEF IncActive
    <3>5. QED
      BY <3>2, <3>3, <3>4 DEF IInv, CountInv, ActiveExact
  <2>3. QED
    BY <1>4, <2>1, <2>2 DEF ProgramStep
<1>5. ASSUME NEW c \in CPU, HandlerStep(c) PROVE CountInv'
  <2>1. CASE TakeIpi(c) \/ ReadFunction(c) \/ ReadData(c) \/ ReadWait(c) \/
             DoneEarly(c) \/ DoneLate(c) \/ EoiEarly(c) \/ EoiLate(c) \/
             CallFunction(c) \/ FunctionReturns(c)
    <3>1. UNCHANGED <<counted, active_cpus, up>>
      BY <2>1 DEF TakeIpi, ReadFunction, ReadData, ReadWait, DoneEarly,
         DoneLate, EoiEarly, EoiLate, CallFunction, FunctionReturns, history
    <3>2. QED
      BY <3>1 DEF IInv, CountInv, ActiveExact
  <2>2. CASE DecActive(c)
    <3>1. up' = up /\ counted' = counted \ {hf[c]} /\ active_cpus' = active_cpus - 1
      BY <2>2 DEF DecActive
    <3>2. /\ active_cpus \in Nat /\ Cardinality(counted) \in Nat
          /\ IsFiniteSet(counted')
          /\ Cardinality(counted') = Cardinality(counted) - 1
      BY <2>2, <3>1, DecCounts DEF DecActive
    <3>3. QED
      BY <3>1, <3>2 DEF IInv, CountInv, ActiveExact
  <2>3. QED
    BY <1>5, <2>1, <2>2 DEF HandlerStep
<1>6. CASE UNCHANGED vars
  BY <1>6 DEF vars, history, IInv, CountInv, ActiveExact
<1>7. QED
  BY <1>1, <1>2, <1>3, <1>4, <1>5, <1>6, LastCPU
     DEF Next, Halted, OnCpu, OnCpuAsync, OnCpus

LEMMA IdStep == IInv /\ [Next]_vars => IdInv'
<1> SUFFICES ASSUME IInv, [Next]_vars PROVE IdInv'
  OBVIOUS
<1>1. CASE SmpInit
  BY <1>1, LastCPU DEF SmpInit, IInv, TypeOK, IdInv
<1>2. CASE SmpInitCount
  BY <1>2 DEF SmpInitCount, IInv, IdInv
<1>3. ASSUME NEW c \in CPU, NEW d \in CPU,
             NEW o \in {"on_cpu", "on_cpu_async", "on_cpus"}, Invoke(c, o, d)
      PROVE IdInv'
  BY <1>3 DEF Invoke, IInv, IdInv
<1>4. ASSUME NEW c \in CPU, ProgramStep(c) PROVE IdInv'
  <2>1. CASE SpinLock(c) \/ CallSelf(c) \/ IncActive(c) \/ ClearDone(c) \/
             SetFunction(c) \/ SetData(c) \/ SetWait(c) \/ WriteIcr(c) \/
             SeeDone(c) \/ Drained(c) \/ Unlock(c)
    <3>1. UNCHANGED <<smp_id>>
      BY <2>1 DEF SpinLock, CallSelf, IncActive, ClearDone, SetFunction,
         SetData, SetWait, WriteIcr, SeeDone, Drained, Unlock
    <3>2. QED
      BY <3>1 DEF IInv, TypeOK, IdInv
  <2>2. CASE SelfReturns(c)
    BY <2>2 DEF SelfReturns, SetupSmpId, IInv, TypeOK, IdInv
  <2>3. QED
    BY <1>4, <2>1, <2>2 DEF ProgramStep
<1>5. ASSUME NEW c \in CPU, HandlerStep(c) PROVE IdInv'
  <2>1. CASE TakeIpi(c) \/ ReadFunction(c) \/ ReadData(c) \/ ReadWait(c) \/
             DoneEarly(c) \/ DoneLate(c) \/ EoiEarly(c) \/ EoiLate(c) \/
             CallFunction(c) \/ DecActive(c)
    <3>1. UNCHANGED <<smp_id>>
      BY <2>1 DEF TakeIpi, ReadFunction, ReadData, ReadWait, DoneEarly,
         DoneLate, EoiEarly, EoiLate, CallFunction, DecActive
    <3>2. QED
      BY <3>1 DEF IInv, TypeOK, IdInv
  <2>2. CASE FunctionReturns(c)
    BY <2>2 DEF FunctionReturns, SetupSmpId, IInv, TypeOK, IdInv
  <2>3. QED
    BY <1>5, <2>1, <2>2 DEF HandlerStep
<1>6. CASE UNCHANGED vars
  BY <1>6 DEF vars, IInv, IdInv
<1>7. QED
  BY <1>1, <1>2, <1>3, <1>4, <1>5, <1>6, LastCPU
     DEF Next, Halted, OnCpu, OnCpuAsync, OnCpus
-----------------------------------------------------------------------------
(* No CPU is inside __on_cpu and nothing is counted when the program starts. *)
LEMMA InitInv == Init => IInv
<1> SUFFICES ASSUME Init PROVE IInv
  OBVIOUS
<1>1. NoCall \in Call
  BY LastCPU DEF NoCall, Call
<1>2. TypeOK
  <2>1. /\ pc \in [CPU -> ProgramLabels] /\ hpc \in [CPU -> HandlerLabels]
        /\ op \in [CPU -> Ops]
    BY DEF Init, ProgramLabels, HandlerLabels, Ops
  <2>2. active_cpus \in Nat /\ invocations \in 0 .. MaxInvocations
    BY SmpAssumption DEF Init
  <2>3. QED
    BY <1>1, <2>1, <2>2, LastCPU DEF Init, TypeOK
<1>3. LockInv /\ OwnerInv /\ SignalInv /\ HandlerInv /\ PhaseInv
  BY LastCPU DEF Init, LockInv, OwnerInv, Owns, SignalInv, HandlerInv, Copied,
     PhaseInv, Holding, Reading, Late, Unanswered
<1>4. FreshInv /\ HistoryInv
  BY DEF Init, FreshInv, HistoryInv, Preparing, Reading, Late, Unread
<1>5. CountInv
  BY FS_EmptySet DEF Init, CountInv, ActiveExact
<1>6. IdInv
  BY DEF Init, IdInv
<1>7. QED
  BY <1>2, <1>3, <1>4, <1>5, <1>6 DEF IInv

(* IInv holds in every reachable state of the cross-call library. *)
THEOREM Invariance == Spec => []IInv
<1>1. IInv /\ [Next]_vars => IInv'
  BY TypeStep, LockStep, PhaseStep, OwnerStep, SignalStep, HandlerInvStep,
     FreshStep, HistoryStep, CountStep, IdStep DEF IInv
<1>2. QED
  BY InitInv, <1>1, PTL DEF Spec

(* Every variable keeps its type; in particular atomic_dec never takes     *)
(* active_cpus below zero.                                                 *)
THEOREM TypeCorrect == Spec => []TypeOK
  BY Invariance, PTL DEF IInv

(* ipi() always runs the function, the argument and the wait mode of one   *)
(* call, made to the CPU it runs on.                                       *)
THEOREM MailboxSafe == Spec => []MailboxIntegrity
<1>1. IInv => MailboxIntegrity
  BY DEF IInv, HandlerInv, Copied, MailboxIntegrity, Late
<1>2. QED
  BY <1>1, Invariance, PTL

(* __on_cpu never raises IPI_VECTOR while it is still requested.           *)
THEOREM NoIpiLost == Spec => []NoLostIpi
<1>1. IInv => NoLostIpi
  <2> SUFFICES ASSUME IInv, NEW c \in CPU, pc[c] = "icr", irr[cpu[c]]
               PROVE  FALSE
    BY DEF NoLostIpi
  <2>1. PICK d \in CPU : pc[d] = "spin"
    BY DEF IInv, TypeOK, SignalInv, Unanswered
  <2>2. QED
    BY <2>1 DEF IInv, LockInv, Holding
<1>2. QED
  BY <1>1, Invariance, PTL

(* on_cpu returns only after the remote function has returned.             *)
THEOREM SyncSafe == Spec => []SyncCompletes
<1>1. IInv => SyncCompletes
  BY DEF IInv, OwnerInv, Owns, SyncCompletes, Holding
<1>2. QED
  BY <1>1, Invariance, PTL

(* No call's function is entered twice.                                    *)
THEOREM OnceOnly == Spec => []AtMostOnce
<1>1. IInv => AtMostOnce
  BY DEF IInv, HandlerInv, Copied, FreshInv, Unread, Preparing, AtMostOnce
<1>2. QED
  BY <1>1, Invariance, PTL

(* No handler interrupts a function that its CPU runs under ipi_lock.      *)
THEOREM NeverNested == Spec => []NoNesting
<1>1. IInv => NoNesting
  BY DEF IInv, OwnerInv, Owns, NoNesting, Holding
<1>2. QED
  BY <1>1, Invariance, PTL

(* active_cpus, which on_cpus polls, is exact.                             *)
THEOREM CountExact == Spec => []ActiveExact
  BY Invariance, PTL DEF IInv, CountInv

(* on_cpus returns only after every function it posted has returned: the   *)
(* loop on cpus_active() > 1 misses none.                                  *)
THEOREM OnCpusSafe == Spec => OnCpusCompletes
<1> DEFINE Complete ==
      \A c \in CPU : pc[c] = "drain" /\ pc'[c] = "ready" =>
        \A k \in posted : k.from = c => k \in ended
<1>1. IInv /\ [Next]_vars => [Complete]_vars
  <2> SUFFICES ASSUME IInv, Next, NEW c \in CPU, pc[c] = "drain",
                      pc'[c] = "ready", NEW k \in posted, k.from = c
               PROVE  k \in ended
    BY DEF Complete
  <2>1. Drained(c)
    <3>1. \A d \in CPU : HandlerStep(d) => pc' = pc
      BY HandlerFrame DEF program
    <3>2. \A d \in CPU : d # c /\ ProgramStep(d) => pc'[c] = pc[c]
      BY DEF ProgramStep, SpinLock, CallSelf, SelfReturns, IncActive,
         ClearDone, SetFunction, SetData, SetWait, WriteIcr, SeeDone, Unlock,
         Drained, Goto, IInv, TypeOK
    <3>3. ProgramStep(c) => Drained(c)
      BY DEF ProgramStep, SpinLock, CallSelf, SelfReturns, IncActive,
         ClearDone, SetFunction, SetData, SetWait, WriteIcr, SeeDone, Unlock,
         At
    <3>4. ~SmpInit /\ ~SmpInitCount /\ ~Halted
      BY DEF SmpInit, SmpInitCount, Halted, At, Goto, IInv, TypeOK, vars,
         program
    <3>5. \A d \in CPU : ~OnCpu(d) /\ ~OnCpuAsync(d) /\ ~OnCpus(d)
      BY DEF OnCpu, OnCpuAsync, OnCpus, Invoke, At, Goto, IInv, TypeOK
    <3>6. QED
      BY <3>1, <3>2, <3>3, <3>4, <3>5 DEF Next
  <2>2. counted = {}
    <3>1. up /\ active_cpus <= 1 /\ IsFiniteSet(counted)
      BY <2>1 DEF Drained, IInv, PhaseInv, CountInv
    <3>2. Cardinality(counted) \in Nat
      BY <3>1, FS_CardinalityType
    <3>4. Cardinality(counted) <= 0
      BY <3>1, <3>2 DEF IInv, CountInv, ActiveExact
    <3>3. QED
      BY <3>1, <3>2, <3>4, FS_EmptySet
  <2>3. QED
    BY <2>2 DEF IInv, HistoryInv, OwnerInv, Owns, Holding
<1>2. QED
  BY <1>1, Invariance, PTL DEF Spec, OnCpusCompletes, Complete
-----------------------------------------------------------------------------
(* A step that keeps the running functions and moves no CPU across the     *)
(* critical section is invisible in RemoteCall.                            *)
LEMMA Invisible ==
  ASSUME UNCHANGED <<posted, ended, cur>>, Running' = Running,
         \A c \in CPU : pc'[c] \in Holding <=> pc[c] \in Holding
  PROVE  UNCHANGED RC!vars
  BY DEF RC!vars, Returned

(* Smp implements RemoteCall: on_cpu, on_cpu_async, on_cpus and smp_init   *)
(* run every call once, on its CPU, one at a time, and let a waiting       *)
(* caller go only after its function has returned.                         *)
THEOREM Refinement == Spec => ImplementsRemoteCall
<1>1. Init => RC!Init
  BY DEF Init, RC!Init, Running, Returned
<1>2. IInv /\ IInv' /\ [Next]_vars => [RC!Next]_(RC!vars)
  <2> SUFFICES ASSUME IInv, IInv', [Next]_vars PROVE [RC!Next]_(RC!vars)
    OBVIOUS
  <2>1. CASE SmpInit \/ SmpInitCount
    <3>1. /\ UNCHANGED <<posted, ended, cur, hpc, hf>>
          /\ pc[0] \in {"boot", "count"}
          /\ \E l \in {"lock", "count", "ready"} : pc' = [pc EXCEPT ![0] = l]
      BY <2>1 DEF SmpInit, SmpInitCount, At, Goto, history, locals
    <3>2. \A d \in CPU : \/ pc'[d] = pc[d]
                         \/ d = 0 /\ pc'[d] \in {"lock", "count", "ready"}
      BY <3>1 DEF IInv, TypeOK
    <3>3. Running' = Running
      BY <3>1, <3>2 DEF Running
    <3> QED
      BY <3>1, <3>2, <3>3, Invisible DEF Holding
  <2>2. ASSUME NEW c \in CPU, NEW d \in CPU,
               NEW o \in {"on_cpu", "on_cpu_async", "on_cpus"}, Invoke(c, o, d)
        PROVE  UNCHANGED RC!vars
    <3>1. /\ UNCHANGED <<posted, ended, cur, hpc, hf>>
          /\ pc[c] = "ready" /\ pc' = [pc EXCEPT ![c] = "lock"]
      BY <2>2 DEF Invoke, At, Goto, history, locals
    <3>2. \A e \in CPU : \/ pc'[e] = pc[e]
                         \/ e = c /\ pc'[e] = "lock"
      BY <3>1 DEF IInv, TypeOK
    <3>3. Running' = Running
      BY <3>1, <3>2 DEF Running
    <3> QED
      BY <3>1, <3>2, <3>3, Invisible DEF Holding
  <2>3. ASSUME NEW c \in CPU, ProgramStep(c) PROVE [RC!Next]_(RC!vars)
    <3>1. CASE SpinLock(c)
      <4>1. /\ \A d \in CPU : pc[d] \notin Holding
            /\ cur' \notin posted /\ cur'.to \in CPU
            /\ posted' = posted \cup {cur'}
        BY <3>1, NewCall DEF SpinLock, IInv, LockInv, Call
      <4>2. pc' = [pc EXCEPT ![c] = "locked"] /\ pc'[c] = "locked"
        BY <3>1 DEF SpinLock, Goto, IInv, TypeOK
      <4>3. Returned' = Returned
        BY <4>1, <4>2 DEF Returned, Holding
      <4>4. Running' = Running
        BY <3>1, <4>1, <4>2 DEF SpinLock, locals, Running, Holding, IInv,
           TypeOK
      <4>5. RC!Post
        BY <3>1, <4>1, <4>3, <4>4 DEF SpinLock, RC!Post
      <4>6. QED
        BY <4>5 DEF RC!Next
    <3>2. CASE CallSelf(c)
      <4>1. /\ cur.to = c /\ cur \in posted /\ cur \notin ended
            /\ pc[c] = "locked" /\ hpc[c] = "none"
        <5>1. pc[c] = "locked" /\ hpc[c] = "none" /\ cpu[c] = smp_id[c]
          BY <3>2 DEF CallSelf, At
        <5>2. cpu[c] = c
          BY <5>1, LastCPU DEF IInv, TypeOK, IdInv
        <5>3. cur \in posted /\ cur.to = cpu[c]
          BY <5>1 DEF IInv, OwnerInv, Owns, Holding
        <5>4. cur \notin ended
          BY <5>1 DEF IInv, HistoryInv, FreshInv, Unread, Preparing
        <5>5. QED
          BY <5>1, <5>2, <5>3, <5>4
      <4>2. \A d \in CPU : pc[d] \in Holding => d = c
        BY <4>1 DEF IInv, LockInv, Holding
      <4>3. pc' = [pc EXCEPT ![c] = "self"]
        BY <3>2 DEF CallSelf, Goto
      <4>4. Returned' = Returned
        BY <3>2, <4>1, <4>3 DEF CallSelf, Returned, Holding, IInv, TypeOK
      <4>5. Running[c] = {} /\ Running' = [Running EXCEPT ![c] = {cur}]
        BY <3>2, <4>1, <4>2, <4>3
           DEF CallSelf, locals, Running, Holding, IInv, TypeOK
      <4>6. RC!Start(c)
        BY <3>2, <4>1, <4>4, <4>5 DEF CallSelf, RC!Start
      <4>7. QED
        BY <4>6 DEF RC!Next
    <3>3. CASE SelfReturns(c)
      <4>1. pc[c] = "self" /\ hpc[c] = "none"
        BY <3>3 DEF SelfReturns, At
      <4>2. \A d \in CPU : pc[d] \in Holding => d = c
        BY <4>1 DEF IInv, LockInv, Holding
      <4>3. pc' = [pc EXCEPT ![c] = "unlock"]
        BY <3>3 DEF SelfReturns, Goto
      <4>4. Returned' = Returned
        BY <3>3, <4>1, <4>3 DEF SelfReturns, Returned, Holding, IInv, TypeOK
      <4>5. Running[c] = {cur} /\ Running' = [Running EXCEPT ![c] = {}]
        BY <3>3, <4>1, <4>2, <4>3
           DEF SelfReturns, locals, Running, Holding, IInv, TypeOK
      <4>6. RC!Finish(c)
        BY <3>3, <4>4, <4>5 DEF SelfReturns, RC!Finish
      <4>7. QED
        BY <4>6 DEF RC!Next
    <3>4. CASE Unlock(c)
      <4>1. PICK l \in {"ready", "lock", "drain", "count"} :
              pc' = [pc EXCEPT ![c] = l]
        BY <3>4, UnlockGoes
      <4>2. pc[c] = "unlock" /\ \A d \in CPU : pc[d] \in Holding => d = c
        BY <3>4 DEF Unlock, At, IInv, LockInv, Holding
      <4>3. \A d \in CPU : pc'[d] \notin Holding
        BY <4>1, <4>2 DEF Holding, IInv, TypeOK
      <4>4. cur \in posted /\ (cur.sync => cur \in ended)
        BY <4>2 DEF IInv, OwnerInv, Owns, Holding
      <4>5. cur \notin Returned /\ Returned' = Returned \cup {cur}
        BY <3>4, <4>2, <4>3, <4>4 DEF Unlock, history, Returned, Holding
      <4>6. Running' = Running
        <5>1. UNCHANGED <<hpc, hf>>
          BY <3>4 DEF Unlock, locals
        <5>2. \A d \in CPU : pc'[d] = "self" <=> pc[d] = "self"
          BY <4>2, <4>3 DEF Holding
        <5>3. UNCHANGED cur
          BY <3>4 DEF Unlock, history
        <5> QED
          BY <5>1, <5>2, <5>3 DEF Running
      <4>7. RC!Return
        <5>1. UNCHANGED <<posted, ended>>
          BY <3>4 DEF Unlock, history
        <5> QED
          BY <4>4, <4>5, <4>6, <5>1 DEF RC!Return
      <4>8. QED
        BY <4>7 DEF RC!Next
    <3>5. CASE Drained(c)
      <4>1. /\ UNCHANGED <<posted, ended, cur, hpc, hf>>
            /\ pc[c] = "drain" /\ pc' = [pc EXCEPT ![c] = "ready"]
        BY <3>5 DEF Drained, At, Goto, history, locals
      <4>2. \A d \in CPU : \/ pc'[d] = pc[d]
                           \/ d = c /\ pc'[d] = "ready"
        BY <4>1 DEF IInv, TypeOK
      <4>3. Running' = Running
        BY <4>1, <4>2 DEF Running
      <4> QED
        BY <4>1, <4>2, <4>3, Invisible DEF Holding
    <3>6. CASE \/ IncActive(c) \/ ClearDone(c) \/ SetFunction(c) \/ SetData(c)
               \/ SetWait(c) \/ WriteIcr(c) \/ SeeDone(c)
      <4>1. /\ UNCHANGED <<posted, ended, cur, hpc, hf>>
            /\ \E l \in Holding \ {"self"} : pc' = [pc EXCEPT ![c] = l]
            /\ pc[c] \in Holding \ {"self"}
        BY <3>6 DEF IncActive, ClearDone, SetFunction, SetData, SetWait,
           WriteIcr, SeeDone, At, Goto, history, locals, Holding
      <4>2. \A d \in CPU :
              \/ pc'[d] = pc[d]
              \/ d = c /\ pc'[d] \in Holding \ {"self"}
        BY <4>1 DEF IInv, TypeOK
      <4>3. Running' = Running
        BY <4>1, <4>2 DEF Running
      <4>4. QED
        BY <4>1, <4>2, <4>3, Invisible
    <3>7. QED
      BY <2>3, <3>1, <3>2, <3>3, <3>4, <3>5, <3>6 DEF ProgramStep
  <2>4. ASSUME NEW c \in CPU, HandlerStep(c) PROVE [RC!Next]_(RC!vars)
    <3> UNCHANGED <<pc, cur, posted>>
      BY <2>4, HandlerFrame DEF program
    <3> Returned' = Returned
      BY DEF Returned
    <3>1. CASE CallFunction(c)
      <4>1. /\ hf[c].to = c /\ hf[c] \in posted /\ hf[c] \notin ended
            /\ pc[c] # "self"
        BY <3>1 DEF CallFunction, IInv, HandlerInv, Copied, HistoryInv,
           OwnerInv, Owns, Late, Holding
      <4>2. Running[c] = {} /\ Running' = [Running EXCEPT ![c] = {hf[c]}]
        BY <3>1, <4>1
           DEF CallFunction, HandlerGoto, locals, Running, IInv, TypeOK
      <4>3. RC!Start(c)
        BY <3>1, <4>1, <4>2 DEF CallFunction, RC!Start
      <4>4. QED
        BY <4>3 DEF RC!Next
    <3>2. CASE FunctionReturns(c)
      <4>1. pc[c] # "self"
        BY <3>2 DEF FunctionReturns, IInv, OwnerInv, Owns, Holding
      <4>2. Running[c] = {hf[c]} /\ Running' = [Running EXCEPT ![c] = {}]
        BY <3>2, <4>1
           DEF FunctionReturns, HandlerGoto, locals, Running, IInv, TypeOK
      <4>3. RC!Finish(c)
        BY <3>2, <4>2 DEF FunctionReturns, RC!Finish
      <4>4. QED
        BY <4>3 DEF RC!Next
    <3>3. CASE \/ TakeIpi(c) \/ ReadFunction(c) \/ ReadData(c) \/ ReadWait(c)
               \/ DoneEarly(c) \/ EoiEarly(c) \/ DecActive(c) \/ DoneLate(c)
               \/ EoiLate(c)
      <4>1. /\ UNCHANGED ended
            /\ hpc[c] # "run"
            /\ \E l \in HandlerLabels \ {"run"} : hpc' = [hpc EXCEPT ![c] = l]
            /\ \A d \in CPU : d # c => hf'[d] = hf[d]
        <5>1. hf \in [CPU -> Call] /\ ipi_wait \in BOOLEAN
          BY DEF IInv, TypeOK
        <5>2. CASE TakeIpi(c) \/ DoneEarly(c) \/ EoiEarly(c)
          BY <5>2 DEF TakeIpi, DoneEarly, EoiEarly, HandlerGoto, history,
             locals, HandlerLabels
        <5>3. CASE DoneLate(c) \/ EoiLate(c)
          BY <5>3 DEF DoneLate, EoiLate, HandlerGoto, history, locals,
             HandlerLabels
        <5>4. CASE DecActive(c)
          BY <5>4 DEF DecActive, HandlerGoto, locals, HandlerLabels
        <5>5. CASE ReadFunction(c)
          BY <5>1, <5>5 DEF ReadFunction, HandlerGoto, history, HandlerLabels
        <5>6. CASE ReadData(c) \/ ReadWait(c)
          BY <5>6 DEF ReadData, ReadWait, HandlerGoto, history,
             HandlerLabels
        <5> QED
          BY <3>3, <5>2, <5>3, <5>4, <5>5, <5>6
      <4>2. Running' = Running
        BY <4>1 DEF Running, IInv, TypeOK
      <4>3. QED
        BY <4>1, <4>2, Invisible
    <3>4. QED
      BY <2>4, <3>1, <3>2, <3>3 DEF HandlerStep
  <2>5. CASE UNCHANGED vars
    BY <2>5, Invisible DEF vars, history, program, locals, Running
  <2>6. QED
    BY <2>1, <2>2, <2>3, <2>4, <2>5, LastCPU
       DEF Next, Halted, OnCpu, OnCpuAsync, OnCpus
<1>3. QED
  BY <1>1, <1>2, Invariance, PTL DEF Spec, ImplementsRemoteCall, RC!Spec
=============================================================================
