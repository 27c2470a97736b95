------------------------------- MODULE ApBoot -------------------------------
(***************************************************************************)
(* Bringing up the application processors: smp_init and the AP entry path  *)
(* of the start files (x86/cstart64.S, x86/cstart64_hsi.S), bringup_ap,    *)
(* send_sipi, ap_record_lapicid and get_cpu_id of lib/x86/misc.c.          *)
(*                                                                         *)
(* The boot processor (BP) starts all others with INIT and STARTUP and     *)
(* spins until cpu_online_count says that they are up; later send_sipi     *)
(* resets one AP again and again.  An AP takes a stack, records its local  *)
(* APIC id unless is_all_cpu_init says that this is a later reset, counts  *)
(* itself online and enters ap_main.  A program is linked with one of the  *)
(* two start files; in cstart64_hsi.S the AP counts itself first.          *)
(*                                                                         *)
(* Every access to shared memory is a step of its own, and INIT stops an   *)
(* AP wherever it is.                                                      *)
(***************************************************************************)
EXTENDS Naturals, FiniteSets

CONSTANTS Bp,          \* local APIC id of the boot processor
          APs,         \* local APIC ids of the application processors
          StartFiles,  \* what the program may be linked with
          MaxResets    \* bound: calls of send_sipi

ASSUME ApBootAssumption ==
  /\ Bp \in Nat /\ APs \subseteq Nat /\ IsFiniteSet(APs) /\ Bp \notin APs
  /\ StartFiles \subseteq {"cstart64", "cstart64_hsi"} /\ MaxResets \in Nat

VARIABLES
  start_file,        \* the start file of this program
  lapicid_map,       \* index -> local APIC id, 0 where nothing is recorded
  recorded,          \* static local of ap_record_lapicid: next free index
  lock,              \* test-and-set word of the lock in misc.c
  cpu_online_count,  \* processors that counted themselves online
  is_all_cpu_init,   \* smp_init is done
  smp_stacktop,      \* stack slots handed out so far
  bp_pc,             \* where the boot processor stands
  cpus_cnt,          \* local of send_sipi
  count,             \* register holding the count during "-= 1"
  ap_pc,             \* per AP: where it stands
  stack,             \* per AP: its stack slot, 0 if it has none yet
  resets             \* bound counter

bpVars == <<bp_pc, cpus_cnt, count, resets>>
apVars == <<ap_pc, stack>>
bootVars == <<start_file, lapicid_map, recorded, lock, cpu_online_count,
              is_all_cpu_init, smp_stacktop, bpVars, apVars>>

(* fwcfg_get_nb_cpus, which is also the length of lapicid_map. *)
NbCpus == Cardinality(APs) + 1
Indices == 0 .. NbCpus - 1

BpLabels == {"record", "init", "sipi", "online", "allset", "main", "ss_count",
             "ss_init", "ss_sipi", "ss_wait", "ss_lock", "ss_load",
             "ss_store", "ss_unlock"}
InSendSipi == {"ss_count", "ss_init", "ss_sipi", "ss_wait", "ss_lock",
               "ss_load", "ss_store", "ss_unlock"}
ApLabels == {"off", "wfs", "entry", "stack", "check", "lock", "rec", "unlock",
             "count", "main"}

BootInit ==
  /\ start_file \in StartFiles
  /\ lapicid_map = [i \in Indices |-> 0]
  /\ recorded = 1
  /\ lock = FALSE
  /\ cpu_online_count = 1
  /\ is_all_cpu_init = FALSE
  /\ smp_stacktop = 0
  /\ bp_pc = "record"
  /\ cpus_cnt = 0 /\ count = 0
  /\ ap_pc = [p \in APs |-> "off"]
  /\ stack = [p \in APs |-> 0]
  /\ resets = 0
-----------------------------------------------------------------------------
BpGoto(from, to) == /\ bp_pc = from /\ bp_pc' = to
                    /\ UNCHANGED start_file
ApGoto(p, from, to) == /\ ap_pc[p] = from
                       /\ ap_pc' = [ap_pc EXCEPT ![p] = to]
                       /\ UNCHANGED start_file

(* What INIT and STARTUP do to the processors in dests: INIT stops them,   *)
(* STARTUP is heard only by a processor that waits for it.                 *)
InitIpi(dests) ==
  /\ ap_pc' = [p \in APs |-> IF p \in dests THEN "wfs" ELSE ap_pc[p]]
  /\ stack' = [p \in APs |-> IF p \in dests THEN 0 ELSE stack[p]]
StartupIpi(dests) ==
  ap_pc' = [p \in APs |-> IF p \in dests /\ ap_pc[p] = "wfs" THEN "entry"
                                                             ELSE ap_pc[p]]

(* smp_init up to the call of bringup_ap. *)
RecordBp ==
  /\ BpGoto("record", IF NbCpus = 1 THEN "allset" ELSE "init")
  /\ lapicid_map' = [lapicid_map EXCEPT ![0] = Bp]
  /\ UNCHANGED <<recorded, lock, cpu_online_count, is_all_cpu_init,
                 smp_stacktop, cpus_cnt, count, resets, apVars>>

(* bringup_ap. *)
BringupInit ==
  /\ BpGoto("init", "sipi")
  /\ InitIpi(APs)
  /\ UNCHANGED <<lapicid_map, recorded, lock, cpu_online_count,
                 is_all_cpu_init, smp_stacktop, cpus_cnt, count, resets>>

BringupStartup ==
  /\ BpGoto("sipi", "online")
  /\ StartupIpi(APs)
  /\ UNCHANGED <<lapicid_map, recorded, lock, cpu_online_count,
                 is_all_cpu_init, smp_stacktop, cpus_cnt, count, resets,
                 stack>>

(* Mutant: the wait is off by one. *)
BringupWaitShort ==
  /\ BpGoto("online", "allset")
  /\ cpu_online_count >= NbCpus - 1
  /\ UNCHANGED <<lapicid_map, recorded, lock, cpu_online_count,
                 is_all_cpu_init, smp_stacktop, cpus_cnt, count, resets,
                 apVars>>

BringupWait ==
  /\ BpGoto("online", "allset")
  /\ cpu_online_count >= NbCpus
  /\ UNCHANGED <<lapicid_map, recorded, lock, cpu_online_count,
                 is_all_cpu_init, smp_stacktop, cpus_cnt, count, resets,
                 apVars>>

AllCpuInit ==
  /\ BpGoto("allset", "main")
  /\ is_all_cpu_init' = TRUE
  /\ UNCHANGED <<lapicid_map, recorded, lock, cpu_online_count, smp_stacktop,
                 cpus_cnt, count, resets, apVars>>
-----------------------------------------------------------------------------
(* send_sipi, called by the boot processor from main.  The programs linked *)
(* with cstart64_hsi.S do not call it.                                     *)
SendSipi ==
  /\ start_file = "cstart64"
  /\ BpGoto("main", "ss_count")
  /\ NbCpus > 1 /\ resets < MaxResets
  /\ resets' = resets + 1
  /\ UNCHANGED <<lapicid_map, recorded, lock, cpu_online_count,
                 is_all_cpu_init, smp_stacktop, cpus_cnt, count, apVars>>

SipiCount ==
  /\ BpGoto("ss_count", "ss_init")
  /\ cpus_cnt' = cpu_online_count
  /\ UNCHANGED <<lapicid_map, recorded, lock, cpu_online_count,
                 is_all_cpu_init, smp_stacktop, count, resets, apVars>>

SipiDest == lapicid_map[NbCpus - 1]

SipiInit ==
  /\ BpGoto("ss_init", "ss_sipi")
  /\ InitIpi({SipiDest})
  /\ UNCHANGED <<lapicid_map, recorded, lock, cpu_online_count,
                 is_all_cpu_init, smp_stacktop, cpus_cnt, count, resets>>

SipiStartup ==
  /\ BpGoto("ss_sipi", "ss_wait")
  /\ StartupIpi({SipiDest})
  /\ UNCHANGED <<lapicid_map, recorded, lock, cpu_online_count,
                 is_all_cpu_init, smp_stacktop, cpus_cnt, count, resets,
                 stack>>

SipiWait ==
  /\ BpGoto("ss_wait", "ss_lock")
  /\ cpus_cnt + 1 <= cpu_online_count
  /\ UNCHANGED <<lapicid_map, recorded, lock, cpu_online_count,
                 is_all_cpu_init, smp_stacktop, cpus_cnt, count, resets,
                 apVars>>

SipiLock ==
  /\ BpGoto("ss_lock", "ss_load")
  /\ ~lock
  /\ lock' = TRUE
  /\ UNCHANGED <<lapicid_map, recorded, cpu_online_count, is_all_cpu_init,
                 smp_stacktop, cpus_cnt, count, resets, apVars>>

SipiLoad ==
  /\ BpGoto("ss_load", "ss_store")
  /\ count' = cpu_online_count
  /\ UNCHANGED <<lapicid_map, recorded, lock, cpu_online_count,
                 is_all_cpu_init, smp_stacktop, cpus_cnt, resets, apVars>>

(* Mutant: the count is not corrected. *)
SipiStoreNot ==
  /\ BpGoto("ss_store", "ss_unlock")
  /\ UNCHANGED <<lapicid_map, recorded, lock, cpu_online_count,
                 is_all_cpu_init, smp_stacktop, cpus_cnt, count, resets,
                 apVars>>

SipiStore ==
  /\ BpGoto("ss_store", "ss_unlock")
  /\ cpu_online_count' = count - 1
  /\ UNCHANGED <<lapicid_map, recorded, lock, is_all_cpu_init, smp_stacktop,
                 cpus_cnt, count, resets, apVars>>

(* Mutant: the lock is not released. *)
SipiUnlockNot ==
  /\ BpGoto("ss_unlock", "main")
  /\ UNCHANGED <<lapicid_map, recorded, lock, cpu_online_count,
                 is_all_cpu_init, smp_stacktop, cpus_cnt, count, resets,
                 apVars>>

SipiUnlock ==
  /\ BpGoto("ss_unlock", "main")
  /\ lock' = FALSE
  /\ UNCHANGED <<lapicid_map, recorded, cpu_online_count, is_all_cpu_init,
                 smp_stacktop, cpus_cnt, count, resets, apVars>>
-----------------------------------------------------------------------------
(* The AP entry path. *)
CountFirst  == start_file = "cstart64_hsi"
AfterEntry  == IF CountFirst THEN "count" ELSE "stack"
AfterRecord == IF CountFirst THEN "main" ELSE "count"
AfterCount  == IF CountFirst THEN "stack" ELSE "main"

(* sipi_entry: the switch out of real mode. *)
SipiEntry(p) ==
  /\ ApGoto(p, "entry", AfterEntry)
  /\ UNCHANGED <<lapicid_map, recorded, lock, cpu_online_count,
                 is_all_cpu_init, smp_stacktop, stack, bpVars>>

(* Mutant: the exchange does not move the top. *)
TakeStackSame(p) ==
  /\ ApGoto(p, "stack", "check")
  /\ stack' = [stack EXCEPT ![p] = smp_stacktop + 1]
  /\ UNCHANGED <<lapicid_map, recorded, lock, cpu_online_count,
                 is_all_cpu_init, smp_stacktop, bpVars>>

(* lock/xaddl %esp, smp_stacktop *)
TakeStack(p) ==
  /\ ApGoto(p, "stack", "check")
  /\ smp_stacktop' = smp_stacktop + 1
  /\ stack' = [stack EXCEPT ![p] = smp_stacktop + 1]
  /\ UNCHANGED <<lapicid_map, recorded, lock, cpu_online_count,
                 is_all_cpu_init, bpVars>>

(* cmpb $1, is_all_cpu_init *)
CheckAllInit(p) ==
  /\ ApGoto(p, "check", IF is_all_cpu_init THEN AfterRecord ELSE "lock")
  /\ UNCHANGED <<lapicid_map, recorded, lock, cpu_online_count,
                 is_all_cpu_init, smp_stacktop, stack, bpVars>>

(* Mutant: a taken lock does not stop the AP. *)
RecordLockNot(p) ==
  /\ ApGoto(p, "lock", "rec")
  /\ lock' = TRUE
  /\ UNCHANGED <<lapicid_map, recorded, cpu_online_count, is_all_cpu_init,
                 smp_stacktop, stack, bpVars>>

(* ap_record_lapicid. *)
RecordLock(p) ==
  /\ ApGoto(p, "lock", "rec")
  /\ ~lock
  /\ lock' = TRUE
  /\ UNCHANGED <<lapicid_map, recorded, cpu_online_count, is_all_cpu_init,
                 smp_stacktop, stack, bpVars>>

RecordId(p) ==
  /\ ApGoto(p, "rec", "unlock")
  /\ IF recorded < NbCpus
       THEN /\ lapicid_map' = [lapicid_map EXCEPT ![recorded] = p]
            /\ recorded' = recorded + 1
       ELSE UNCHANGED <<lapicid_map, recorded>>
  /\ UNCHANGED <<lock, cpu_online_count, is_all_cpu_init, smp_stacktop, stack,
                 bpVars>>

RecordUnlock(p) ==
  /\ ApGoto(p, "unlock", AfterRecord)
  /\ lock' = FALSE
  /\ UNCHANGED <<lapicid_map, recorded, cpu_online_count, is_all_cpu_init,
                 smp_stacktop, stack, bpVars>>

(* Mutant: only the first AP counts. *)
CountOnlineOnce(p) ==
  /\ ApGoto(p, "count", AfterCount)
  /\ cpu_online_count' = 2
  /\ UNCHANGED <<lapicid_map, recorded, lock, is_all_cpu_init, smp_stacktop,
                 stack, bpVars>>

(* lock incw cpu_online_count *)
CountOnline(p) ==
  /\ ApGoto(p, "count", AfterCount)
  /\ cpu_online_count' = cpu_online_count + 1
  /\ UNCHANGED <<lapicid_map, recorded, lock, is_all_cpu_init, smp_stacktop,
                 stack, bpVars>>
-----------------------------------------------------------------------------
BringUp == RecordBp \/ BringupInit \/ BringupStartup \/ BringupWait
           \/ AllCpuInit
SendSipiSteps == SipiCount \/ SipiStartup \/ SipiWait \/ SipiLock \/ SipiLoad
                 \/ SipiStore \/ SipiUnlock
ApSteps(p) == SipiEntry(p) \/ TakeStack(p) \/ CheckAllInit(p)
              \/ RecordLock(p) \/ RecordId(p) \/ RecordUnlock(p)
              \/ CountOnline(p)

(* The loops of the boot processor: bringup_ap and send_sipi wait in a     *)
(* loop of nops, spin_lock in a loop of exchanges, and main ends in one.   *)
Looping == /\ bp_pc \in {"online", "ss_wait", "ss_lock", "main"}
           /\ UNCHANGED bootVars

BootNext == BringUp \/ SendSipi \/ SipiInit \/ SendSipiSteps
            \/ (\E p \in APs : ApSteps(p)) \/ Looping

(* Each processor executes its next instruction eventually; a spin lock    *)
(* that is free infinitely often is won eventually.                        *)
BootFairness == /\ WF_bootVars(BringUp \/ SipiInit \/ SendSipiSteps)
                /\ SF_bootVars(SipiLock)
                /\ \A p \in APs : WF_bootVars(ApSteps(p))
                                  /\ SF_bootVars(RecordLock(p))

BootSpec == BootInit /\ [][BootNext]_bootVars /\ BootFairness
-----------------------------------------------------------------------------
(* The stacks handed out by the atomic exchange on smp_stacktop are        *)
(* private: no two processors run on the same one, also after resets.      *)
StacksDisjoint ==
  \A p, q \in APs : p # q /\ stack[p] # 0 => stack[p] # stack[q]

(* get_cpu_id: the first index of lapicid_map that holds the id, NbCpus    *)
(* standing for the code's -1.                                             *)
CpuId(id) ==
  IF \E i \in Indices : lapicid_map[i] = id
    THEN CHOOSE i \in Indices : /\ lapicid_map[i] = id
                                /\ \A j \in 0 .. i - 1 : lapicid_map[j] # id
    ELSE NbCpus

(* Once smp_init of cstart64.S is done every processor has recorded its id *)
(* exactly once, so get_cpu_id numbers the processors 0 .. NbCpus - 1, the *)
(* BP being 0.                                                             *)
MapComplete ==
  is_all_cpu_init /\ start_file = "cstart64" =>
    CpuId(Bp) = 0 /\ {CpuId(p) : p \in APs} = Indices \ {0}

(* A reset never renumbers a processor: after smp_init of cstart64.S the   *)
(* map is fixed.                                                           *)
MapStable ==
  [][is_all_cpu_init /\ start_file = "cstart64" =>
       UNCHANGED <<lapicid_map, recorded>>]_bootVars

(* Whenever the test program on the BP is outside send_sipi the count says *)
(* that all processors are online, neither more nor fewer.                 *)
OnlineExact ==
  bp_pc \in {"allset", "main"} => cpu_online_count = NbCpus

(* INIT never stops an AP that holds the lock of misc.c: the lock is held  *)
(* exactly while some processor stands inside the critical section.        *)
LockOwned ==
  lock <=> \/ bp_pc \in {"ss_load", "ss_store", "ss_unlock"}
           \/ \E p \in APs : ap_pc[p] \in {"rec", "unlock"}

(* The BP comes back to main from smp_init and from every send_sipi: the   *)
(* APs it waits for come to be counted, and the lock of misc.c is free     *)
(* when it wants it.                                                       *)
BackInMain == []<>(bp_pc = "main")

(* The comment in ap_main of hsi_16_64_cpumode.c has the test run on AP 1: *)
(* of the APs that have entered ap_main, one has the number 1.             *)
Ap1Exists ==
  (\A p \in APs : ap_pc[p] = "main") => \E p \in APs : CpuId(p) = 1
=============================================================================
