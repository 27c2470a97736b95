---------------------------- MODULE ApBootProofs ----------------------------
(***************************************************************************)
(* Proofs about ApBoot: for any number of APs and of resets the stacks are *)
(* private, the lock of misc.c is held exactly while a processor stands    *)
(* between lock and unlock, the online count is right whenever the test    *)
(* program runs, and with cstart64.S the map of local APIC ids is complete *)
(* and fixed.                                                              *)
(*                                                                         *)
(* The theorems are about BootRuns, the safety part of BootSpec.  The test *)
(* programs on top of the boot protocol are shown to run it, so what is    *)
(* proved here holds of them (InitValueProofs, UnchangedProofs).           *)
(***************************************************************************)
EXTENDS ApBoot, FiniteSetTheorems, TLAPS

(* The values the variables range over. *)
BootTypes ==
  /\ start_file \in {"cstart64", "cstart64_hsi"}
  /\ lapicid_map \in [Indices -> Nat] /\ recorded \in Nat \ {0}
  /\ lock \in BOOLEAN /\ is_all_cpu_init \in BOOLEAN
  /\ cpu_online_count \in Nat /\ smp_stacktop \in Nat
  /\ bp_pc \in BpLabels /\ cpus_cnt \in Nat /\ count \in Nat
  /\ ap_pc \in [APs -> ApLabels] /\ stack \in [APs -> Nat]

(* Every stack in use was handed out, and to one AP only. *)
StackInv ==
  /\ \A p \in APs : stack[p] <= smp_stacktop
  /\ StacksDisjoint

(* Where an AP stands once it has counted itself during bring-up. *)
CountedAt == IF CountFirst
               THEN {"stack", "check", "lock", "rec", "unlock", "main"}
               ELSE {"main"}
Counted == {p \in APs : ap_pc[p] \in CountedAt}
Starting == bp_pc \in {"record", "init", "sipi", "online"}
AllMain == \A p \in APs : ap_pc[p] = "main"

(* Where the APs are, and what the count is, at each place of the BP. *)
PhaseInv ==
  /\ Starting => /\ ~is_all_cpu_init
                 /\ cpu_online_count = Cardinality(Counted) + 1
  /\ bp_pc \in {"record", "init", "sipi"} =>
       \A p \in APs : ap_pc[p] \in {"off", "wfs"}
  /\ bp_pc \in {"allset", "main"} => Counted = APs /\ cpu_online_count = NbCpus
  /\ ~Starting /\ bp_pc # "allset" => is_all_cpu_init
  /\ bp_pc \in InSendSipi => ~CountFirst
  /\ bp_pc \in {"ss_count", "ss_init", "ss_unlock"} =>
       AllMain /\ cpu_online_count = NbCpus
  /\ bp_pc \in {"ss_lock", "ss_load", "ss_store"} =>
       AllMain /\ cpu_online_count = NbCpus + 1
  /\ bp_pc \in {"ss_init", "ss_sipi", "ss_wait"} => cpus_cnt = NbCpus
  /\ bp_pc = "ss_store" => count = NbCpus + 1
  /\ bp_pc = "ss_sipi" =>
       /\ cpu_online_count = NbCpus
       /\ \A p \in APs : ap_pc[p] = IF p = SipiDest THEN "wfs" ELSE "main"
  /\ bp_pc = "ss_wait" =>
       \/ /\ cpu_online_count = NbCpus
          /\ \A p \in APs :
               IF p = SipiDest
                 THEN ap_pc[p] \in {"entry", "stack", "check", "count"}
                 ELSE ap_pc[p] = "main"
       \/ AllMain /\ cpu_online_count = NbCpus + 1

(* At most one AP stands between lock and unlock. *)
LockInv ==
  /\ LockOwned
  /\ \A p, q \in APs :
       ap_pc[p] \in {"rec", "unlock"} /\ ap_pc[q] \in {"rec", "unlock"} => p = q

(* With cstart64.S: lapicid_map numbers the APs that have recorded their   *)
(* ids 1 .. recorded - 1, one to one.                                      *)
Recorded ==
  IF Starting THEN {p \in APs : ap_pc[p] \in {"unlock", "count", "main"}}
              ELSE APs
MapInv ==
  /\ bp_pc # "record" => lapicid_map[0] = Bp
  /\ ~CountFirst =>
       /\ recorded = Cardinality(Recorded) + 1
       /\ \A p \in Recorded : \E i \in 1 .. recorded - 1 : lapicid_map[i] = p
       /\ \A i \in 1 .. recorded - 1 : lapicid_map[i] \in Recorded
       /\ \A i, j \in 1 .. recorded - 1 :
            lapicid_map[i] = lapicid_map[j] => i = j

BootInv == BootTypes /\ StackInv /\ PhaseInv /\ LockInv /\ MapInv
-----------------------------------------------------------------------------
LEMMA NbCpusNat == NbCpus \in Nat /\ NbCpus >= 1 /\ Cardinality(APs) \in Nat
  BY FS_CardinalityType, ApBootAssumption DEF NbCpus

(* The steps of the BP, and those of the AP p, for the proofs by cases. *)
BpStep == \/ RecordBp \/ BringupInit \/ BringupStartup \/ BringupWait
          \/ AllCpuInit \/ SendSipi \/ SipiInit \/ SipiCount \/ SipiStartup
          \/ SipiWait \/ SipiLock \/ SipiLoad \/ SipiStore \/ SipiUnlock

LEMMA BootSteps ==
  ASSUME [BootNext]_bootVars
  PROVE  BpStep \/ (\E p \in APs : ApSteps(p)) \/ UNCHANGED bootVars
  BY DEF BootNext, BringUp, SendSipiSteps, Looping, BpStep

(* The variables keep their types. *)
LEMMA TypesStep ==
  ASSUME BootTypes, PhaseInv, [BootNext]_bootVars
  PROVE  BootTypes'
<1> USE NbCpusNat DEF BootTypes, BpLabels, ApLabels, BpGoto, ApGoto, bpVars,
                      apVars, Indices
<1>1. CASE BpStep
  <2>1. CASE RecordBp
    BY <2>1, ApBootAssumption DEF RecordBp
  <2>2. CASE BringupInit \/ SipiInit
    BY <2>2 DEF BringupInit, SipiInit, InitIpi
  <2>3. CASE BringupStartup \/ SipiStartup
    BY <2>3 DEF BringupStartup, SipiStartup, StartupIpi
  <2>4. CASE BringupWait \/ AllCpuInit \/ SendSipi \/ SipiCount \/ SipiWait
    BY <2>4 DEF BringupWait, AllCpuInit, SendSipi, SipiCount, SipiWait
  <2>5. CASE SipiLock \/ SipiLoad \/ SipiUnlock
    BY <2>5 DEF SipiLock, SipiLoad, SipiUnlock
  <2>6. CASE SipiStore
    BY <2>6 DEF SipiStore, PhaseInv
  <2> QED
    BY <1>1, <2>1, <2>2, <2>3, <2>4, <2>5, <2>6 DEF BpStep
<1>2. ASSUME NEW p \in APs, ApSteps(p)
      PROVE  BootTypes'
  <2>1. CASE SipiEntry(p)
    BY <2>1 DEF SipiEntry, AfterEntry, CountFirst
  <2>5. CASE CountOnline(p)
    <3>1. ap_pc' \in [APs -> ApLabels]
      BY <2>5 DEF CountOnline, AfterCount, CountFirst
    <3>2. /\ cpu_online_count' \in Nat
          /\ UNCHANGED <<start_file, lapicid_map, recorded, lock,
                        is_all_cpu_init, smp_stacktop, bp_pc, cpus_cnt, count,
                        stack>>
      BY <2>5 DEF CountOnline
    <3> QED
      BY <3>1, <3>2
  <2>2. CASE CheckAllInit(p) \/ RecordLock(p)
    BY <2>2 DEF CheckAllInit, RecordLock, AfterRecord
  <2>7. CASE RecordUnlock(p)
    BY <2>7 DEF RecordUnlock, AfterRecord
  <2>4. CASE TakeStack(p)
    BY <2>4 DEF TakeStack
  <2>3. CASE RecordId(p)
    BY <2>3, ApBootAssumption DEF RecordId
  <2> QED
    BY <1>2, <2>1, <2>2, <2>3, <2>4, <2>5, <2>7 DEF ApSteps
<1>3. CASE UNCHANGED bootVars
  BY <1>3 DEF bootVars
<1> QED
  BY <1>1, <1>2, <1>3, BootSteps

(* The exchange on smp_stacktop hands out a slot above all others. *)
LEMMA StackStep ==
  ASSUME BootTypes, StackInv, [BootNext]_bootVars
  PROVE  StackInv'
<1> USE DEF BootTypes, StackInv, StacksDisjoint, BpGoto, ApGoto, bpVars, apVars
<1>1. CASE BpStep
  <2>1. CASE BringupInit \/ SipiInit
    BY <2>1 DEF BringupInit, SipiInit, InitIpi
  <2>2. CASE UNCHANGED <<stack, smp_stacktop>>
    BY <2>2
  <2>3. BpStep => BringupInit \/ SipiInit \/ UNCHANGED <<stack, smp_stacktop>>
    BY DEF BpStep, RecordBp, BringupStartup, BringupWait, AllCpuInit, SendSipi,
           SipiCount, SipiStartup, SipiWait, SipiLock, SipiLoad, SipiStore,
           SipiUnlock
  <2> QED
    BY <1>1, <2>1, <2>2, <2>3
<1>2. ASSUME NEW p \in APs, ApSteps(p)
      PROVE  StackInv'
  <2>1. CASE TakeStack(p)
    BY <2>1 DEF TakeStack
  <2>2. CASE UNCHANGED <<stack, smp_stacktop>>
    BY <2>2
  <2>3. ApSteps(p) => TakeStack(p) \/ UNCHANGED <<stack, smp_stacktop>>
    BY DEF ApSteps, SipiEntry, CheckAllInit, RecordLock, RecordId,
           RecordUnlock, CountOnline
  <2> QED
    BY <1>2, <2>1, <2>2, <2>3
<1>3. CASE UNCHANGED bootVars
  BY <1>3 DEF bootVars
<1> QED
  BY <1>1, <1>2, <1>3, BootSteps
-----------------------------------------------------------------------------
LEMMA ApCard ==
  ASSUME NEW S \in SUBSET APs
  PROVE  /\ Cardinality(S) \in Nat /\ Cardinality(S) <= Cardinality(APs)
         /\ Cardinality(S) = Cardinality(APs) => S = APs
         /\ \A x : x \notin S => Cardinality(S \cup {x}) = Cardinality(S) + 1
         /\ S = {} => Cardinality(S) = 0
<1>1. IsFiniteSet(S) /\ Cardinality(S) <= Cardinality(APs)
      /\ (Cardinality(APs) = Cardinality(S) => APs = S)
  BY FS_Subset, ApBootAssumption
<1> QED
  BY <1>1, FS_CardinalityType, FS_AddElement, FS_EmptySet

(* The places of the APs, and the count, after a step of the BP. *)
LEMMA BpPhase ==
  ASSUME BootTypes, PhaseInv, BpStep
  PROVE  PhaseInv'
<1> USE NbCpusNat DEF BootTypes, PhaseInv, BpGoto, bpVars, apVars, Starting,
                      InSendSipi, AllMain, SipiDest
<1>a. Counted \in SUBSET APs
  BY DEF Counted
<1>1. CASE RecordBp
  <2>1. Counted' = Counted /\ CountFirst' = CountFirst
    BY <1>1 DEF RecordBp, Counted, CountedAt, CountFirst
  <2>2. NbCpus = 1 => Counted = APs
    BY <1>a, ApCard DEF NbCpus
  <2> QED
    BY <1>1, <2>1, <2>2 DEF RecordBp, NbCpus
<1>2. CASE BringupInit
  <2>1. Counted = {} /\ Counted' = {} /\ CountFirst' = CountFirst
    BY <1>2 DEF BringupInit, InitIpi, Counted, CountedAt, CountFirst
  <2> QED
    BY <1>2, <2>1 DEF BringupInit, InitIpi
<1>3. CASE BringupStartup
  <2>1. Counted = {} /\ Counted' = {} /\ CountFirst' = CountFirst
    BY <1>3 DEF BringupStartup, StartupIpi, Counted, CountedAt, CountFirst
  <2> QED
    BY <1>3, <2>1 DEF BringupStartup, StartupIpi
<1>4. CASE BringupWait
  <2>1. Counted' = Counted /\ CountFirst' = CountFirst
    BY <1>4 DEF BringupWait, Counted, CountedAt, CountFirst
  <2>2. Counted = APs /\ cpu_online_count = NbCpus
    BY <1>4, <1>a, ApCard DEF BringupWait, NbCpus
  <2> QED
    BY <1>4, <2>1, <2>2 DEF BringupWait
<1>5. CASE AllCpuInit
  <2>1. Counted' = Counted /\ CountFirst' = CountFirst
    BY <1>5 DEF AllCpuInit, Counted, CountedAt, CountFirst
  <2> QED
    BY <1>5, <2>1 DEF AllCpuInit
<1>6. CASE SendSipi
  <2>1. CountFirst' = CountFirst /\ ~CountFirst
    BY <1>6 DEF SendSipi, CountFirst
  <2>2. AllMain
    BY <1>6, <2>1 DEF SendSipi, Counted, CountedAt
  <2> QED
    BY <1>6, <2>1, <2>2 DEF SendSipi
<1>7. CASE SipiCount \/ SipiWait \/ SipiLock \/ SipiLoad \/ SipiStore
  BY <1>7 DEF SipiCount, SipiWait, SipiLock, SipiLoad, SipiStore, CountFirst
<1>8. CASE SipiInit
  BY <1>8 DEF SipiInit, InitIpi, CountFirst
<1>9. CASE SipiStartup
  BY <1>9 DEF SipiStartup, StartupIpi, CountFirst
<1>10. CASE SipiUnlock
  <2>1. Counted' = APs
    BY <1>10 DEF SipiUnlock, Counted, CountedAt
  <2> QED
    BY <1>10, <2>1 DEF SipiUnlock, CountFirst
<1> QED
  BY <1>1, <1>2, <1>3, <1>4, <1>5, <1>6, <1>7, <1>8, <1>9, <1>10 DEF BpStep

(* Only the increment changes who is counted. *)
LEMMA ApCounted ==
  ASSUME BootTypes, NEW p \in APs, ApSteps(p)
  PROVE  \/ CountOnline(p) /\ p \notin Counted /\ Counted' = Counted \cup {p}
         \/ ~CountOnline(p) /\ Counted' = Counted
            /\ UNCHANGED cpu_online_count
<1> USE DEF BootTypes, ApGoto, Counted, CountedAt, CountFirst
<1>1. CASE CountOnline(p)
  BY <1>1 DEF CountOnline, AfterCount
<1>2. CASE SipiEntry(p) \/ TakeStack(p)
  BY <1>2 DEF SipiEntry, TakeStack, CountOnline, AfterEntry
<1>3. CASE CheckAllInit(p) \/ RecordUnlock(p)
  BY <1>3 DEF CheckAllInit, RecordUnlock, CountOnline, AfterRecord
<1>4. CASE RecordLock(p) \/ RecordId(p)
  BY <1>4 DEF RecordLock, RecordId, CountOnline
<1> QED
  BY <1>1, <1>2, <1>3, <1>4 DEF ApSteps

(* The places of the APs, and the count, after a step of an AP. *)
LEMMA ApPhase ==
  ASSUME BootTypes, PhaseInv, NEW p \in APs, ApSteps(p)
  PROVE  PhaseInv'
<1> USE NbCpusNat DEF BootTypes, BpLabels
<1>1. /\ UNCHANGED <<start_file, is_all_cpu_init, bpVars>>
      /\ ap_pc[p] \in {"entry", "stack", "check", "lock", "rec", "unlock",
                       "count"}
  BY DEF ApSteps, SipiEntry, TakeStack, CheckAllInit, RecordLock, RecordId,
         RecordUnlock, CountOnline, ApGoto
<1>2. CASE Starting
  <2>1. bp_pc = "online"
    BY <1>1, <1>2 DEF Starting, PhaseInv
  <2>2. Counted \in SUBSET APs
    BY DEF Counted
  <2>3. cpu_online_count' = Cardinality(Counted') + 1
    <3>1. CASE CountOnline(p)
      BY <1>2, <2>2, <3>1, ApCounted, ApCard DEF CountOnline, PhaseInv
    <3>2. CASE ~CountOnline(p)
      BY <1>2, <3>2, ApCounted DEF PhaseInv
    <3> QED
      BY <3>1, <3>2
  <2> QED
    BY <1>1, <1>2, <2>1, <2>3 DEF PhaseInv, Starting, InSendSipi, bpVars
<1>3. CASE bp_pc \in {"allset", "main"}
  <2>1. Counted' = Counted /\ UNCHANGED cpu_online_count
    BY <1>3, ApCounted DEF PhaseInv
  <2> QED
    BY <1>1, <1>3, <2>1 DEF PhaseInv, Starting, InSendSipi, bpVars
<1>4. CASE bp_pc \in InSendSipi
  <2>1. /\ bp_pc = "ss_wait" /\ cpu_online_count = NbCpus /\ p = SipiDest
        /\ ap_pc[p] \in {"entry", "stack", "check", "count"}
        /\ \A q \in APs : q # p => ap_pc[q] = "main"
        /\ ~CountFirst /\ is_all_cpu_init
    BY <1>1, <1>4 DEF PhaseInv, InSendSipi, AllMain, Starting
  <2>2. /\ UNCHANGED lapicid_map
        /\ \/ /\ ap_pc' = [ap_pc EXCEPT ![p] = "main"]
              /\ cpu_online_count' = NbCpus + 1
           \/ /\ \E l \in {"stack", "check", "count"} :
                   ap_pc' = [ap_pc EXCEPT ![p] = l]
              /\ cpu_online_count' = NbCpus
    <3>1. CASE SipiEntry(p) \/ TakeStack(p)
      BY <2>1, <3>1 DEF SipiEntry, TakeStack, ApGoto, AfterEntry
    <3>2. CASE CheckAllInit(p) \/ CountOnline(p)
      BY <2>1, <3>2 DEF CheckAllInit, CountOnline, ApGoto, AfterRecord,
                        AfterCount
    <3>3. CASE RecordLock(p) \/ RecordId(p) \/ RecordUnlock(p)
      BY <2>1, <3>3 DEF RecordLock, RecordId, RecordUnlock, ApGoto
    <3> QED
      BY <3>1, <3>2, <3>3 DEF ApSteps
  <2> QED
    BY <1>1, <2>1, <2>2 DEF PhaseInv, Starting, InSendSipi, AllMain, SipiDest,
                            CountFirst, bpVars
<1> QED
  BY <1>2, <1>3, <1>4 DEF Starting, InSendSipi
-----------------------------------------------------------------------------
(* The lock of misc.c: INIT stops only APs that are in ap_main or have not *)
(* started, and a processor takes the lock only when no other holds it.    *)
LEMMA LockStep ==
  ASSUME BootTypes, PhaseInv, LockInv, [BootNext]_bootVars
  PROVE  LockInv'
<1> DEFINE In(p) == ap_pc[p] \in {"rec", "unlock"}
<1> USE DEF BootTypes, LockInv, LockOwned, BpGoto, ApGoto, bpVars, apVars
<1>1. CASE BpStep
  <2>1. CASE BringupInit \/ SipiInit
    <3>1. \A p \in APs : ~In(p)
      BY <2>1 DEF BringupInit, SipiInit, PhaseInv, AllMain
    <3> QED
      BY <2>1, <3>1 DEF BringupInit, SipiInit, InitIpi
  <2>2. CASE BringupStartup \/ SipiStartup
    BY <2>2 DEF BringupStartup, SipiStartup, StartupIpi
  <2>3. CASE RecordBp \/ BringupWait \/ AllCpuInit \/ SendSipi
    BY <2>3 DEF RecordBp, BringupWait, AllCpuInit, SendSipi
  <2>4. CASE SipiCount \/ SipiWait \/ SipiLoad \/ SipiStore
    BY <2>4 DEF SipiCount, SipiWait, SipiLoad, SipiStore
  <2>5. CASE SipiLock \/ SipiUnlock
    <3>1. \A p \in APs : ~In(p)
      BY <2>5 DEF SipiLock, SipiUnlock, PhaseInv, AllMain
    <3> QED
      BY <2>5, <3>1 DEF SipiLock, SipiUnlock
  <2> QED
    BY <1>1, <2>1, <2>2, <2>3, <2>4, <2>5 DEF BpStep
<1>2. ASSUME NEW p \in APs, ApSteps(p)
      PROVE  LockInv'
  <2>1. CASE RecordLock(p)
    BY <2>1 DEF RecordLock
  <2>2. CASE RecordUnlock(p)
    <3>1. bp_pc \notin {"ss_load", "ss_store", "ss_unlock"}
      BY <2>2 DEF RecordUnlock, PhaseInv, AllMain
    <3> QED
      BY <2>2, <3>1 DEF RecordUnlock, AfterRecord
  <2>3. CASE RecordId(p)
    BY <2>3 DEF RecordId
  <2>4. CASE SipiEntry(p) \/ TakeStack(p) \/ CheckAllInit(p) \/ CountOnline(p)
    BY <2>4 DEF SipiEntry, TakeStack, CheckAllInit, CountOnline, AfterEntry,
                AfterRecord, AfterCount
  <2> QED
    BY <1>2, <2>1, <2>2, <2>3, <2>4 DEF ApSteps
<1>3. CASE UNCHANGED bootVars
  BY <1>3 DEF bootVars
<1> QED
  BY <1>1, <1>2, <1>3, BootSteps

(* With cstart64.S no AP comes to ap_record_lapicid once the BP has left   *)
(* bringup_ap.                                                             *)
LEMMA NoLateRecord ==
  ASSUME BootTypes, PhaseInv, ~Starting, ~CountFirst, NEW p \in APs
  PROVE  ap_pc[p] \notin {"lock", "rec", "unlock"}
  BY DEF BootTypes, BpLabels, PhaseInv, Starting, Counted, CountedAt, AllMain

(* The BP writes only its own entry of lapicid_map, and leaves bringup_ap  *)
(* only when every AP has recorded its id.                                 *)
LEMMA BpMap ==
  ASSUME BootTypes, PhaseInv, MapInv, BpStep
  PROVE  MapInv'
<1> USE NbCpusNat DEF BootTypes, BpGoto, bpVars, apVars
<1>1. CountFirst' = CountFirst /\ UNCHANGED recorded
  BY DEF BpStep, RecordBp, BringupInit, BringupStartup, BringupWait,
         AllCpuInit, SendSipi, SipiInit, SipiCount, SipiStartup, SipiWait,
         SipiLock, SipiLoad, SipiStore, SipiUnlock, CountFirst
<1>2. /\ \A i \in Indices \ {0} : lapicid_map'[i] = lapicid_map[i]
      /\ bp_pc' # "record" /\ lapicid_map'[0] = Bp
  <2>1. CASE RecordBp
    BY <2>1 DEF RecordBp, Indices
  <2>2. CASE ~RecordBp
    BY <2>2 DEF BpStep, BringupInit, BringupStartup, BringupWait, AllCpuInit,
         SendSipi, SipiInit, SipiCount, SipiStartup, SipiWait, SipiLock,
         SipiLoad, SipiStore, SipiUnlock, MapInv
  <2> QED
    BY <2>1, <2>2
<1>3. ASSUME ~CountFirst
      PROVE  Recorded' = Recorded
  <2>1. CASE RecordBp
    <3>1. NbCpus = 1 => APs = {}
      BY FS_EmptySet, ApBootAssumption DEF NbCpus
    <3> QED
      BY <2>1, <3>1 DEF RecordBp, Recorded, Starting
  <2>2. CASE BringupInit
    BY <2>2 DEF BringupInit, InitIpi, Recorded, Starting, PhaseInv
  <2>3. CASE BringupStartup
    BY <2>3 DEF BringupStartup, StartupIpi, Recorded, Starting, PhaseInv
  <2>4. CASE BringupWait
    <3>1. PhaseInv'
      BY BpPhase
    <3>2. Counted' = APs
      BY <2>4, <3>1 DEF BringupWait, PhaseInv
    <3>3. \A p \in APs : ap_pc[p] = "main"
      BY <1>1, <1>3, <2>4, <3>2 DEF BringupWait, Counted, CountedAt
    <3> QED
      BY <2>4, <3>3 DEF BringupWait, Recorded, Starting
  <2>5. CASE BpStep /\ bp_pc \notin {"record", "init", "sipi", "online"}
    <3>1. ~Starting /\ ~Starting'
      BY <2>5 DEF BpStep, RecordBp, BringupInit, BringupStartup, BringupWait,
         AllCpuInit, SendSipi, SipiInit, SipiCount, SipiStartup, SipiWait,
         SipiLock, SipiLoad, SipiStore, SipiUnlock, Starting
    <3> QED
      BY <3>1 DEF Recorded
  <2>6. \/ RecordBp \/ BringupInit \/ BringupStartup \/ BringupWait
        \/ bp_pc \notin {"record", "init", "sipi", "online"}
    BY DEF BpStep, AllCpuInit, SendSipi, SipiInit, SipiCount, SipiStartup,
           SipiWait, SipiLock, SipiLoad, SipiStore, SipiUnlock
  <2> QED
    BY <2>1, <2>2, <2>3, <2>4, <2>5, <2>6
<1>4. ASSUME ~CountFirst
      PROVE  1 .. recorded - 1 \subseteq Indices \ {0}
  <2>1. Recorded \in SUBSET APs
    BY DEF Recorded
  <2>2. recorded - 1 <= Cardinality(APs)
    BY <1>4, <2>1, ApCard DEF MapInv
  <2> QED
    BY <2>2 DEF Indices, NbCpus
<1> QED
  BY <1>1, <1>2, <1>3, <1>4 DEF MapInv

(* An AP appends its id, once, while there is room for it. *)
LEMMA ApMap ==
  ASSUME BootTypes, PhaseInv, MapInv, NEW p \in APs, ApSteps(p)
  PROVE  MapInv'
<1> USE NbCpusNat DEF BootTypes, ApGoto
<1>1. CountFirst' = CountFirst /\ UNCHANGED bp_pc /\ Starting' = Starting
  BY DEF ApSteps, SipiEntry, TakeStack, CheckAllInit, RecordLock, RecordId,
         RecordUnlock, CountOnline, CountFirst, bpVars, Starting
<1>2. CASE RecordId(p) /\ CountFirst
  <2>1. lapicid_map'[0] = lapicid_map[0]
    BY <1>2 DEF RecordId, Indices
  <2> QED
    BY <1>1, <1>2, <2>1 DEF MapInv
<1>3. CASE RecordId(p) /\ ~CountFirst
  <2>1. Starting
    BY <1>3, NoLateRecord DEF RecordId
  <2>2. /\ Recorded \in SUBSET APs /\ p \notin Recorded
        /\ Recorded' = Recorded \cup {p}
    BY <1>1, <1>3, <2>1 DEF RecordId, Recorded
  <2>3. Cardinality(Recorded) < Cardinality(APs)
    BY <2>2, ApCard
  <2>4. Cardinality(Recorded') = Cardinality(Recorded) + 1
    BY <2>2, ApCard
  <2>5. recorded < NbCpus /\ recorded = Cardinality(Recorded) + 1
    BY <1>3, <2>3, <2>2, ApCard DEF MapInv, NbCpus
  <2>6. /\ recorded' = recorded + 1 /\ lapicid_map'[recorded] = p
        /\ \A i \in 0 .. recorded - 1 : lapicid_map'[i] = lapicid_map[i]
    BY <1>3, <2>5 DEF RecordId, Indices
  <2>7. recorded' = Cardinality(Recorded') + 1
    BY <2>4, <2>5, <2>6
  <2>8. \A q \in Recorded' : \E i \in 1 .. recorded' - 1 : lapicid_map'[i] = q
    <3>1. \A q \in Recorded : \E i \in 1 .. recorded - 1 : lapicid_map[i] = q
      BY <1>3 DEF MapInv
    <3>2. \A q \in Recorded :
            \E i \in 1 .. recorded' - 1 : lapicid_map'[i] = q
      BY <2>6, <3>1
    <3>3. recorded \in 1 .. recorded' - 1
      BY <2>6
    <3> QED
      BY <2>2, <2>6, <3>2, <3>3
  <2>9. \A i \in 1 .. recorded' - 1 : lapicid_map'[i] \in Recorded'
    BY <1>3, <2>2, <2>6 DEF MapInv
  <2>10. \A i, j \in 1 .. recorded' - 1 :
           lapicid_map'[i] = lapicid_map'[j] => i = j
    BY <1>3, <2>2, <2>6 DEF MapInv
  <2>11. bp_pc' # "record" => lapicid_map'[0] = Bp
    BY <1>1, <2>6 DEF MapInv
  <2> QED
    BY <1>1, <2>7, <2>8, <2>9, <2>10, <2>11 DEF MapInv
<1>4. CASE ~RecordId(p)
  <2>1. UNCHANGED <<lapicid_map, recorded>>
    BY <1>4 DEF ApSteps, SipiEntry, TakeStack, CheckAllInit, RecordLock,
                RecordUnlock, CountOnline
  <2>2. ~CountFirst => Recorded' = Recorded
    <3>1. CASE ~Starting
      BY <1>1, <3>1 DEF Recorded
    <3>2. CASE Starting
      <4>1. ~is_all_cpu_init
        BY <3>2 DEF PhaseInv
      <4> QED
        BY <1>1, <1>4, <3>2, <4>1 DEF ApSteps, SipiEntry, TakeStack,
           CheckAllInit, RecordLock, RecordUnlock, CountOnline, Recorded,
           AfterEntry, AfterRecord, AfterCount
    <3> QED
      BY <3>1, <3>2
  <2> QED
    BY <1>1, <2>1, <2>2 DEF MapInv
<1> QED
  BY <1>2, <1>3, <1>4
-----------------------------------------------------------------------------
LEMMA InvInit ==
  ASSUME BootInit
  PROVE  BootInv
<1> USE NbCpusNat DEF BootInit
<1>1. BootTypes
  <2>1. start_file \in {"cstart64", "cstart64_hsi"}
    BY ApBootAssumption
  <2>2. lapicid_map \in [Indices -> Nat] /\ stack \in [APs -> Nat]
    OBVIOUS
  <2>3. ap_pc \in [APs -> ApLabels]
    BY DEF ApLabels
  <2>4. lock \in BOOLEAN /\ is_all_cpu_init \in BOOLEAN
    BY Zenon
  <2>5. /\ recorded \in Nat \ {0} /\ cpu_online_count \in Nat
        /\ smp_stacktop \in Nat /\ cpus_cnt \in Nat /\ count \in Nat
        /\ bp_pc \in BpLabels
    BY DEF BpLabels
  <2> QED
    BY <2>1, <2>2, <2>3, <2>4, <2>5, Zenon DEF BootTypes
<1>2. StackInv /\ LockInv
  BY DEF StackInv, StacksDisjoint, LockInv, LockOwned
<1>3. Counted = {} /\ Recorded = {} /\ Cardinality({}) = 0
  BY FS_EmptySet DEF Counted, CountedAt, Recorded, Starting
<1>4. PhaseInv
  BY <1>3 DEF PhaseInv, Starting, InSendSipi
<1>5. MapInv
  BY <1>3 DEF MapInv
<1> QED
  BY <1>1, <1>2, <1>4, <1>5 DEF BootInv

LEMMA InvStep ==
  ASSUME BootInv, [BootNext]_bootVars
  PROVE  BootInv'
<1>1. BootTypes' /\ StackInv' /\ LockInv'
  BY TypesStep, StackStep, LockStep DEF BootInv
<1>2. PhaseInv' /\ MapInv'
  <2>1. CASE UNCHANGED bootVars
    <3> USE DEF bootVars, bpVars, apVars, Starting, CountedAt, CountFirst
    <3>1. PhaseInv'
      BY <2>1 DEF BootInv, PhaseInv, Counted, AllMain, SipiDest
    <3>2. MapInv'
      BY <2>1 DEF BootInv, MapInv, Recorded
    <3> QED
      BY <3>1, <3>2
  <2> QED
    BY <2>1, BpPhase, ApPhase, BpMap, ApMap, BootSteps DEF BootInv
<1> QED
  BY <1>1, <1>2 DEF BootInv

(* A run of the boot protocol, fair or not. *)
BootRuns == BootInit /\ [][BootNext]_bootVars

(* The places of BP and APs, the count, the lock and the map fit together  *)
(* in every reachable state (BootInv).                                     *)
THEOREM Invariance == BootRuns => []BootInv
<1>1. BootInit => BootInv
  BY InvInit
<1>2. BootInv /\ [BootNext]_bootVars => BootInv'
  BY InvStep
<1> QED
  BY <1>1, <1>2, PTL DEF BootRuns

(* The exchange on smp_stacktop gives no two APs the same stack, for any   *)
(* number of APs and of resets.                                            *)
THEOREM StacksPrivate == BootRuns => []StacksDisjoint
<1>1. BootInv => StacksDisjoint
  BY DEF BootInv, StackInv
<1> QED
  BY <1>1, Invariance, PTL

(* INIT never stops the owner of misc.c's lock.                            *)
THEOREM LockExact == BootRuns => []LockOwned
<1>1. BootInv => LockOwned
  BY DEF BootInv, LockInv
<1> QED
  BY <1>1, Invariance, PTL

(* smp_init and send_sipi return with cpu_online_count equal to the number *)
(* of processors, on either start file.                                    *)
THEOREM CountExact == BootRuns => []OnlineExact
<1>1. BootInv => OnlineExact
  BY DEF BootInv, PhaseInv, OnlineExact
<1> QED
  BY <1>1, Invariance, PTL

(* get_cpu_id of an AP is the index its id was recorded at. *)
LEMMA IdIsIndex ==
  ASSUME BootInv, is_all_cpu_init, start_file = "cstart64"
  PROVE  /\ lapicid_map[0] = Bp
         /\ \A i \in Indices \ {0} : lapicid_map[i] \in APs
         /\ \A p \in APs : \E i \in Indices \ {0} : lapicid_map[i] = p
         /\ \A i, j \in Indices : lapicid_map[i] = lapicid_map[j] => i = j
<1>1. ~Starting /\ ~CountFirst /\ bp_pc # "record"
  BY DEF BootInv, PhaseInv, Starting, CountFirst
<1>2. Recorded = APs /\ recorded = NbCpus
  BY <1>1 DEF Recorded, BootInv, MapInv, NbCpus
<1>3. 1 .. recorded - 1 = Indices \ {0}
  BY <1>2, NbCpusNat DEF Indices
<1>4. /\ lapicid_map[0] = Bp
      /\ \A i \in Indices \ {0} : lapicid_map[i] \in APs
      /\ \A p \in APs : \E i \in Indices \ {0} : lapicid_map[i] = p
      /\ \A i, j \in Indices \ {0} : lapicid_map[i] = lapicid_map[j] => i = j
  BY <1>1, <1>2, <1>3 DEF BootInv, MapInv
<1> QED
  BY <1>4, ApBootAssumption

(* get_cpu_id returns the index at which an id was recorded. *)
LEMMA CpuIdIsIndex ==
  ASSUME BootInv, is_all_cpu_init, start_file = "cstart64", NEW i \in Indices
  PROVE  CpuId(lapicid_map[i]) = i
<1> DEFINE First(k) == /\ lapicid_map[k] = lapicid_map[i]
                       /\ \A j \in 0 .. k - 1 : lapicid_map[j] # lapicid_map[i]
<1>1. \A k \in Indices : First(k) <=> k = i
  <2>1. 0 .. i - 1 \subseteq Indices /\ i \notin 0 .. i - 1
    BY NbCpusNat DEF Indices
  <2> QED
    BY <2>1, IdIsIndex
<1>2. (CHOOSE k \in Indices : First(k)) = i
  BY <1>1
<1> QED
  BY <1>2 DEF CpuId

(* After smp_init of cstart64.S get_cpu_id numbers all processors, the BP  *)
(* being 0, for any number of APs and any order of their starts.           *)
THEOREM MapRight == BootRuns => []MapComplete
<1>1. ASSUME BootInv, is_all_cpu_init, start_file = "cstart64"
      PROVE  CpuId(Bp) = 0 /\ {CpuId(p) : p \in APs} = Indices \ {0}
  <2>1. 0 \in Indices
    BY NbCpusNat DEF Indices
  <2>2. CpuId(Bp) = 0
    BY <1>1, <2>1, CpuIdIsIndex, IdIsIndex
  <2>3. \A p \in APs : CpuId(p) \in Indices \ {0}
    BY <1>1, CpuIdIsIndex, IdIsIndex
  <2>4. \A i \in Indices \ {0} : \E p \in APs : i = CpuId(p)
    BY <1>1, CpuIdIsIndex, IdIsIndex
  <2> QED
    BY <2>2, <2>3, <2>4
<1>2. BootInv => MapComplete
  BY <1>1 DEF MapComplete
<1> QED
  BY <1>2, Invariance, PTL

(* No step changes the map once smp_init of cstart64.S is done. *)
LEMMA MapKept ==
  ASSUME BootInv, [BootNext]_bootVars, is_all_cpu_init,
         start_file = "cstart64"
  PROVE  UNCHANGED <<lapicid_map, recorded, is_all_cpu_init, start_file>>
<1>1. ~Starting /\ ~CountFirst
  BY DEF BootInv, PhaseInv, CountFirst
<1>2. CASE BpStep
  BY <1>1, <1>2 DEF BpStep, RecordBp, BringupInit, BringupStartup,
     BringupWait, AllCpuInit, SendSipi, SipiInit, SipiCount, SipiStartup,
     SipiWait, SipiLock, SipiLoad, SipiStore, SipiUnlock, BpGoto, Starting
<1>3. ASSUME NEW p \in APs, ApSteps(p)
      PROVE  UNCHANGED <<lapicid_map, recorded, is_all_cpu_init, start_file>>
  <2>1. ap_pc[p] # "rec"
    BY <1>1, NoLateRecord DEF BootInv
  <2> QED
    BY <1>3, <2>1 DEF ApSteps, SipiEntry, TakeStack, CheckAllInit,
       RecordLock, RecordId, RecordUnlock, CountOnline, ApGoto
<1>4. CASE UNCHANGED bootVars
  BY <1>4 DEF bootVars
<1> QED
  BY <1>2, <1>3, <1>4, BootSteps

(* A reset never renumbers a processor (ap_record_lapicid is not called    *)
(* again once smp_init of cstart64.S is done).                             *)
THEOREM MapFixed == BootRuns => MapStable
<1>1. BootInv /\ [BootNext]_bootVars =>
        [is_all_cpu_init /\ start_file = "cstart64" =>
           UNCHANGED <<lapicid_map, recorded>>]_bootVars
  BY MapKept
<1> QED
  BY <1>1, Invariance, PTL DEF BootRuns, MapStable
=============================================================================
