-------------------------- MODULE InitValueProofs --------------------------
(***************************************************************************)
(* Proofs about InitValue: the "value following INIT" cases run the boot   *)
(* protocol of ApBoot, their verdict is one about the hypervisor, and no   *)
(* case leaves anything behind, for any number of APs, cases and resets.   *)
(*                                                                         *)
(* CaseInv is inductive relative to BootInv: it says, for every place of   *)
(* the test case on the BP, where ap_main of the target stands, what the   *)
(* two flags are and what is known of the register.                        *)
(***************************************************************************)
EXTENDS InitValue, ApBootProofs

MainLabels == {"start", "need", "unneed", "modify", "signal", "halt"}
TestLabels == {"start", "need", "sipi1", "wait1", "clear1", "sipi2", "wait2",
               "clear2", "check"}
AnyCase == Cases \cup {NoCase}

(* The values the variables of the test case range over. *)
CaseTypes ==
  /\ cur_case_id \in AnyCase
  /\ need_modify_init_value \in BOOLEAN /\ wait_ap \in BOOLEAN
  /\ settled \in BOOLEAN
  /\ tpc \in TestLabels
  /\ mpc \in [APs -> MainLabels] /\ reg \in [APs -> SUBSET AnyCase]

(* How the test case and the boot protocol are tied together: an AP that   *)
(* is not in ap_main will enter it afresh, and the BP is in send_sipi only *)
(* when the case sent it there.                                            *)
CourseInv ==
  /\ \A p \in APs : ap_pc[p] # "main" => mpc[p] = "start"
  /\ bp_pc \in InSendSipi => tpc \in {"wait1", "wait2"}
  /\ tpc # "start" => /\ start_file = "cstart64"
                      /\ bp_pc \in InSendSipi \cup {"main"}
                      /\ cur_case_id \in Cases
  /\ tpc \notin {"start", "need", "sipi1"} => NbCpus > 1

Flags(need, wait) == need_modify_init_value = need /\ wait_ap = wait
AllHalt == \A p \in APs : mpc[p] = "halt"
OthersHalt == \A p \in APs : p # Target => mpc[p] = "halt"

(* INIT is still to come in the send_sipi under way. *)
BeforeInit == bp_pc \in {"ss_count", "ss_init"}

(* The target serves the first reset, *)
ServesFirst ==
  \/ mpc[Target] \in {"start", "need", "unneed"} /\ Flags(TRUE, FALSE)
  \/ mpc[Target] = "modify" /\ Flags(FALSE, FALSE)
  \/ /\ mpc[Target] = "signal" /\ Flags(FALSE, FALSE)
     /\ cur_case_id \in reg[Target]
  \/ /\ mpc[Target] = "halt" /\ Flags(FALSE, TRUE)
     /\ cur_case_id \in reg[Target]

(* ... and the second, after which it leaves the register alone. *)
ServesSecond ==
  /\ \/ mpc[Target] \in {"start", "need", "signal"} /\ Flags(FALSE, FALSE)
     \/ mpc[Target] = "halt" /\ Flags(FALSE, TRUE)
  /\ cur_case_id \in before /\ reg[Target] = kept
  /\ ap_pc[Target] \notin {"wfs", "entry"} => dump = kept

Judged == cur_case_id \in before /\ reg[Target] = kept /\ dump = kept

(* The course of a case that found all APs halted. *)
ServeInv ==
  /\ tpc = "start" => /\ Flags(FALSE, FALSE)
                      /\ \A p \in APs : mpc[p] \in {"start", "halt"}
                      /\ cur_case_id \in Cases => AllHalt
  /\ tpc = "need" => AllHalt /\ Flags(FALSE, FALSE)
  /\ tpc = "sipi1" \/ (tpc = "wait1" /\ BeforeInit) =>
       AllHalt /\ Flags(TRUE, FALSE)
  /\ tpc = "wait1" /\ ~BeforeInit => OthersHalt /\ ServesFirst
  /\ tpc = "clear1" =>
       AllHalt /\ Flags(FALSE, TRUE) /\ cur_case_id \in reg[Target]
  /\ tpc = "sipi2" \/ (tpc = "wait2" /\ BeforeInit) =>
       AllHalt /\ Flags(FALSE, FALSE) /\ cur_case_id \in reg[Target]
  /\ tpc = "wait2" /\ ~BeforeInit => OthersHalt /\ ServesSecond
  /\ tpc = "clear2" => AllHalt /\ Flags(FALSE, TRUE) /\ Judged
  /\ tpc = "check" => AllHalt /\ Flags(FALSE, FALSE) /\ Judged

CaseInv == CaseTypes /\ CourseInv /\ (settled => ServeInv)
-----------------------------------------------------------------------------
(* The test cases leave the boot protocol to itself, but for calling       *)
(* send_sipi: every step of InitValue is a step of ApBoot or none at all.  *)
LEMMA TestSteps ==
  ASSUME [Next]_vars
  PROVE  [BootNext]_bootVars
<1>1. CASE TestStep
  BY <1>1 DEF TestStep, NotifyCase, NotifyModify, FirstSipi, SecondSipi,
              WaitApReady, ClearWait, Report, BootNext
<1>2. CASE ResetTarget \/ OtherBoot \/ Idle
  BY <1>2 DEF ResetTarget, OtherBoot, Idle, BootNext, ApSteps
<1>3. ASSUME NEW p \in APs, DumpRegisters(p) \/ ApMainStep(p)
      PROVE  [BootNext]_bootVars
  BY <1>3 DEF DumpRegisters, BootNext, ApSteps, ApMainStep, ApMain, ReadNeed,
              ClearNeed, ModifyInit, SignalReady, MainGoto
<1>4. CASE UNCHANGED vars
  BY <1>4 DEF vars
<1> QED
  BY <1>1, <1>2, <1>3, <1>4 DEF Next

(* The cases run the boot protocol of ApBoot: what ApBootProofs shows of   *)
(* stacks, lock, count and map holds of the programs with AP_INIT_CHECK.   *)
THEOREM CasesRunBoot == Spec => BootRuns
<1>1. Init => BootInit
  BY DEF Init
<1>2. [Next]_vars => [BootNext]_bootVars
  BY TestSteps
<1> QED
  BY <1>1, <1>2, PTL DEF Spec, BootRuns

(* send_sipi goes to the AP that get_cpu_id numbers last, and it does so   *)
(* from smp_init on.                                                       *)
LEMMA TargetIsLast ==
  ASSUME BootInv, is_all_cpu_init, start_file = "cstart64", NbCpus > 1
  PROVE  Target \in APs /\ CpuId(Target) = NbCpus - 1
<1>1. NbCpus - 1 \in Indices \ {0}
  BY NbCpusNat DEF Indices
<1> QED
  BY <1>1, IdIsIndex, CpuIdIsIndex DEF Target, SipiDest

(* What a started case has from the boot protocol. *)
LEMMA Started ==
  ASSUME BootInv, CaseInv, tpc # "start"
  PROVE  /\ is_all_cpu_init /\ start_file = "cstart64"
         /\ bp_pc \in InSendSipi \cup {"main"} /\ ~Starting
         /\ bp_pc = "main" => \A p \in APs : ap_pc[p] = "main"
         /\ tpc \notin {"need", "sipi1"} =>
              Target \in APs /\ CpuId(Target) = NbCpus - 1
<1>1. start_file = "cstart64" /\ bp_pc \in InSendSipi \cup {"main"}
  BY DEF CaseInv, CourseInv
<1>2. is_all_cpu_init /\ ~Starting
  BY <1>1 DEF BootInv, PhaseInv, Starting, InSendSipi
<1>3. bp_pc = "main" => \A p \in APs : ap_pc[p] = "main"
  BY <1>1 DEF BootInv, PhaseInv, Counted, CountedAt, CountFirst
<1>4. tpc \notin {"need", "sipi1"} => NbCpus > 1
  BY DEF CaseInv, CourseInv
<1> QED
  BY <1>1, <1>2, <1>3, <1>4, TargetIsLast
-----------------------------------------------------------------------------
(* The steps of the test case on the BP.                                   *)
LEMMA TestKeeps ==
  ASSUME BootInv, CaseInv, TestStep
  PROVE  CaseInv'
<1>1. /\ bp_pc = "main" /\ UNCHANGED <<mpc, registers>>
      /\ UNCHANGED <<ap_pc, lapicid_map, start_file>>
      /\ bp_pc' \in {"main", "ss_count"}
  BY DEF TestStep, NotifyCase, NotifyModify, FirstSipi, SecondSipi,
         WaitApReady, ClearWait, Report, TestGoto, SendSipi, BpGoto, bootVars,
         bpVars, apVars
<1>2. /\ Target' = Target /\ UNCHANGED <<mpc, reg, dump, before, kept>>
      /\ BeforeInit' <=> bp_pc' = "ss_count"
      /\ ~BeforeInit
  BY <1>1 DEF Target, SipiDest, registers, BeforeInit
<1> USE <1>1, <1>2 DEF CaseInv, CaseTypes, TestLabels, TestGoto
<1>3. CASE NotifyCase
  <2>1. tpc = "start" /\ tpc' = "need" /\ cur_case_id' \in Cases
        /\ UNCHANGED <<need_modify_init_value, wait_ap, bp_pc>>
        /\ settled' = (settled /\ AllHalt) /\ start_file = "cstart64"
    BY <1>3 DEF NotifyCase, bootVars, bpVars, AllHalt
  <2>2. CaseTypes'
    <3>1. settled' \in BOOLEAN
      BY <2>1, Zenon
    <3> QED
      BY <2>1, <3>1 DEF AnyCase
  <2>3. CourseInv'
    BY <2>1 DEF CourseInv, InSendSipi
  <2>4. settled' => ServeInv'
    BY <2>1 DEF ServeInv, AllHalt, Flags
  <2> QED
    BY <2>2, <2>3, <2>4
<1>4. CASE NotifyModify
  <2>1. tpc = "need" /\ tpc' = "sipi1" /\ need_modify_init_value'
        /\ UNCHANGED <<cur_case_id, wait_ap, bp_pc, settled>>
    BY <1>4 DEF NotifyModify, bookkeeping, bootVars, bpVars
  <2>2. CaseTypes'
    BY <1>4, <2>1 DEF NotifyModify
  <2>3. CourseInv'
    BY <2>1 DEF CourseInv, InSendSipi
  <2>4. settled' => ServeInv'
    BY <1>4, <2>1 DEF NotifyModify, ServeInv, AllHalt, Flags
  <2> QED
    BY <2>2, <2>3, <2>4
<1>5. CASE FirstSipi \/ SecondSipi
  <2>1. /\ \/ tpc = "sipi1" /\ tpc' = "wait1"
           \/ tpc = "sipi2" /\ tpc' = "wait2"
        /\ bp_pc' = "ss_count" /\ NbCpus > 1
        /\ UNCHANGED <<cur_case_id, need_modify_init_value, wait_ap, settled>>
    BY <1>5 DEF FirstSipi, SecondSipi, SendSipi, BpGoto, shared, bookkeeping
  <2>2. CaseTypes'
    BY <2>1
  <2>3. CourseInv'
    BY <2>1 DEF CourseInv, InSendSipi
  <2>4. settled' => ServeInv'
    BY <2>1 DEF ServeInv, AllHalt, Flags
  <2> QED
    BY <2>2, <2>3, <2>4
<1>6. CASE \/ WaitApReady("wait1", "clear1") \/ WaitApReady("wait2", "clear2")
  <2>1. /\ \/ tpc = "wait1" /\ tpc' = "clear1"
           \/ tpc = "wait2" /\ tpc' = "clear2"
        /\ wait_ap
        /\ UNCHANGED <<cur_case_id, need_modify_init_value, wait_ap, settled,
                       bp_pc>>
    BY <1>6 DEF WaitApReady, shared, bookkeeping, bootVars, bpVars
  <2>2. CaseTypes'
    BY <2>1
  <2>3. CourseInv'
    BY <2>1 DEF CourseInv, InSendSipi
  <2>4. \A p \in APs : ap_pc[p] = "main"
    BY <2>1, Started
  <2>5. Target \in APs
    BY <2>1, Started
  <2>6. settled' => ServeInv'
    BY <2>1, <2>4, <2>5 DEF ServeInv, ServesFirst, ServesSecond, OthersHalt,
       AllHalt, Flags, Judged
  <2> QED
    BY <2>2, <2>3, <2>6
<1>7. CASE ClearWait("clear1", "sipi2") \/ ClearWait("clear2", "check")
  <2>1. /\ \/ tpc = "clear1" /\ tpc' = "sipi2"
           \/ tpc = "clear2" /\ tpc' = "check"
        /\ wait_ap' = FALSE
        /\ UNCHANGED <<cur_case_id, need_modify_init_value, settled, bp_pc>>
    BY <1>7 DEF ClearWait, bookkeeping, bootVars, bpVars
  <2>2. CaseTypes'
    BY <2>1
  <2>3. CourseInv'
    BY <2>1 DEF CourseInv, InSendSipi
  <2>4. settled' => ServeInv'
    BY <2>1 DEF ServeInv, AllHalt, Flags, Judged
  <2> QED
    BY <2>2, <2>3, <2>4
<1>8. CASE Report
  <2>1. /\ tpc = "check" /\ tpc' = "start"
        /\ UNCHANGED <<cur_case_id, need_modify_init_value, wait_ap, settled,
                       bp_pc>>
    BY <1>8 DEF Report, shared, bookkeeping, bootVars, bpVars
  <2>2. CaseTypes'
    BY <2>1
  <2>3. CourseInv'
    BY <2>1 DEF CourseInv, InSendSipi
  <2>4. settled' => ServeInv'
    BY <2>1 DEF ServeInv, AllHalt, Flags
  <2> QED
    BY <2>2, <2>3, <2>4
<1> QED
  BY <1>3, <1>4, <1>5, <1>6, <1>7, <1>8 DEF TestStep

(* The steps of ap_main.  Only the target can be anywhere but at its start *)
(* or halted while a case runs that found all APs halted.                  *)
LEMMA MainKeeps ==
  ASSUME BootInv, CaseInv, NEW p \in APs, ApMainStep(p)
  PROVE  CaseInv'
<1>1. /\ UNCHANGED <<ap_pc, lapicid_map, start_file, bp_pc, tpc, settled,
                     cur_case_id, dump, before, kept>>
      /\ ap_pc[p] = "main" /\ mpc[p] # "halt"
      /\ \E l \in MainLabels \ {"start"} : mpc' = [mpc EXCEPT ![p] = l]
  BY DEF ApMainStep, ApMain, ReadNeed, ClearNeed, ModifyInit, SignalReady,
         MainGoto, MainLabels, bootVars, bpVars, apVars, bookkeeping, shared,
         registers
<1>2. Target' = Target /\ (BeforeInit' <=> BeforeInit)
  BY <1>1 DEF Target, SipiDest, BeforeInit
<1>3. CaseTypes'
  <2>1. mpc' \in [APs -> MainLabels]
    BY <1>1 DEF CaseInv, CaseTypes
  <2>2. reg' \in [APs -> SUBSET AnyCase]
    BY DEF CaseInv, CaseTypes, ApMainStep, ApMain, ReadNeed, ClearNeed,
           ModifyInit, SignalReady, registers
  <2>3. need_modify_init_value' \in BOOLEAN /\ wait_ap' \in BOOLEAN
    BY DEF CaseInv, CaseTypes, ApMainStep, ApMain, ReadNeed, ClearNeed,
           ModifyInit, SignalReady, shared
  <2> QED
    BY <1>1, <2>1, <2>2, <2>3 DEF CaseInv, CaseTypes
<1>4. CourseInv'
  BY <1>1 DEF CaseInv, CourseInv, CaseTypes
<1>5. ASSUME settled, tpc = "start"
      PROVE  ServeInv'
  <2>1. mpc[p] = "start" /\ cur_case_id \notin Cases /\ Flags(FALSE, FALSE)
    BY <1>1, <1>5 DEF CaseInv, ServeInv, AllHalt
  <2>2. ApMain(p)
    BY <2>1 DEF ApMainStep, ReadNeed, ClearNeed, ModifyInit, SignalReady,
                MainGoto
  <2>3. mpc' = [mpc EXCEPT ![p] = "halt"]
    BY <2>1, <2>2 DEF ApMain, MainGoto
  <2>4. Flags(FALSE, FALSE)'
    BY <2>1, <2>2 DEF ApMain, shared, Flags
  <2>5. \A q \in APs : mpc'[q] \in {"start", "halt"}
    BY <1>5, <2>3 DEF CaseInv, CaseTypes, ServeInv
  <2> QED
    BY <1>1, <1>5, <2>1, <2>4, <2>5 DEF ServeInv
<1>6. ASSUME settled, tpc # "start"
      PROVE  ServeInv'
  <2>1. /\ \/ tpc = "wait1" /\ ~BeforeInit /\ ServesFirst
           \/ tpc = "wait2" /\ ~BeforeInit /\ ServesSecond
        /\ OthersHalt /\ p = Target
    BY <1>1, <1>6 DEF CaseInv, CaseTypes, TestLabels, ServeInv, AllHalt,
       OthersHalt
  <2>2. CpuId(p) = NbCpus - 1 /\ cur_case_id \in Cases
    BY <1>6, <2>1, Started DEF CaseInv, CourseInv
  <2>3. OthersHalt'
    BY <1>1, <1>2, <2>1 DEF OthersHalt, CaseInv, CaseTypes
  <2> USE DEF Flags, CaseInv, CaseTypes, MainGoto
  <2>4. CASE tpc = "wait1"
    <3>1. ServesFirst'
      <4>1. CASE ApMain(p)
        BY <1>2, <2>1, <2>2, <2>4, <4>1 DEF ApMain, shared, registers,
           ServesFirst
      <4>2. CASE ReadNeed(p)
        BY <1>2, <2>1, <2>4, <4>2 DEF ReadNeed, shared, registers, ServesFirst
      <4>3. CASE ClearNeed(p)
        BY <1>2, <2>1, <2>4, <4>3 DEF ClearNeed, registers, ServesFirst
      <4>4. CASE ModifyInit(p)
        BY <1>1, <1>2, <2>1, <2>4, <4>4 DEF ModifyInit, shared, ServesFirst
      <4>5. CASE SignalReady(p)
        BY <1>2, <2>1, <2>4, <4>5 DEF SignalReady, registers, ServesFirst
      <4> QED
        BY <4>1, <4>2, <4>3, <4>4, <4>5 DEF ApMainStep
    <3> QED
      BY <1>1, <1>2, <2>1, <2>3, <2>4, <3>1 DEF ServeInv
  <2>5. CASE tpc = "wait2"
    <3>1. ServesSecond'
      <4>1. CASE ApMain(p)
        BY <1>1, <1>2, <2>1, <2>2, <2>5, <4>1 DEF ApMain, shared, registers,
           ServesSecond
      <4>2. CASE ReadNeed(p)
        BY <1>1, <1>2, <2>1, <2>5, <4>2 DEF ReadNeed, shared, registers,
           ServesSecond
      <4>3. CASE ClearNeed(p) \/ ModifyInit(p)
        BY <2>1, <2>5, <4>3 DEF ClearNeed, ModifyInit, ServesSecond
      <4>4. CASE SignalReady(p)
        BY <1>1, <1>2, <2>1, <2>5, <4>4 DEF SignalReady, registers,
           ServesSecond
      <4> QED
        BY <4>1, <4>2, <4>3, <4>4 DEF ApMainStep
    <3> QED
      BY <1>1, <1>2, <2>1, <2>3, <2>5, <3>1 DEF ServeInv
  <2> QED
    BY <2>1, <2>4, <2>5
<1> QED
  BY <1>1, <1>3, <1>4, <1>5, <1>6 DEF CaseInv

(* INIT of the target. *)
LEMMA ResetKeeps ==
  ASSUME BootInv, CaseInv, ResetTarget
  PROVE  CaseInv'
<1>1. /\ bp_pc = "ss_init" /\ bp_pc' = "ss_sipi"
      /\ UNCHANGED <<start_file, lapicid_map, tpc, settled, cur_case_id,
                     need_modify_init_value, wait_ap, dump>>
      /\ ap_pc' = [p \in APs |-> IF p = Target THEN "wfs" ELSE ap_pc[p]]
      /\ mpc' = [mpc EXCEPT ![Target] = "start"]
      /\ before' = reg[Target]
  BY DEF ResetTarget, SipiInit, BpGoto, InitIpi, shared, bookkeeping, Target
<1>2. PICK keep \in SUBSET reg[Target] :
        reg' = [reg EXCEPT ![Target] = keep] /\ kept' = keep
  BY DEF ResetTarget
<1>3. tpc \in {"wait1", "wait2"} /\ BeforeInit /\ ~BeforeInit'
  BY <1>1 DEF CaseInv, CourseInv, InSendSipi, BeforeInit
<1>4. Target \in APs /\ Target' = Target
  BY <1>1, <1>3, Started DEF Target, SipiDest
<1> USE DEF CaseInv, CaseTypes, MainLabels
<1>5. CaseTypes'
  BY <1>1, <1>2, <1>4
<1>6. CourseInv'
  <2>1. \A p \in APs : ap_pc'[p] # "main" => mpc'[p] = "start"
    BY <1>1, <1>4 DEF CourseInv
  <2> QED
    BY <1>1, <1>3, <2>1 DEF CourseInv, InSendSipi
<1>7. ASSUME settled
      PROVE  ServeInv'
  <2>1. /\ mpc'[Target] = "start" /\ reg'[Target] = kept'
        /\ \A p \in APs : p # Target => mpc'[p] = mpc[p]
        /\ ap_pc'[Target] = "wfs"
    BY <1>1, <1>2, <1>4
  <2>2. OthersHalt'
    BY <1>3, <1>4, <1>7, <2>1 DEF ServeInv, AllHalt, OthersHalt
  <2>3. CASE tpc = "wait1"
    BY <1>1, <1>3, <1>4, <1>7, <2>1, <2>2, <2>3 DEF ServeInv, ServesFirst,
       Flags
  <2>4. CASE tpc = "wait2"
    BY <1>1, <1>3, <1>4, <1>7, <2>1, <2>2, <2>4 DEF ServeInv, ServesSecond,
       Flags
  <2> QED
    BY <1>3, <2>3, <2>4
<1> QED
  BY <1>1, <1>5, <1>6, <1>7
-----------------------------------------------------------------------------
(* What a step of the boot protocol alone has to keep. *)
LEMMA BootKeeps ==
  ASSUME BootInv, CaseInv, [BootNext]_bootVars,
         UNCHANGED <<cur_case_id, need_modify_init_value, wait_ap, tpc, mpc,
                     reg, before, kept, settled>>,
         CourseInv',
         settled /\ tpc = "wait2" /\ ~BeforeInit =>
           (ap_pc'[Target] \notin {"wfs", "entry"} => dump' = kept),
         tpc \in {"clear2", "check"} => dump' = dump,
         tpc \in {"wait1", "wait2"} => (BeforeInit' <=> BeforeInit)
  PROVE  CaseInv'
<1>1. tpc # "start" => Target' = Target
  BY Started, MapKept DEF Target, SipiDest
<1>2. CaseTypes'
  BY DEF CaseInv, CaseTypes
<1>3. ASSUME settled, tpc = "start"
      PROVE  ServeInv'
  BY <1>3 DEF CaseInv, ServeInv, Flags, AllHalt
<1>4. ASSUME settled, tpc # "start"
      PROVE  ServeInv'
  <2>1. /\ AllHalt' <=> AllHalt
        /\ OthersHalt' <=> OthersHalt
        /\ Flags(TRUE, FALSE)' <=> Flags(TRUE, FALSE)
        /\ Flags(FALSE, FALSE)' <=> Flags(FALSE, FALSE)
        /\ Flags(FALSE, TRUE)' <=> Flags(FALSE, TRUE)
        /\ ServesFirst' <=> ServesFirst
    BY <1>1, <1>4 DEF AllHalt, OthersHalt, Flags, ServesFirst
  <2>2. tpc = "wait2" /\ ~BeforeInit /\ ServesSecond => ServesSecond'
    BY <1>1, <1>4 DEF ServesSecond, Flags
  <2>3. tpc \in {"clear2", "check"} /\ Judged => Judged'
    BY <1>1, <1>4 DEF Judged
  <2> QED
    BY <1>1, <1>4, <2>1, <2>2, <2>3 DEF CaseInv, ServeInv
<1> QED
  BY <1>2, <1>3, <1>4 DEF CaseInv

(* An AP on its way to ap_main while a case runs is the target, and the BP *)
(* waits for it in send_sipi.                                              *)
LEMMA OnTheWay ==
  ASSUME BootInv, CaseInv, tpc # "start", NEW p \in APs, ap_pc[p] # "main",
         ap_pc[p] # "wfs"
  PROVE  /\ p = Target /\ bp_pc = "ss_wait" /\ tpc \in {"wait1", "wait2"}
         /\ ap_pc[p] \in {"entry", "stack", "check", "count"}
  BY Started DEF CaseInv, CourseInv, BootInv, PhaseInv, Target, InSendSipi,
                 AllMain

(* The start file dumps the registers of the target. *)
LEMMA DumpKeeps ==
  ASSUME BootInv, CaseInv, NEW p \in APs, DumpRegisters(p)
  PROVE  CaseInv'
<1>1. /\ ap_pc[p] = "entry" /\ ap_pc' = [ap_pc EXCEPT ![p] = AfterEntry]
      /\ AfterEntry \in {"stack", "count"}
      /\ UNCHANGED <<start_file, lapicid_map, bp_pc>>
      /\ UNCHANGED <<cur_case_id, need_modify_init_value, wait_ap, tpc, mpc,
                     reg, before, kept, settled>>
      /\ dump' = reg[p]
  BY DEF DumpRegisters, SipiEntry, ApGoto, AfterEntry, bpVars, shared,
         bookkeeping
<1>2. [BootNext]_bootVars
  BY DEF DumpRegisters, BootNext, ApSteps
<1>3. \A q \in APs : ap_pc'[q] # "main" => mpc'[q] = "start"
  BY <1>1 DEF CaseInv, CourseInv, BootInv, BootTypes
<1>4. CourseInv'
  BY <1>1, <1>3 DEF CaseInv, CourseInv
<1>5. tpc # "start" => p = Target /\ tpc \in {"wait1", "wait2"}
  BY <1>1, OnTheWay
<1>6. settled /\ tpc = "wait2" /\ ~BeforeInit => dump' = kept
  BY <1>1, <1>5 DEF CaseInv, ServeInv, ServesSecond
<1>7. BeforeInit' <=> BeforeInit
  BY <1>1 DEF BeforeInit
<1> QED
  BY <1>1, <1>2, <1>4, <1>5, <1>6, <1>7, BootKeeps

(* The rest of the boot protocol. *)
LEMMA OtherBootKeeps ==
  ASSUME BootInv, CaseInv, OtherBoot
  PROVE  CaseInv'
<1>1. UNCHANGED <<cur_case_id, need_modify_init_value, wait_ap, tpc, mpc,
                  reg, dump, before, kept, settled>>
  BY DEF OtherBoot, testVars, shared, registers, bookkeeping
<1>2. [BootNext]_bootVars
  BY DEF OtherBoot, BootNext, ApSteps
<1> USE <1>1 DEF CaseInv, CourseInv, BootInv, BootTypes
<1>3. CASE BringUp
  <2>1. /\ bp_pc \in {"record", "init", "sipi", "online", "allset"}
        /\ bp_pc' \in {"allset", "init", "sipi", "online", "main"}
    BY <1>3 DEF BringUp, RecordBp, BringupInit, BringupStartup, BringupWait,
       AllCpuInit, BpGoto
  <2>2. tpc = "start"
    BY <2>1 DEF InSendSipi
  <2>3. \A p \in APs : ap_pc'[p] # "main" => mpc[p] = "start"
    <3>1. CASE BringupInit
      BY <3>1 DEF BringupInit, BpGoto, PhaseInv
    <3>2. CASE BringupStartup
      BY <3>2 DEF BringupStartup, StartupIpi
    <3>3. CASE RecordBp \/ BringupWait \/ AllCpuInit
      BY <3>3 DEF RecordBp, BringupWait, AllCpuInit, apVars
    <3> QED
      BY <1>3, <3>1, <3>2, <3>3 DEF BringUp
  <2>4. CourseInv'
    BY <2>1, <2>2, <2>3 DEF InSendSipi
  <2> QED
    BY <1>2, <2>2, <2>4, BootKeeps
<1>4. CASE SendSipiSteps
  <2>1. /\ bp_pc \in InSendSipi /\ bp_pc' \in InSendSipi \cup {"main"}
        /\ BeforeInit' <=> BeforeInit
        /\ UNCHANGED start_file
    BY <1>4 DEF SendSipiSteps, SipiCount, SipiStartup, SipiWait, SipiLock,
       SipiLoad, SipiStore, SipiUnlock, BpGoto, InSendSipi, BeforeInit
  <2>2. tpc \in {"wait1", "wait2"} /\ Target \in APs
    BY <2>1, Started
  <2>3. \A p \in APs : \/ ap_pc'[p] = ap_pc[p]
                       \/ ap_pc[p] = "wfs" /\ ap_pc'[p] = "entry"
    BY <1>4 DEF SendSipiSteps, SipiCount, SipiStartup, SipiWait, SipiLock,
       SipiLoad, SipiStore, SipiUnlock, StartupIpi, apVars
  <2>4. CourseInv'
    BY <2>1, <2>2, <2>3
  <2>5. settled /\ tpc = "wait2" /\ ~BeforeInit =>
          (ap_pc'[Target] \notin {"wfs", "entry"} => dump' = kept)
    BY <2>2, <2>3 DEF ServeInv, ServesSecond
  <2> QED
    BY <1>2, <2>1, <2>2, <2>4, <2>5, BootKeeps
<1>5. ASSUME NEW p \in APs,
             \/ TakeStack(p) \/ CheckAllInit(p) \/ RecordLock(p)
             \/ RecordId(p) \/ RecordUnlock(p) \/ CountOnline(p)
      PROVE  CaseInv'
  <2>1. /\ ap_pc[p] \in {"stack", "check", "lock", "rec", "unlock", "count"}
        /\ \A q \in APs : q # p => ap_pc'[q] = ap_pc[q]
        /\ UNCHANGED <<start_file, bp_pc>>
    BY <1>5 DEF TakeStack, CheckAllInit, RecordLock, RecordId, RecordUnlock,
       CountOnline, ApGoto, bpVars
  <2>2. BeforeInit' <=> BeforeInit
    BY <2>1 DEF BeforeInit
  <2>3. mpc[p] = "start"
    BY <2>1
  <2>4. CourseInv'
    BY <2>1, <2>3
  <2>5. settled /\ tpc = "wait2" /\ ~BeforeInit => dump' = kept
    <3>1. tpc = "wait2" => p = Target
      BY <2>1, OnTheWay
    <3> QED
      BY <2>1, <3>1 DEF ServeInv, ServesSecond
  <2> QED
    BY <1>2, <2>2, <2>4, <2>5, BootKeeps
<1> QED
  BY <1>3, <1>4, <1>5 DEF OtherBoot

LEMMA IdleKeeps ==
  ASSUME BootInv, CaseInv, UNCHANGED vars
  PROVE  CaseInv'
<1>1. /\ UNCHANGED <<cur_case_id, need_modify_init_value, wait_ap, tpc, mpc,
                     reg, dump, before, kept, settled>>
      /\ UNCHANGED <<start_file, bp_pc, ap_pc>> /\ UNCHANGED bootVars
  BY DEF vars, testVars, shared, registers, bookkeeping, bootVars, bpVars,
         apVars
<1>2. CourseInv' /\ (BeforeInit' <=> BeforeInit)
  BY <1>1 DEF CaseInv, CourseInv, BeforeInit
<1>3. settled /\ tpc = "wait2" /\ ~BeforeInit =>
        (ap_pc'[Target] \notin {"wfs", "entry"} => dump' = kept)
  BY <1>1 DEF CaseInv, ServeInv, ServesSecond
<1> QED
  BY <1>1, <1>2, <1>3, BootKeeps

(* BP, target, flags and registers go through a case in step (CaseInv).    *)
THEOREM CaseInvariance == Spec => []CaseInv
<1>1. ASSUME Init
      PROVE  CaseInv
  <2> USE <1>1 DEF Init, BootInit
  <2>1. CaseTypes
    <3>1. /\ need_modify_init_value \in BOOLEAN /\ wait_ap \in BOOLEAN
          /\ settled \in BOOLEAN
      BY Zenon
    <3>2. mpc \in [APs -> MainLabels] /\ tpc \in TestLabels
      BY DEF MainLabels, TestLabels
    <3>3. cur_case_id \in AnyCase /\ reg \in [APs -> SUBSET AnyCase]
      BY DEF AnyCase
    <3> QED
      BY <3>1, <3>2, <3>3, Zenon DEF CaseTypes
  <2>2. CourseInv
    BY DEF CourseInv, InSendSipi
  <2>3. ServeInv
    BY InitValueAssumption DEF ServeInv, Flags, AllHalt
  <2> QED
    BY <2>1, <2>2, <2>3, Zenon DEF CaseInv
<1>2. ASSUME BootInv, CaseInv, [Next]_vars
      PROVE  CaseInv'
  <2>1. CASE Idle
    BY <1>2, <2>1, IdleKeeps DEF Idle, Looping, vars
  <2> QED
    BY <1>2, <2>1, TestKeeps, MainKeeps, ResetKeeps, DumpKeeps,
       OtherBootKeeps, IdleKeeps DEF Next
<1> QED
  BY <1>1, <1>2, CasesRunBoot, Invariance, PTL DEF Spec

(* notify_modify_and_read_init_value: the dump its caller reads shows the  *)
(* register as the INIT before left it, and the register had been modified *)
(* before that INIT, for any number of APs, cases and resets.              *)
THEOREM VerdictIsSound == Spec => []VerdictSound
<1>1. CaseInv => VerdictSound
  BY DEF CaseInv, ServeInv, Judged, VerdictSound
<1> QED
  BY <1>1, CaseInvariance, PTL

(* A case leaves wait_ap and need_modify_init_value clear, and no register *)
(* modified that INIT did not leave so.                                    *)
THEOREM CaseLeavesClean == Spec => []LeavesClean
<1>1. CaseInv => LeavesClean
  BY DEF CaseInv, ServeInv, Judged, Flags, LeavesClean
<1> QED
  BY <1>1, CaseInvariance, PTL
=============================================================================
