----------------------------- MODULE InitValue -----------------------------
(***************************************************************************)
(* The "value following INIT" test cases on top of ApBoot.                 *)
(*                                                                         *)
(* Some twenty test programs share the protocol modelled here (the lines   *)
(* mapped are those of x86/local_apic.c and x86/cpumode.c):                *)
(* notify_modify_and_read_init_value on the BP resets the last AP twice,   *)
(* the AP changes a register after the first reset (ap_main,               *)
(* ap_init_value_process), the start file dumps the registers at every     *)
(* reset (AP_INIT_CHECK), and the BP judges the hypervisor by the dump of  *)
(* the second reset.                                                       *)
(*                                                                         *)
(* The hypervisor under test is not trusted: an INIT leaves any set of     *)
(* registers unreset.  The properties say that the verdict is a verdict    *)
(* about the hypervisor, whatever the interleaving.                        *)
(*                                                                         *)
(* Nothing in the code makes the BP wait until the APs have been through   *)
(* ap_main once; only the time its own set-up takes does.  settled records *)
(* whether that was so.                                                    *)
(***************************************************************************)
EXTENDS ApBoot

CONSTANTS Cases,     \* test cases, each about a register of its own
          NoCase,    \* cur_case_id = 0
          MaxCases   \* bound: cases run

ASSUME InitValueAssumption ==
  NoCase \notin Cases /\ MaxCases \in Nat

VARIABLES
  cur_case_id,             \* the case the AP is to serve
  need_modify_init_value,  \* is the AP to modify the register?
  wait_ap,                 \* the AP's answer
  tpc,                     \* where the test case on the BP stands
  mpc,                     \* per AP: where ap_main stands
  reg,                     \* per AP: registers that hold a modified value
  dump,                    \* registers found modified by the latest dump
  before,                  \* history: modified registers before the last INIT
  kept,                    \* history: registers that INIT did not reset
  settled,                 \* history: has every case found all APs halted?
  ran                      \* bound counter

shared == <<cur_case_id, need_modify_init_value, wait_ap>>
registers == <<reg, dump, before, kept>>
bookkeeping == <<settled, ran>>
testVars == <<shared, tpc, mpc, registers, bookkeeping>>
vars == <<bootVars, testVars>>

Target == SipiDest

Init ==
  /\ BootInit
  /\ cur_case_id = NoCase
  /\ need_modify_init_value = FALSE
  /\ wait_ap = FALSE
  /\ tpc = "start"
  /\ mpc = [p \in APs |-> "start"]
  /\ reg = [p \in APs |-> {}]
  /\ dump = {} /\ before = {} /\ kept = {}
  /\ settled = TRUE /\ ran = 0
-----------------------------------------------------------------------------
TestGoto(from, to) ==
  bp_pc = "main" /\ tpc = from /\ tpc' = to /\ UNCHANGED <<mpc, registers>>

(* notify_modify_and_read_init_value and wait_ap_ready; the programs that  *)
(* have them are linked with cstart64.S.                                   *)
NotifyCase ==
  /\ start_file = "cstart64" /\ ran < MaxCases /\ ran' = ran + 1
  /\ settled' = (settled /\ \A p \in APs : mpc[p] = "halt")
  /\ TestGoto("start", "need")
  /\ \E c \in Cases : cur_case_id' = c
  /\ UNCHANGED <<need_modify_init_value, wait_ap, bootVars>>

NotifyModify ==
  /\ TestGoto("need", "sipi1")
  /\ need_modify_init_value' = TRUE
  /\ UNCHANGED <<cur_case_id, wait_ap, bookkeeping, bootVars>>

FirstSipi ==
  /\ TestGoto("sipi1", "wait1")
  /\ SendSipi
  /\ UNCHANGED <<shared, bookkeeping>>

SecondSipi ==
  /\ TestGoto("sipi2", "wait2")
  /\ SendSipi
  /\ UNCHANGED <<shared, bookkeeping>>

WaitApReady(from, to) ==
  /\ wait_ap
  /\ TestGoto(from, to)
  /\ UNCHANGED <<shared, bookkeeping, bootVars>>

ClearWait(from, to) ==
  /\ TestGoto(from, to)
  /\ wait_ap' = FALSE
  /\ UNCHANGED <<cur_case_id, need_modify_init_value, bookkeeping, bootVars>>

(* The caller reads the dump, reports and goes on to the next case. *)
Report ==
  /\ TestGoto("check", "start")
  /\ UNCHANGED <<shared, bookkeeping, bootVars>>

TestStep == \/ NotifyCase \/ NotifyModify \/ FirstSipi \/ SecondSipi
            \/ WaitApReady("wait1", "clear1") \/ ClearWait("clear1", "sipi2")
            \/ WaitApReady("wait2", "clear2") \/ ClearWait("clear2", "check")
            \/ Report
-----------------------------------------------------------------------------
MainGoto(p, from, to) ==
  /\ ap_pc[p] = "main" /\ mpc[p] = from
  /\ mpc' = [mpc EXCEPT ![p] = to]
  /\ UNCHANGED <<bootVars, tpc, bookkeeping>>

(* ap_main: only the last AP takes part, and only in a known case. *)
ApMain(p) ==
  /\ MainGoto(p, "start", IF /\ CpuId(p) = NbCpus - 1
                             /\ cur_case_id \in Cases THEN "need" ELSE "halt")
  /\ UNCHANGED <<shared, registers>>

(* Mutant: the AP answers before it has modified the register. *)
ReadNeedEager(p) ==
  /\ MainGoto(p, "need", IF need_modify_init_value THEN "unneed" ELSE "halt")
  /\ wait_ap' = TRUE
  /\ UNCHANGED <<cur_case_id, need_modify_init_value, registers>>

(* ap_init_value_process. *)
ReadNeed(p) ==
  /\ MainGoto(p, "need", IF need_modify_init_value THEN "unneed"
                                                   ELSE "signal")
  /\ UNCHANGED <<shared, registers>>

(* Mutant: the request to modify is not taken back. *)
ClearNeedNot(p) ==
  /\ MainGoto(p, "unneed", "modify")
  /\ UNCHANGED <<shared, registers>>

ClearNeed(p) ==
  /\ MainGoto(p, "unneed", "modify")
  /\ need_modify_init_value' = FALSE
  /\ UNCHANGED <<cur_case_id, wait_ap, registers>>

ModifyInit(p) ==
  /\ MainGoto(p, "modify", "signal")
  /\ reg' = [reg EXCEPT ![p] = @ \cup {cur_case_id}]
  /\ UNCHANGED <<shared, dump, before, kept>>

SignalReady(p) ==
  /\ MainGoto(p, "signal", "halt")
  /\ wait_ap' = TRUE
  /\ UNCHANGED <<cur_case_id, need_modify_init_value, registers>>

ApMainStep(p) == ApMain(p) \/ ReadNeed(p) \/ ClearNeed(p) \/ ModifyInit(p)
                 \/ SignalReady(p)
-----------------------------------------------------------------------------
(* INIT of the target: the hypervisor leaves the registers in keep as they *)
(* were; the AP will enter ap_main afresh.                                 *)
ResetTarget ==
  /\ SipiInit
  /\ \E keep \in SUBSET reg[Target] :
       /\ reg' = [reg EXCEPT ![Target] = keep]
       /\ kept' = keep
  /\ before' = reg[Target]
  /\ mpc' = [mpc EXCEPT ![Target] = "start"]
  /\ UNCHANGED <<shared, tpc, dump, bookkeeping>>

(* AP_INIT_CHECK: every AP dumps to the same addresses. *)
DumpRegisters(p) ==
  /\ SipiEntry(p)
  /\ dump' = reg[p]
  /\ UNCHANGED <<shared, tpc, mpc, reg, before, kept, bookkeeping>>

OtherBoot ==
  /\ \/ BringUp \/ SendSipiSteps
     \/ \E p \in APs : \/ TakeStack(p) \/ CheckAllInit(p) \/ RecordLock(p)
                       \/ RecordId(p) \/ RecordUnlock(p) \/ CountOnline(p)
  /\ UNCHANGED testVars

Idle == Looping /\ UNCHANGED testVars

Next == TestStep \/ ResetTarget \/ OtherBoot \/ Idle
        \/ \E p \in APs : DumpRegisters(p) \/ ApMainStep(p)

Fairness ==
  /\ WF_vars(TestStep \/ ResetTarget
             \/ ((BringUp \/ SendSipiSteps) /\ UNCHANGED testVars))
  /\ SF_vars(SipiLock /\ UNCHANGED testVars)
  /\ \A p \in APs : /\ WF_vars(DumpRegisters(p) \/ ApMainStep(p)
                               \/ (ApSteps(p) /\ UNCHANGED testVars))
                    /\ SF_vars(RecordLock(p) /\ UNCHANGED testVars)

Spec == Init /\ [][Next]_vars /\ Fairness
-----------------------------------------------------------------------------
(* The verdict is about the hypervisor: when the BP reads the dump, the    *)
(* register had been modified before the INIT that preceded the dump, and  *)
(* the dump shows it modified exactly if that INIT did not reset it.  An   *)
(* AP that is late in its first ap_main may take the request meant for its *)
(* next boot; hence settled.                                               *)
VerdictSound ==
  settled /\ tpc = "check" => /\ cur_case_id \in before
                              /\ cur_case_id \in dump <=> cur_case_id \in kept

(* No case leaves anything behind for the next one: neither an answer, nor *)
(* a request, nor a modified register except one INIT failed to reset (the *)
(* second visit to ap_main does not modify it again).                      *)
LeavesClean ==
  settled /\ tpc = "check" => /\ ~wait_ap /\ ~need_modify_init_value
                              /\ reg[Target] = kept

(* Every case that is started is judged.                                   *)
CaseCompletes == tpc = "need" ~> tpc = "check"
=============================================================================
