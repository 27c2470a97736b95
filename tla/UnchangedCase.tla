--------------------------- MODULE UnchangedCase ---------------------------
(***************************************************************************)
(* The "unchanged following INIT" test cases on top of ApBoot, in which    *)
(* the AP polls cur_case_id in an endless loop: case 37029 of x86/avx.c    *)
(* and case 33870 of x86/info_leakage.c.                                   *)
(*                                                                         *)
(* The BP asks three times, resetting the AP in between; ap_start_count    *)
(* tells the AP which request it serves: set a new register value, save    *)
(* the value found after INIT, put the initial value back.  The AP answers *)
(* through wait_ap first and clears cur_case_id afterwards, so the BP may  *)
(* reset it between the two and find the old request served twice.         *)
(*                                                                         *)
(* The two programs differ in what they put back: avx.c the value ap_main  *)
(* found on entry, info_leakage.c the one it found before it set the new   *)
(* value.                                                                  *)
(***************************************************************************)
EXTENDS ApBoot

CONSTANT Programs  \* the test programs considered

ASSUME UnchangedAssumption == Programs \subseteq {"avx", "info_leakage"}

VARIABLES
  program,         \* the test program that runs
  cur_case_id,     \* is a request outstanding?
  wait_ap,         \* the AP's answer
  ap_start_count,  \* requests served
  saved,           \* the value to put back: init_ymm_ap, spec_ctrl_0
  value1, value2,  \* the value set, the value found after INIT
  tpc,             \* where the test case on the BP stands
  mpc,             \* per AP: where ap_main stands
  reg,             \* the register of the last AP
  preserved        \* history: has every INIT preserved the register?

protocol == <<cur_case_id, wait_ap, ap_start_count>>
values == <<saved, value1, value2, reg, preserved>>
testVars == <<program, protocol, values, tpc, mpc>>
vars == <<bootVars, testVars>>

(* Register contents: the initial value, and the one the AP sets. *)
Initial == 0
Changed(v) == (v + 1) % 3

Target == SipiDest
SaveOnEntry == program = "avx"

Init ==
  /\ BootInit
  /\ program \in Programs
  /\ cur_case_id = FALSE /\ wait_ap = FALSE /\ ap_start_count = 0
  /\ saved = Initial /\ value1 = Initial /\ value2 = Initial
  /\ reg = Initial /\ preserved = TRUE
  /\ tpc = "ask1"
  /\ mpc = [p \in APs |-> "start"]
-----------------------------------------------------------------------------
TestGoto(from, to) ==
  bp_pc = "main" /\ tpc = from /\ tpc' = to
  /\ UNCHANGED <<program, mpc, values>>

Ask(from, to) ==
  /\ TestGoto(from, to)
  /\ cur_case_id' = TRUE
  /\ UNCHANGED <<wait_ap, ap_start_count, bootVars>>

WaitApReady(from, to) ==
  /\ TestGoto(from, to)
  /\ wait_ap
  /\ UNCHANGED <<protocol, bootVars>>

TakeAnswer(from, to) ==
  /\ TestGoto(from, to)
  /\ wait_ap' = FALSE
  /\ UNCHANGED <<cur_case_id, ap_start_count, bootVars>>

Reset(from, to) ==
  /\ TestGoto(from, to)
  /\ SendSipi
  /\ UNCHANGED protocol

(* report(value1 == value2) *)
Report ==
  /\ TestGoto("report", "sipi2")
  /\ UNCHANGED <<protocol, bootVars>>

(* avx.c sets ap_start_count to 0 for the next use of the case. *)
ZeroCount ==
  /\ TestGoto("zero", "end")
  /\ ap_start_count' = IF SaveOnEntry THEN 0 ELSE ap_start_count
  /\ UNCHANGED <<cur_case_id, wait_ap, bootVars>>

TestStep ==
  \/ Ask("ask1", "wait1") \/ Ask("ask2", "wait2") \/ Ask("ask3", "wait3")
  \/ WaitApReady("wait1", "take1") \/ TakeAnswer("take1", "sipi1")
  \/ WaitApReady("wait2", "take2") \/ TakeAnswer("take2", "report")
  \/ WaitApReady("wait3", "take3") \/ TakeAnswer("take3", "zero")
  \/ Reset("sipi1", "ask2") \/ Reset("sipi2", "ask3")
  \/ Report \/ ZeroCount
-----------------------------------------------------------------------------
MainGoto(p, from, to) ==
  /\ ap_pc[p] = "main" /\ mpc[p] = from
  /\ mpc' = [mpc EXCEPT ![p] = to]
  /\ UNCHANGED <<bootVars, program, tpc, preserved>>

(* ap_main up to its loop. *)
ApMain(p) ==
  /\ MainGoto(p, "start", IF CpuId(p) = NbCpus - 1 THEN "save" ELSE "halt")
  /\ UNCHANGED <<protocol, saved, value1, value2, reg>>

EntrySave(p) ==
  /\ MainGoto(p, "save", "poll")
  /\ saved' = IF SaveOnEntry THEN reg ELSE saved
  /\ UNCHANGED <<protocol, value1, value2, reg>>

Poll(p) ==
  /\ cur_case_id
  /\ MainGoto(p, "poll", "count")
  /\ UNCHANGED <<protocol, saved, value1, value2, reg>>

ReadCount(p) ==
  /\ MainGoto(p, "count", CASE ap_start_count = 0 -> "set"
                            [] ap_start_count = 1 -> "found"
                            [] OTHER              -> "back")
  /\ UNCHANGED <<protocol, saved, value1, value2, reg>>

SetValue(p) ==
  /\ MainGoto(p, "set", "inc")
  /\ LET old == IF SaveOnEntry THEN saved ELSE reg
     IN /\ saved' = old
        /\ reg' = Changed(old)
        /\ value1' = Changed(old)
  /\ UNCHANGED <<protocol, value2>>

SaveFound(p) ==
  /\ MainGoto(p, "found", "inc")
  /\ value2' = reg
  /\ UNCHANGED <<protocol, saved, value1, reg>>

(* Mutant: the value found after INIT is put back. *)
PutBackFound(p) ==
  /\ MainGoto(p, "back", "answer")
  /\ reg' = value2
  /\ UNCHANGED <<protocol, saved, value1, value2>>

PutBack(p) ==
  /\ MainGoto(p, "back", "answer")
  /\ reg' = saved
  /\ UNCHANGED <<protocol, saved, value1, value2>>

(* Mutant: the AP does not count the request it has served. *)
CountServedNot(p) ==
  /\ MainGoto(p, "inc", "answer")
  /\ UNCHANGED <<protocol, saved, value1, value2, reg>>

CountServed(p) ==
  /\ MainGoto(p, "inc", "answer")
  /\ ap_start_count' = ap_start_count + 1
  /\ UNCHANGED <<cur_case_id, wait_ap, saved, value1, value2, reg>>

(* Mutant: a restoring AP does not answer. *)
AnswerCounted(p) ==
  /\ MainGoto(p, "answer", "clear")
  /\ wait_ap' = (ap_start_count < 2)
  /\ UNCHANGED <<cur_case_id, ap_start_count, saved, value1, value2, reg>>

Answer(p) ==
  /\ MainGoto(p, "answer", "clear")
  /\ wait_ap' = TRUE
  /\ UNCHANGED <<cur_case_id, ap_start_count, saved, value1, value2, reg>>

ClearCase(p) ==
  /\ MainGoto(p, "clear", "poll")
  /\ cur_case_id' = FALSE
  /\ UNCHANGED <<wait_ap, ap_start_count, saved, value1, value2, reg>>

ApMainStep(p) ==
  \/ ApMain(p) \/ EntrySave(p) \/ Poll(p) \/ ReadCount(p) \/ SetValue(p)
  \/ SaveFound(p) \/ PutBack(p) \/ CountServed(p) \/ Answer(p) \/ ClearCase(p)
-----------------------------------------------------------------------------
(* INIT preserves the register, or a faulty hypervisor initialises it. *)
ResetTarget ==
  /\ SipiInit
  /\ \/ UNCHANGED <<reg, preserved>>
     \/ reg' = Initial /\ preserved' = (preserved /\ reg = Initial)
  /\ mpc' = [mpc EXCEPT ![Target] = "start"]
  /\ UNCHANGED <<program, protocol, tpc, saved, value1, value2>>

OtherBoot ==
  /\ BringUp \/ SendSipiSteps \/ \E p \in APs : ApSteps(p)
  /\ UNCHANGED testVars

Idle == Looping /\ UNCHANGED testVars

Next == TestStep \/ ResetTarget \/ OtherBoot \/ Idle
        \/ \E p \in APs : ApMainStep(p)

Fairness ==
  /\ WF_vars(TestStep \/ ResetTarget
             \/ ((BringUp \/ SendSipiSteps) /\ UNCHANGED testVars))
  /\ SF_vars(SipiLock /\ UNCHANGED testVars)
  /\ \A p \in APs : /\ WF_vars(ApMainStep(p)
                               \/ (ApSteps(p) /\ UNCHANGED testVars))
                    /\ SF_vars(RecordLock(p) /\ UNCHANGED testVars)

Spec == Init /\ [][Next]_vars /\ Fairness
-----------------------------------------------------------------------------
(* The verdict is about the hypervisor: at the report the two values       *)
(* compared are the one the AP set and the one it found after an INIT, and *)
(* they agree exactly if every INIT so far preserved the register.         *)
VerdictSound ==
  tpc = "report" => /\ value1 = Changed(Initial)
                    /\ (value1 = value2) <=> preserved

(* The case ends although a request may be served twice or found already   *)
(* cleared.                                                                *)
CaseCompletes == <>(tpc = "end")

(* The third request undoes the first: if INIT preserves the register, it  *)
(* has its initial value again when the case of info_leakage.c ends.  (Not *)
(* that of avx.c, which saves the register anew after each reset.)         *)
PutsBack ==
  program = "info_leakage" /\ tpc = "end" /\ preserved => reg = Initial
=============================================================================
