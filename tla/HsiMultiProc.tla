---------------------------- MODULE HsiMultiProc ----------------------------
(***************************************************************************)
(* The multi-processor cases of the native suite that work in lock step,   *)
(* x86/hsi_multi_proc_mgmt.c: start-up, locked instructions, HLT, PAUSE    *)
(* and MONITOR/MWAIT.  (Its memory-ordering cases are in MemoryOrder.)     *)
(*                                                                         *)
(* A setting says what the processors get wrong (fault: "none", "lock" for *)
(* locked instructions, "split" for aligned stores), what CPUID offers     *)
(* (monitor, deadline), and whether the BP is patient: a delay or a        *)
(* printed report lasts until the APs have come to a stop, and the timer   *)
(* of the HLT case does not expire before the BP halts.                    *)
(***************************************************************************)
EXTENDS Integers, Sequences

CONSTANTS
  Settings,    \* records with the fields fault, monitor, deadline, patient
  LoopCount    \* LOOP_COUNT and LOOP_COUNT_ADD

ASSUME HsiAssumption ==
  /\ Settings \subseteq [fault : {"none", "lock", "split"}, monitor : BOOLEAN,
                         deadline : BOOLEAN, patient : BOOLEAN]
  /\ LoopCount \in Nat \ {0, 1}    \* 100000 and 1000 in the code

AP == {1, 2}   \* the APs with a part in the cases, USING_APS
INSTRUCTION_ADD == 0
INSTRUCTION_XCHG == 1
INSTRUCTION_MOV == 2
INSTRUCTION_MWAIT == 3
NONE_TEST == 0
ORG_ATO_VAL0 == 163
ORG_ATO_VAL1 == 240
ORG_ATO_VAL2 == 15

(* case_suit_multi, in order, and the test of each case. *)
case_suit_multi == <<35955, 35972, 35973, 39720, 35975, 35976, 35977>>
TypeOf(id) ==
  CASE id = 35972 -> INSTRUCTION_ADD [] id = 35973 -> INSTRUCTION_XCHG
    [] id = 39720 -> INSTRUCTION_MOV [] id = 35977 -> INSTRUCTION_MWAIT

(* The cases ap_main waits for after the first, and what it runs there.    *)
ap_cases == <<35972, 35973, 39720, 35977>>

VARIABLES
  setting,
  start_run_id, wait_bp, test_atomic_type, begin_sim, end_sim, ap_run_nums,
  val_test0, val_test1, reg_val,
  val_aligned,     \* its two halves
  monitor_val,
  armed,           \* the BP's monitor: "off", "on", or "hit" by a write
  timer,           \* the BP's deadline timer: "off", "on", "fired"
  fail_ato_cnt,
  bp, case, round, \* the BP's place
  ap, phase,       \* each AP's place; phase indexes ap_cases
  tmp,             \* what an AP loaded of an update that is not atomic
  did,             \* history: the instructions each AP ran in this round
  broken           \* history: atomicity was broken in this case

handshake == <<start_run_id, wait_bp, test_atomic_type, begin_sim, end_sim>>
operands == <<val_test0, val_test1, reg_val, val_aligned, monitor_val>>
devices == <<armed, timer>>
bpState == <<bp, case, round, fail_ato_cnt, ap_run_nums>>
apState == <<ap, phase, tmp>>
history == <<did, broken>>
vars == <<setting, handshake, operands, devices, bpState, apState, history>>

Id == case_suit_multi[case]

Init ==
  /\ setting \in Settings
  /\ start_run_id = 0 /\ wait_bp = 0 /\ test_atomic_type = 0
  /\ begin_sim = [a \in AP |-> 0] /\ end_sim = 0 /\ ap_run_nums = 0
  /\ val_test0 = 0 /\ val_test1 = 0 /\ reg_val = [a \in AP |-> 0]
  /\ val_aligned = <<0, 0>> /\ monitor_val = 0
  /\ armed = "off" /\ timer = "off"
  /\ fail_ato_cnt = 0 /\ bp = "case" /\ case = 1 /\ round = 1
  /\ ap = [a \in AP |-> "boot"] /\ phase = [a \in AP |-> 1]
  /\ tmp = [a \in AP |-> 0]
  /\ did = [a \in AP |-> <<>>] /\ broken = FALSE
-----------------------------------------------------------------------------
(* The APs: ap_main and lock_atomic_test_ap (mwait_test_ap).               *)
ApCase(a) == ap_cases[phase[a]]
Instr(a) == TypeOf(ApCase(a))
Goto(a, label) == ap' = [ap EXCEPT ![a] = label]

(* An AP has come to a stop: it polls, and finds nothing new. *)
Stopped(a) ==
  \/ ap[a] = "boot" /\ start_run_id = 0
  \/ ap[a] = "id" /\ start_run_id # ApCase(a)
  \/ ap[a] = "sync" /\ wait_bp = 0
  \/ ap[a] \in {"type", "begin"} /\ test_atomic_type = Instr(a)
     /\ begin_sim[a] # 1
  \/ ap[a] = "order"

(* At start-up an AP counts itself, if it is in time. *)
ApBoot(a) ==
  /\ \/ /\ ap[a] = "boot" /\ start_run_id # 0
        /\ Goto(a, "count") /\ UNCHANGED ap_run_nums
     \/ /\ ap[a] = "count"
        /\ ap_run_nums' = ap_run_nums + (IF start_run_id = 35955 THEN 1 ELSE 0)
        /\ Goto(a, "id")
  /\ UNCHANGED <<setting, handshake, operands, devices, bp, case, round,
                 fail_ato_cnt, phase, tmp, history>>

(* Only AP 1 takes part in the last case; then both wait in order_ap.      *)
ApId(a) ==
  /\ ap[a] = "id" /\ start_run_id = ApCase(a)
  /\ Goto(a, IF a = 2 /\ ApCase(a) = 35977 THEN "order" ELSE "sync")
  /\ UNCHANGED <<setting, handshake, operands, devices, bpState, phase, tmp,
                 history>>

ap_sync(a) ==
  /\ \/ ap[a] = "sync" /\ wait_bp # 0 /\ Goto(a, "dec") /\ UNCHANGED wait_bp
     \/ ap[a] = "dec" /\ wait_bp' = wait_bp - 1 /\ Goto(a, "type")
  /\ UNCHANGED <<setting, start_run_id, test_atomic_type, begin_sim, end_sim,
                 operands, devices, bpState, phase, tmp, history>>

(* The head of the loop: test_atomic_type, then begin_sim. *)
ApLoop(a) ==
  /\ \/ /\ ap[a] = "type" /\ test_atomic_type = Instr(a)
        /\ Goto(a, "begin") /\ UNCHANGED phase
     \/ /\ ap[a] = "type" /\ test_atomic_type # Instr(a)
        /\ IF phase[a] < Len(ap_cases)
           THEN Goto(a, "id") /\ phase' = [phase EXCEPT ![a] = @ + 1]
           ELSE Goto(a, "order") /\ UNCHANGED phase
     \/ /\ ap[a] = "begin"
        /\ Goto(a, IF begin_sim[a] = 1 THEN "take" ELSE "type")
        /\ UNCHANGED phase
  /\ UNCHANGED <<setting, handshake, operands, devices, bpState, tmp, history>>

ApTake(a) ==
  /\ ap[a] = "take"
  /\ begin_sim' = [begin_sim EXCEPT ![a] = @ - 1]
  /\ Goto(a, "run")
  /\ UNCHANGED <<setting, start_run_id, wait_bp, test_atomic_type, end_sim,
                 operands, devices, bpState, phase, tmp, history>>

Ran(a) == did' = [did EXCEPT ![a] = Append(@, Instr(a))]
Locked == setting.fault # "lock"
InTest(a) == ApCase(a) = Id

lock_add_test(a) ==
  /\ Instr(a) = INSTRUCTION_ADD
  /\ \/ /\ ap[a] = "run" /\ Locked
        /\ val_test0' = val_test0 + 1
        /\ Goto(a, "end") /\ Ran(a) /\ UNCHANGED <<tmp, broken>>
     \/ /\ ap[a] = "run" /\ ~Locked
        /\ tmp' = [tmp EXCEPT ![a] = val_test0]
        /\ Goto(a, "store") /\ UNCHANGED <<val_test0, did, broken>>
     \/ /\ ap[a] = "store"
        /\ val_test0' = tmp[a] + 1
        /\ broken' = (broken \/ (InTest(a) /\ val_test0 # tmp[a]))
        /\ tmp' = [tmp EXCEPT ![a] = 0]
        /\ Goto(a, "end") /\ Ran(a)
  /\ UNCHANGED <<setting, handshake, val_test1, reg_val, val_aligned,
                 monitor_val, devices, bpState, phase>>

lock_xchg_test(a) ==
  /\ Instr(a) = INSTRUCTION_XCHG
  /\ \/ /\ ap[a] = "run" /\ Locked
        /\ val_test1' = reg_val[a]
        /\ reg_val' = [reg_val EXCEPT ![a] = val_test1]
        /\ Goto(a, "end") /\ Ran(a) /\ UNCHANGED <<tmp, broken>>
     \/ /\ ap[a] = "run" /\ ~Locked
        /\ tmp' = [tmp EXCEPT ![a] = val_test1]
        /\ Goto(a, "store") /\ UNCHANGED <<val_test1, reg_val, did, broken>>
     \/ /\ ap[a] = "store"
        /\ val_test1' = reg_val[a]
        /\ reg_val' = [reg_val EXCEPT ![a] = tmp[a]]
        /\ broken' = (broken \/ (InTest(a) /\ val_test1 # tmp[a]))
        /\ tmp' = [tmp EXCEPT ![a] = 0]
        /\ Goto(a, "end") /\ Ran(a)
  /\ UNCHANGED <<setting, handshake, val_test0, val_aligned, monitor_val,
                 devices, bpState, phase>>

lock_mov_test(a) ==
  /\ Instr(a) = INSTRUCTION_MOV
  /\ \/ /\ ap[a] = "run" /\ setting.fault # "split"
        /\ val_aligned' = <<reg_val[a], reg_val[a]>>
        /\ Goto(a, "end") /\ Ran(a) /\ UNCHANGED broken
     \/ /\ ap[a] = "run" /\ setting.fault = "split"
        /\ val_aligned' = [val_aligned EXCEPT ![1] = reg_val[a]]
        /\ Goto(a, "store") /\ UNCHANGED <<did, broken>>
     \/ /\ ap[a] = "store"
        /\ val_aligned' = [val_aligned EXCEPT ![2] = reg_val[a]]
        /\ broken' = (broken \/ (InTest(a) /\ val_aligned[1] # reg_val[a]))
        /\ Goto(a, "end") /\ Ran(a)
  /\ UNCHANGED <<setting, handshake, val_test0, val_test1, reg_val, monitor_val,
                 devices, bpState, phase, tmp>>

(* The write comes after test_delay(100), while AP 2 polls every 5 ms. *)
mwait_test_ap1(a) ==
  /\ Instr(a) = INSTRUCTION_MWAIT /\ ap[a] = "run"
  /\ setting.patient => \A b \in AP \ {a} : Stopped(b)
  /\ monitor_val' = monitor_val + 1
  /\ armed' = IF armed = "on" THEN "hit" ELSE armed
  /\ Goto(a, "end") /\ Ran(a)
  /\ UNCHANGED <<setting, handshake, val_test0, val_test1, reg_val, val_aligned,
                 timer, bpState, phase, tmp, broken>>

ApEnd(a) ==
  /\ ap[a] = "end"
  /\ end_sim' = end_sim + 1
  /\ Goto(a, "type")
  /\ UNCHANGED <<setting, start_run_id, wait_bp, test_atomic_type, begin_sim,
                 operands, devices, bpState, phase, tmp, history>>

Ap(a) ==
  \/ ApBoot(a) \/ ApId(a) \/ ap_sync(a) \/ ApLoop(a) \/ ApTake(a)
  \/ lock_add_test(a) \/ lock_xchg_test(a) \/ lock_mov_test(a)
  \/ mwait_test_ap1(a) \/ ApEnd(a)
-----------------------------------------------------------------------------
(* The BP: main and the case functions, label by label. *)
Locking == Id \in {35972, 35973, 39720}
AllStopped == setting.patient => \A a \in AP : Stopped(a)
BpGoto(label) == bp' = label

(* The start of a case, up to the call of lock_atomic_test_bp or           *)
(* bp_init_sem_for_ap.  35975 and 35976 do not announce themselves, nor    *)
(* does 35977 on a processor without MONITOR.                              *)
Announced == Id \notin {35975, 35976} /\ (Id = 35977 => setting.monitor)
(* Mutant of BpCase: 39720 does not clear the count of failures. *)
BpCaseKeeps ==
  /\ bp = "case"
  /\ start_run_id' = IF Announced THEN Id ELSE start_run_id
  /\ ap_run_nums' = IF Id = 35955 THEN 0 ELSE ap_run_nums
  /\ val_test0' = IF Id = 35972 THEN 0 ELSE val_test0
  /\ val_test1' = IF Id = 35973 THEN ORG_ATO_VAL0 ELSE val_test1
  /\ val_aligned' = IF Id = 39720 THEN <<0, 0>> ELSE val_aligned
  /\ IF Id \in {35973, 39720}
     THEN /\ reg_val' = [a \in AP |-> IF a = 1 THEN ORG_ATO_VAL1
                                               ELSE ORG_ATO_VAL2]
          /\ fail_ato_cnt' = IF Id = 35973 THEN 0 ELSE fail_ato_cnt
     ELSE UNCHANGED <<reg_val, fail_ato_cnt>>
  /\ monitor_val' = IF Id = 35977 /\ Announced THEN 0 ELSE monitor_val
  /\ BpGoto(CASE Id \in {35955, 35975} -> "delay"
               [] Id \in {35976, 35977} /\ ~Announced -> "report"
               [] OTHER -> "reset")
  /\ round' = 1 /\ broken' = FALSE /\ did' = [a \in AP |-> <<>>]
  /\ UNCHANGED <<setting, wait_bp, test_atomic_type, begin_sim, end_sim,
                 devices, case, apState>>

BpCase ==
  /\ bp = "case"
  /\ start_run_id' = IF Announced THEN Id ELSE start_run_id
  /\ ap_run_nums' = IF Id = 35955 THEN 0 ELSE ap_run_nums
  /\ val_test0' = IF Id = 35972 THEN 0 ELSE val_test0
  /\ val_test1' = IF Id = 35973 THEN ORG_ATO_VAL0 ELSE val_test1
  /\ val_aligned' = IF Id = 39720 THEN <<0, 0>> ELSE val_aligned
  /\ IF Id \in {35973, 39720}
     THEN /\ reg_val' = [a \in AP |-> IF a = 1 THEN ORG_ATO_VAL1
                                               ELSE ORG_ATO_VAL2]
          /\ fail_ato_cnt' = 0
     ELSE UNCHANGED <<reg_val, fail_ato_cnt>>
  /\ monitor_val' = IF Id = 35977 /\ Announced THEN 0 ELSE monitor_val
  /\ BpGoto(CASE Id \in {35955, 35975} -> "delay"
               [] Id \in {35976, 35977} /\ ~Announced -> "report"
               [] OTHER -> "reset")
  /\ round' = 1 /\ broken' = FALSE /\ did' = [a \in AP |-> <<>>]
  /\ UNCHANGED <<setting, wait_bp, test_atomic_type, begin_sim, end_sim,
                 devices, case, apState>>

(* test_delay(8). *)
BpDelay ==
  /\ bp = "delay" /\ AllStopped
  /\ BpGoto(IF Id = 35955 THEN "report" ELSE "hlt")
  /\ timer' = IF Id = 35975 /\ setting.deadline THEN "on" ELSE timer
  /\ UNCHANGED <<setting, handshake, operands, armed, case, round, fail_ato_cnt,
                 ap_run_nums, apState, history>>

(* hlt_checking: only an interrupt that comes after HLT ends it. *)
BpHlt ==
  /\ bp = "hlt" /\ BpGoto("halted")
  /\ UNCHANGED <<setting, handshake, operands, devices, case, round,
                 fail_ato_cnt, ap_run_nums, apState, history>>

check_next_instruction_with_irq ==
  /\ timer = "on" /\ bp \in {"hlt", "halted"}
  /\ setting.patient => bp = "halted"
  /\ timer' = "fired"
  /\ bp' = IF bp = "halted" THEN "report" ELSE bp
  /\ UNCHANGED <<setting, handshake, operands, armed, case, round, fail_ato_cnt,
                 ap_run_nums, apState, history>>

(* lock_atomic_test_bp and bp_init_sem_for_ap: reset, choose the test, let *)
(* the APs in.                                                             *)
BpReset ==
  /\ \/ /\ bp = "reset" /\ BpGoto("type")
        /\ begin_sim' = [a \in AP |-> 0] /\ end_sim' = 0
        /\ UNCHANGED <<test_atomic_type, wait_bp>>
     \/ /\ bp = "type" /\ BpGoto("let_in")
        /\ test_atomic_type' = TypeOf(Id)
        /\ UNCHANGED <<begin_sim, end_sim, wait_bp>>
     \/ /\ bp = "let_in" /\ BpGoto(IF Locking THEN "go1" ELSE "monitor")
        /\ wait_bp' = 2
        /\ UNCHANGED <<begin_sim, end_sim, test_atomic_type>>
  /\ UNCHANGED <<setting, start_run_id, operands, devices, case, round,
                 fail_ato_cnt, ap_run_nums, apState, history>>

(* Tell the APs to start. *)
BpGo ==
  /\ \/ /\ bp = "go1" /\ begin_sim' = [begin_sim EXCEPT ![1] = @ + 1]
        /\ BpGoto(IF Locking THEN "go2" ELSE "mwait")
     \/ /\ bp = "go2" /\ begin_sim' = [begin_sim EXCEPT ![2] = @ + 1]
        /\ BpGoto("await")
  /\ UNCHANGED <<setting, start_run_id, wait_bp, test_atomic_type, end_sim,
                 operands, devices, case, round, fail_ato_cnt, ap_run_nums,
                 apState, history>>

(* Mutant of BpMonitor: the monitor is armed after the AP was told to go. *)
BpMonitorLate ==
  /\ \/ bp = "monitor" /\ BpGoto("go1") /\ UNCHANGED armed
     \/ bp = "mwait" /\ armed = "off" /\ armed' = "on" /\ UNCHANGED bp
     \/ bp = "mwait" /\ armed = "hit" /\ armed' = "off" /\ BpGoto("await")
  /\ UNCHANGED <<setting, handshake, operands, timer, case, round,
                 fail_ato_cnt, ap_run_nums, apState, history>>

(* monitor_checking and mwait_checking. *)
BpMonitor ==
  /\ \/ bp = "monitor" /\ armed' = "on" /\ BpGoto("go1")
     \/ bp = "mwait" /\ armed \in {"off", "hit"} /\ armed' = "off"
        /\ BpGoto("await")
  /\ UNCHANGED <<setting, handshake, operands, timer, case, round,
                 fail_ato_cnt, ap_run_nums, apState, history>>

BpAwait ==
  /\ bp = "await" /\ end_sim = (IF Locking THEN 2 ELSE 1)
  /\ BpGoto("check")
  /\ UNCHANGED <<setting, handshake, operands, devices, case, round,
                 fail_ato_cnt, ap_run_nums, apState, history>>

(* check_result_for_each_run: xchg_check_array lists the permutations.     *)
EachRunOk ==
  {val_test1, reg_val[1], reg_val[2]}
    = {ORG_ATO_VAL0, ORG_ATO_VAL1, ORG_ATO_VAL2}
MovEachRunOk ==
  val_aligned \in {<<v, v>> : v \in {ORG_ATO_VAL1, ORG_ATO_VAL2}}
BpCheck ==
  /\ bp = "check" /\ BpGoto("clear")
  /\ fail_ato_cnt' = fail_ato_cnt +
       (IF \/ Id = 35973 /\ ~EachRunOk
           \/ Id = 39720 /\ ~MovEachRunOk THEN 1 ELSE 0)
  /\ UNCHANGED <<setting, handshake, operands, devices, case, round,
                 ap_run_nums, apState, history>>

(* Mutant of BpClear: end_sim is not taken down. *)
BpClearNot ==
  /\ bp = "clear"
  /\ UNCHANGED end_sim
  /\ did' = [a \in AP |-> <<>>]
  /\ IF Locking /\ round < LoopCount
     THEN BpGoto("go1") /\ round' = round + 1
     ELSE BpGoto("none") /\ UNCHANGED round
  /\ UNCHANGED <<setting, start_run_id, wait_bp, test_atomic_type, begin_sim,
                 operands, devices, case, fail_ato_cnt, ap_run_nums, apState,
                 broken>>

BpClear ==
  /\ bp = "clear"
  /\ end_sim' = 0
  /\ did' = [a \in AP |-> <<>>]
  /\ IF Locking /\ round < LoopCount
     THEN BpGoto("go1") /\ round' = round + 1
     ELSE BpGoto("none") /\ UNCHANGED round
  /\ UNCHANGED <<setting, start_run_id, wait_bp, test_atomic_type, begin_sim,
                 operands, devices, case, fail_ato_cnt, ap_run_nums, apState,
                 broken>>

(* Mutant of BpNone: the test is not called off. *)
BpNoneNot ==
  /\ bp = "none" /\ BpGoto("report")
  /\ UNCHANGED test_atomic_type
  /\ UNCHANGED <<setting, start_run_id, wait_bp, begin_sim, end_sim, operands,
                 devices, case, round, fail_ato_cnt, ap_run_nums, apState,
                 history>>

BpNone ==
  /\ bp = "none" /\ BpGoto("report")
  /\ test_atomic_type' = NONE_TEST
  /\ UNCHANGED <<setting, start_run_id, wait_bp, begin_sim, end_sim, operands,
                 devices, case, round, fail_ato_cnt, ap_run_nums, apState,
                 history>>

(* report, with this verdict, prints a line: then the next case. *)
pass ==
  CASE Id = 35955 -> ap_run_nums = 2
    [] Id = 35972 -> val_test0 = 2 * LoopCount
    [] Id \in {35973, 39720} -> fail_ato_cnt = 0
    [] Id = 35977 -> setting.monitor
    [] OTHER -> TRUE
BpReport ==
  /\ bp = "report" /\ AllStopped
  /\ IF case < Len(case_suit_multi)
     THEN case' = case + 1 /\ BpGoto("case")
     ELSE UNCHANGED case /\ BpGoto("order")
  /\ UNCHANGED <<setting, handshake, operands, devices, round, fail_ato_cnt,
                 ap_run_nums, apState, history>>

Bp ==
  \/ BpCase \/ BpDelay \/ BpHlt \/ BpReset \/ BpGo \/ BpMonitor
  \/ BpAwait \/ BpCheck \/ BpClear \/ BpNone \/ BpReport

Next == Bp \/ check_next_instruction_with_irq \/ \E a \in AP : Ap(a)

(* The processors keep running and an armed timer expires. *)
Fairness ==
  /\ WF_vars(Bp)
  /\ WF_vars(check_next_instruction_with_irq)
  /\ \A a \in AP : WF_vars(Ap(a))
Spec == Init /\ [][Next]_vars /\ Fairness
-----------------------------------------------------------------------------
(* The begin_sim and end_sim counters hand each round over exactly: when   *)
(* the BP has seen end_sim, every AP with a part in the case has run one   *)
(* instruction in this round and the others none, and every signal has     *)
(* been taken (lock_atomic_test_bp against lock_atomic_test_ap), however   *)
(* late an AP is.                                                          *)
RoundExact ==
  bp \in {"check", "clear"} =>
    \A a \in AP : /\ Len(did[a]) = IF Locking \/ a = 1 THEN 1 ELSE 0
                  /\ begin_sim[a] = 0

(* An AP runs the instruction its case is about: a loop of the case before *)
(* is left before the next round begins, with one exception.  NONE_TEST is *)
(* INSTRUCTION_ADD, so the loop of 35972 is left only when 35973 sets its  *)
(* type, and an AP that has just compared the old type adds once more, in  *)
(* the first round of 35973 (lock_atomic_test_ap).                         *)
RightInstruction ==
  setting.patient /\ bp \in {"check", "clear"} =>
    \A a \in AP : \A i \in 1..Len(did[a]) :
      \/ did[a][i] = TypeOf(Id)
      \/ Id = 35973 /\ round = 1 /\ did[a][i] = INSTRUCTION_ADD

(* Every AP that is in time is counted, a lost increment or a lost         *)
(* exchange fails its case, and nothing but a broken access fails one.     *)
(* (Two halves of a MOV that were interleaved may still agree at the end   *)
(* of the round: 39720 need not see it.)                                   *)
VerdictExact ==
  bp = "report" /\ setting.patient =>
    /\ Id \in {35972, 35973} => (pass <=> ~broken)
    /\ Id = 39720 => (pass \/ broken)
    /\ Id = 35955 => pass

(* The suite comes to its ordering cases with AP 1 and AP 2 in order_ap,   *)
(* where CPUID offers what it needs: MWAIT is not entered after the write  *)
(* it waits for (monitor_checking precedes begin_sim[0]++) and no AP       *)
(* misses a start_run_id.                                                  *)
SuiteCompletes ==
  setting.patient /\ setting.monitor /\ setting.deadline =>
    <>(bp = "order" /\ \A a \in AP : ap[a] = "order")
=============================================================================
