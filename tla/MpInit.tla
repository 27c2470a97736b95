------------------------------- MODULE MpInit -------------------------------
(***************************************************************************)
(* The multiprocessor-initialization suite, x86/mp_initialization.c: the   *)
(* cases the boot processor (BP) runs one after the other, and what AP 1   *)
(* does in ap_main for each of them.                                       *)
(*                                                                         *)
(* A function is a sequence of instructions; an instruction is one access  *)
(* to shared memory, one interprocessor interrupt, one end of the console  *)
(* lock, or one point where the processor waits.                           *)
(*                                                                         *)
(* What is under test is the hypervisor.  It is correct when fault is      *)
(* "none"; any other value of fault is one requirement it gets wrong.      *)
(*                                                                         *)
(* test_delay(n) is taken to be long enough for the other processor to     *)
(* come to a stop.  prompt adds that the BP comes to its next wait before  *)
(* the AP takes its next step of a handshake (sets wait_ap, or looks at    *)
(* wait_bp or start_run_id).                                               *)
(***************************************************************************)
EXTENDS Integers, Sequences

CONSTANTS Settings   \* pairs: what the hypervisor gets wrong, and prompt

Set(v, x) == <<[op |-> "set", var |-> v, val |-> x]>>
Load(v) == <<[op |-> "load", var |-> v]>>
Inc(v) == Load(v) \o <<[op |-> "store", var |-> v]>>
Await(v, values) == <<[op |-> "await", var |-> v, values |-> values]>>
AwaitAtMost(n, v, values) ==
  <<[op |-> "let", val |-> 0],
    [op |-> "timeout", var |-> v, values |-> values, tries |-> n]>>
Do(op) == <<[op |-> op]>>
Delay == Do("delay")
Hlt == Do("hlt")
HltIf(x) == <<[op |-> "hlt_if", val |-> x]>>
InitIpi(cpu) == <<[op |-> "init", cpu |-> cpu]>>
SipiIpi(cpu, vector) == <<[op |-> "sipi", cpu |-> cpu, vector |-> vector]>>
IrqIpi(cpu) == <<[op |-> "irq", cpu |-> cpu]>>

(* printf: puts writes to the serial port between spin_lock and            *)
(* spin_unlock.                                                            *)
Printf == Do("lock") \o Do("unlock")

(* report: a verdict on the expected values, which is then printed.        *)
Judge(case, expected) ==
  <<[op |-> "judge", case |-> case, expected |-> expected]>> \o Printf
Report(case, v, x) == Judge(case, {<<v, x>>})

ap_sync == Await("wait_bp", {1}) \o Set("wait_bp", 0)
bp_sync == Await("wait_ap", {1}) \o Set("wait_ap", 0)
bp_sync_timeout(n) == AwaitAtMost(n, "wait_ap", {1})
reset_ap == InitIpi("ap") \o SipiIpi("ap", 0)
Start(case) == Set("start_run_id", case) \o Set("wait_ap", 0)
-----------------------------------------------------------------------------
(* The BP's part of each case. *)
Case27160 ==
  Set("start_run_id", 27160) \o bp_sync \o Report(27160, "ap_bsp_flag", 0)
  \o Set("wait_bp", 1)

(* Mutant of Case26995: reports without waiting for a restarted AP. *)
Case26995Hasty ==
  Set("ap_is_running", 0) \o SipiIpi("ap", 0) \o Report(26995, "ap_is_running", 0)

Case26995 ==
  Set("ap_is_running", 0) \o SipiIpi("ap", 0) \o Delay
  \o Report(26995, "ap_is_running", 0)

Case28469 ==
  Set("start_run_id", 28469) \o Set("ap_is_running", 0) \o InitIpi("ap")
  \o InitIpi("ap") \o SipiIpi("ap", 0) \o Delay \o Report(28469, "ap_is_running", 1)

Case33849 ==
  Set("start_run_id", 33849) \o Set("ap_is_running", 0) \o InitIpi("ap")
  \o SipiIpi("ap", 0) \o Delay \o Report(33849, "ap_is_running", 1)

Case26996 ==
  Start(26996) \o reset_ap \o bp_sync \o Report(26996, "bsp_is_running", 0)

(* Mutant of Case39037: the AP is not given time to halt. *)
Case39037Hasty ==
  Start(39037) \o reset_ap \o IrqIpi("ap") \o bp_sync \o Judge(39037, {})

Case39037 ==
  Start(39037) \o reset_ap \o Delay \o IrqIpi("ap") \o bp_sync
  \o Judge(39037, {})

Case39038 ==
  LET again == InitIpi("ap") \o Delay \o Printf
  IN  Start(39038) \o Set("ap_is_running", 0) \o reset_ap \o bp_sync
      \o InitIpi("ap") \o again \o again \o again \o Printf \o SipiIpi("ap", 0)
      \o bp_sync_timeout(5) \o Report(39038, "wait_ap", 1)

Case39039 ==
  Start(39039) \o reset_ap \o bp_sync \o Delay \o SipiIpi("ap", 0) \o Delay
  \o Report(39039, "ap_in_halt", 1) \o Set("ap_in_halt", 255)

Case39053 ==
  Start(39053) \o reset_ap \o bp_sync \o Delay
  \o Report(39053, "ap_in_halt", 1) \o Set("ap_in_halt", 255)

(* Mutant of Case26998: the starts of earlier cases are counted in. *)
Case26998Counted ==
  Start(26998) \o InitIpi("ap") \o SipiIpi("ap", 0) \o Delay \o SipiIpi("ap", 0)
  \o Report(26998, "ap_is_running", 1)

Case26998 ==
  Start(26998) \o Set("ap_is_running", 0) \o InitIpi("ap") \o SipiIpi("ap", 0)
  \o Delay \o SipiIpi("ap", 0) \o Report(26998, "ap_is_running", 1)

Case26997 ==
  Start(26997) \o Set("ap_is_running", 0) \o reset_ap \o bp_sync
  \o Report(26997, "ap_is_running", 1)

(* The cases that look at the CS the AP started with: one STARTUP with     *)
(* vector 2, or vectors 1 and 2.                                           *)
Case39396 ==
  Start(39396) \o Set("ap_is_running", 0) \o InitIpi("ap") \o SipiIpi("ap", 2)
  \o bp_sync \o Report(39396, "cs", 2)

Case39474 ==
  Start(39396) \o Set("ap_is_running", 0) \o InitIpi("ap") \o SipiIpi("ap", 2)
  \o bp_sync \o Report(39474, "cs", 2)

FirstVector(case) ==
  Start(case) \o Set("ap_is_running", 0) \o InitIpi("ap") \o SipiIpi("ap", 1)
  \o SipiIpi("ap", 2) \o bp_sync \o Report(case, "cs", 1)

Case38925 == Start(38925) \o reset_ap \o Hlt \o Printf \o Judge(38925, {})

Case38919 ==
  Start(38919) \o reset_ap \o Hlt \o bp_sync \o Printf
  \o Judge(38919, {})

Case33850 ==
  Start(33850) \o reset_ap \o bp_sync \o Report(33850, "bsp_is_running", 0)

test_MP_list ==
  Case27160 \o Case26995 \o Case28469 \o Case33849 \o Case26996 \o Case39037
  \o Case39038 \o Case39039 \o Case39053 \o Case26998 \o Case26997 \o Case39396
  \o FirstVector(39405) \o FirstVector(39473) \o Case39474 \o Case38925
  \o Case38919 \o Case33850

main == Inc("bsp_is_running") \o Printf \o test_MP_list

Cases == {27160, 26995, 28469, 33849, 26996, 39037, 39038, 39039, 39053, 26998,
          26997, 39396, 39405, 39473, 39474, 38925, 38919, 33850}
-----------------------------------------------------------------------------
(* The AP: what runs from sipi_entry to the switch of ap_main, and the     *)
(* branch of the switch for a case.                                        *)
ApStart ==
  Do("savecs") \o Inc("ap_is_running") \o Printf
  \o Await("start_run_id", Cases) \o Do("switch")

Clear == Set("start_run_id", 0) \o Set("bsp_is_running", 0)
HaltSeen == Set("ap_in_halt", 1) \o Hlt \o Set("ap_in_halt", 0)

ApCase ==
  [c \in Cases |->
     CASE c = 27160 -> Set("start_run_id", 0) \o Do("rdmsr")
                       \o Set("wait_ap", 1) \o ap_sync
       [] c = 26996 -> Clear \o Printf \o SipiIpi("bp", 0) \o Delay
                       \o Set("wait_ap", 1)
       [] c = 33850 -> Clear \o Printf \o InitIpi("bp") \o SipiIpi("bp", 0) \o Delay
                       \o Set("wait_ap", 1)
       [] c = 38919 -> Clear \o Printf \o InitIpi("bp") \o Delay \o IrqIpi("bp")
                       \o Delay \o Set("wait_ap", 1)
       [] c = 38925 -> Clear \o Printf \o SipiIpi("bp", 0) \o Printf \o Delay
                       \o Printf \o IrqIpi("bp") \o Set("wait_ap", 1)
       [] c = 39037 -> Clear \o Hlt \o Set("wait_ap", 1) \o Printf
       [] c = 39038 -> Set("bsp_is_running", 0) \o Set("wait_ap", 1)
                       \o Load("ap_is_running") \o Printf \o HltIf(1) \o Printf
       [] c = 39039 -> Clear \o Set("wait_ap", 1) \o HaltSeen
       [] c = 39053 -> Set("start_run_id", 0) \o Set("wait_ap", 1) \o HaltSeen
       [] c \in {28469, 33849, 26995} -> << >>
       [] OTHER -> Set("start_run_id", 0) \o Printf \o Set("wait_ap", 1)]
-----------------------------------------------------------------------------
VARIABLES mem,      \* the volatile globals, and the CS saved at 0x8000
          cpu,      \* the two processors
          console,  \* the lock of puts
          fault,    \* what the hypervisor gets wrong
          prompt,   \* is the BP at its next wait before the AP goes on?
          passed,   \* the cases reported PASS
          failed    \* the cases reported FAIL

vars == <<mem, cpu, console, fault, prompt, passed, failed>>

CPUs == {"bp", "ap"}
Other(c) == IF c = "bp" THEN "ap" ELSE "bp"

(* What a processor executes: main, ap_main up to its switch, or the       *)
(* branch of the switch for a case.                                        *)
MAIN  == 1
START == 2

Code(c) ==
  CASE cpu[c].fn = MAIN  -> main
    [] cpu[c].fn = START -> ApStart
    [] OTHER             -> ApCase[cpu[c].fn]

AtEnd(c) == cpu[c].pc > Len(Code(c))
Instr(c) == Code(c)[cpu[c].pc]

(* c is about to execute an instruction of kind op. *)
At(c, op) == /\ cpu[c].mode = "run"
             /\ cpu[c].isr = "none"
             /\ ~AtEnd(c)
             /\ Instr(c).op = op

(* c delays in a polling loop and what it polls for is there. *)
Answered(c) == /\ cpu[c].mode = "delay"
               /\ ~AtEnd(c)
               /\ Instr(c).op = "await"
               /\ mem[Instr(c).var] \in Instr(c).values

(* Nothing that c does by itself changes anything: it sleeps, it is in     *)
(* test_delay, or it polls for what is not there.                          *)
Quiet(c) ==
  \/ cpu[c].mode \notin {"run", "delay"}
  \/ cpu[c].mode = "delay" /\ cpu[c].isr = "none" /\ ~Answered(c)
  \/ cpu[c].isr = "enter" /\ console
  \/ At(c, "lock") /\ console
  \/ At(c, "await") /\ mem[Instr(c).var] \notin Instr(c).values
  \/ AtEnd(c) /\ cpu[c].isr = "none" /\ fault = "hlt_ignored"

(* AP 1 has been started by smp_init and is at the top of ap_main. *)
Init ==
  /\ mem = [start_run_id |-> 0, wait_ap |-> 0, wait_bp |-> 0,
            ap_is_running |-> 0, bsp_is_running |-> 0, ap_in_halt |-> 255,
            ap_bsp_flag |-> 0, cs |-> 0]
  /\ cpu = [c \in CPUs |->
              [fn |-> IF c = "bp" THEN MAIN ELSE START,
               pc |-> IF c = "bp" THEN 1 ELSE 2,
               mode |-> "run", isr |-> "none", reg |-> 0, vector |-> 0]]
  /\ console = FALSE
  /\ \E s \in Settings : fault = s[1] /\ prompt = s[2]
  /\ passed = {}
  /\ failed = {}
-----------------------------------------------------------------------------
(* The processor after its instruction. *)
Advance(c) == [cpu EXCEPT ![c].pc = @ + 1]
Verdicts == <<fault, prompt, passed, failed>>

Store(c) ==
  /\ At(c, "set") \/ At(c, "store")
  /\ prompt /\ c = "ap" /\ Instr(c).var = "wait_ap" => cpu["bp"].mode # "run"
  /\ mem' = [mem EXCEPT ![Instr(c).var] =
               IF Instr(c).op = "set" THEN Instr(c).val ELSE cpu[c].reg + 1]
  /\ cpu' = Advance(c)
  /\ UNCHANGED <<console, Verdicts>>

Local(c) ==
  /\ At(c, "load") \/ At(c, "let")
  /\ cpu' = [Advance(c) EXCEPT ![c].reg =
               IF Instr(c).op = "load" THEN mem[Instr(c).var] ELSE Instr(c).val]
  /\ UNCHANGED <<mem, console, Verdicts>>

Rdmsr(c) ==
  /\ At(c, "rdmsr")
  /\ mem' = [mem EXCEPT !.ap_bsp_flag = IF fault = "two_bsps" THEN 1 ELSE 0]
  /\ cpu' = Advance(c)
  /\ UNCHANGED <<console, Verdicts>>

SaveCs(c) ==
  /\ At(c, "savecs")
  /\ mem' = [mem EXCEPT !.cs = cpu[c].vector]
  /\ cpu' = Advance(c)
  /\ UNCHANGED <<console, Verdicts>>

Switch(c) ==
  /\ At(c, "switch")
  /\ cpu' = [cpu EXCEPT ![c].fn = mem.start_run_id, ![c].pc = 1]
  /\ UNCHANGED <<mem, console, Verdicts>>

(* One turn of a polling loop. *)
Poll(c) ==
  /\ At(c, "await") \/ At(c, "timeout")
  /\ prompt /\ c = "ap" => cpu["bp"].mode # "run"
  /\ cpu' = IF \/ mem[Instr(c).var] \in Instr(c).values
               \/ Instr(c).op = "timeout" /\ cpu[c].reg = Instr(c).tries
            THEN Advance(c)
            ELSE [cpu EXCEPT ![c].mode = "delay",
                             ![c].reg = IF Instr(c).op = "timeout" THEN @ + 1
                                                                   ELSE @]
  /\ UNCHANGED <<mem, console, Verdicts>>

BeginDelay(c) ==
  /\ At(c, "delay")
  /\ cpu' = [Advance(c) EXCEPT ![c].mode = "delay"]
  /\ UNCHANGED <<mem, console, Verdicts>>

EndDelay(c) ==
  /\ cpu[c].mode = "delay"
  /\ cpu[c].isr = "none"
  /\ Quiet(Other(c))
  /\ cpu' = [cpu EXCEPT ![c].mode = "run"]
  /\ UNCHANGED <<mem, console, Verdicts>>

Hlting(c) ==
  /\ \/ At(c, "hlt")
     \/ At(c, "hlt_if")
     \/ cpu[c].mode = "run" /\ cpu[c].isr = "none" /\ AtEnd(c) /\ c = "ap"
  /\ LET sleeps == AtEnd(c) \/ At(c, "hlt") \/ cpu[c].reg = Instr(c).val
     IN  /\ AtEnd(c) => fault # "hlt_ignored"
         /\ cpu' = [cpu EXCEPT
                     ![c].pc = IF AtEnd(c) THEN @ ELSE @ + 1,
                     ![c].mode = IF sleeps /\ fault # "hlt_ignored"
                                 THEN "halt" ELSE @]
  /\ UNCHANGED <<mem, console, Verdicts>>

Lock(c) ==
  /\ At(c, "lock")
  /\ ~console
  /\ console' = TRUE
  /\ cpu' = Advance(c)
  /\ UNCHANGED <<mem, Verdicts>>

Unlock(c) ==
  /\ At(c, "unlock")
  /\ console' = FALSE
  /\ cpu' = Advance(c)
  /\ UNCHANGED <<mem, Verdicts>>

(* The handler of vector 0xE0, ipi_isr_for_exit_halt_state on the BP and   *)
(* MP_initialization_ap_isr on the AP, prints a line.                      *)
Isr(c) ==
  /\ cpu[c].mode \in {"run", "delay"}
  /\ \/ /\ cpu[c].isr = "enter" /\ ~console
        /\ cpu' = [cpu EXCEPT ![c].isr = "print"]
        /\ console' = TRUE
     \/ /\ cpu[c].isr = "print"
        /\ cpu' = [cpu EXCEPT ![c].isr = "none"]
        /\ console' = FALSE
  /\ UNCHANGED <<mem, Verdicts>>

JudgeCase(c) ==
  /\ At(c, "judge")
  /\ IF \A e \in Instr(c).expected : mem[e[1]] = e[2]
     THEN passed' = passed \cup {Instr(c).case} /\ UNCHANGED failed
     ELSE failed' = failed \cup {Instr(c).case} /\ UNCHANGED passed
  /\ cpu' = Advance(c)
  /\ UNCHANGED <<mem, console, fault, prompt>>
-----------------------------------------------------------------------------
(* The hypervisor. *)
Running(c) == cpu[c].mode \in {"run", "delay"}
Halted(c) == cpu[c].mode = "halt"
Waiting(c) == cpu[c].mode = "wait_for_sipi"

(* INIT sends an AP that does not yet wait for a SIPI there, and is never  *)
(* delivered to the BP.                                                    *)
InitAccepted(c) ==
  \/ c = "ap" /\ Running(c) /\ fault # "init_running"
  \/ c = "ap" /\ Halted(c) /\ fault # "init_halted"

InitBreaks(c) ==
  \/ c = "ap" /\ Waiting(c) /\ fault = "init_waiting"
  \/ c = "bp" /\ Running(c) /\ fault = "init_bp_running"
  \/ c = "bp" /\ Halted(c) /\ fault = "init_bp_halted"

SendInit(c) ==
  /\ At(c, "init")
  /\ LET d == Instr(c).cpu
     IN  cpu' = [Advance(c) EXCEPT
                  ![d].mode = CASE InitAccepted(d) -> "wait_for_sipi"
                                [] InitBreaks(d) -> "lost"
                                [] OTHER -> @,
                  ![d].isr = IF InitAccepted(d) THEN "none" ELSE @]
  /\ UNCHANGED <<mem, console, Verdicts>>

(* STARTUP starts an AP that waits for it, and is never delivered to any   *)
(* other.                                                                  *)
SipiAccepted(c) ==
  \/ c = "ap" /\ Waiting(c) /\ fault # "sipi_waiting"
  \/ c = "ap" /\ Running(c) /\ fault = "sipi_running"
  \/ c = "ap" /\ Halted(c) /\ fault = "sipi_halted"

SipiBreaks(c) ==
  \/ c = "bp" /\ Running(c) /\ fault = "sipi_bp_running"
  \/ c = "bp" /\ Halted(c) /\ fault = "sipi_bp_halted"

Started(vector) ==
  [fn |-> START, pc |-> 1, mode |-> "run", isr |-> "none", reg |-> 0,
   vector |-> IF fault = "wrong_vector" THEN 0 ELSE vector]

SendSipi(c) ==
  /\ At(c, "sipi")
  /\ LET d == Instr(c).cpu
     IN  cpu' = [Advance(c) EXCEPT
                  ![d] = CASE SipiAccepted(d) -> Started(Instr(c).vector)
                           [] SipiBreaks(d) -> [@ EXCEPT !.mode = "lost"]
                           [] OTHER -> @]
  /\ UNCHANGED <<mem, console, Verdicts>>

(* An interrupt ends hlt; a processor that waits for a SIPI drops it.      *)
SendIrq(c) ==
  /\ At(c, "irq")
  /\ LET d == Instr(c).cpu
     IN  cpu' = [Advance(c) EXCEPT
                  ![d] = IF Running(d) \/ (Halted(d) /\ fault # "irq_ignored")
                         THEN [@ EXCEPT !.isr = "enter",
                                        !.mode = IF @ = "halt" THEN "run" ELSE @]
                         ELSE @]
  /\ UNCHANGED <<mem, console, Verdicts>>

Step(c) ==
  \/ Store(c) \/ Local(c) \/ Rdmsr(c) \/ SaveCs(c) \/ Switch(c)
  \/ Poll(c) \/ BeginDelay(c) \/ EndDelay(c) \/ Hlting(c)
  \/ Lock(c) \/ Unlock(c) \/ Isr(c) \/ JudgeCase(c)
  \/ SendInit(c) \/ SendSipi(c) \/ SendIrq(c)

Next == \E c \in CPUs : Step(c)

(* Each processor runs by itself, and every test_delay ends. *)
Spec == Init /\ [][Next]_vars /\ \A c \in CPUs : WF_vars(Step(c))
-----------------------------------------------------------------------------
(* No case fails on a hypervisor that does what it should: the reports are *)
(* made from values that the case itself, and not the leftovers of another *)
(* case or a late AP, has put there.                                       *)
AllPass == fault = "none" => failed = {}

(* The cases that each fault of the hypervisor must not get through. *)
Tests ==
  {<<"two_bsps", 27160>>, <<"sipi_running", 26995>>, <<"sipi_running", 39405>>,
   <<"sipi_running", 39473>>, <<"init_waiting", 28469>>,
   <<"init_halted", 28469>>, <<"init_halted", 33849>>,
   <<"sipi_waiting", 26997>>, <<"irq_ignored", 39037>>,
   <<"hlt_ignored", 39039>>, <<"hlt_ignored", 39053>>, <<"wrong_vector", 39396>>,
   <<"wrong_vector", 39474>>, <<"sipi_bp_running", 26996>>,
   <<"init_bp_running", 33850>>, <<"sipi_bp_halted", 38925>>,
   <<"init_bp_halted", 38919>>}

(* Two cases and the fault each of them is about and does not find.        *)
Missed == {<<"init_running", 33849>>, <<"sipi_halted", 39039>>}

(* A case does not pass on a hypervisor with the fault the case is there   *)
(* to find: its report comes after the AP or the BP has been exposed to    *)
(* the interrupt, and after a wrong reaction to it has become visible.     *)
(* Two cases do the opposite and never fail.  33849 sends its INIT to an   *)
(* AP that has returned from ap_main and halts, not to a running one; in   *)
(* 39039 an AP that a SIPI started in spite of its halt waits for a        *)
(* start_run_id that its first run has cleared, and leaves ap_in_halt      *)
(* alone.                                                                  *)
Detected ==
  /\ \A t \in Tests : fault = t[1] => t[2] \notin passed
  /\ \A t \in Missed : fault = t[1] => t[2] \notin failed

(* Against a correct hypervisor the suite runs to its end: every handshake *)
(* is answered, every hlt is ended by an interrupt that comes after it,    *)
(* and printf gets the console.  (If the BP is not prompt, case 39038 may  *)
(* stop the AP inside puts.)                                               *)
SuiteCompletes == fault = "none" /\ prompt => <>(AtEnd("bp"))

(* "if timeout 5 expire, wait_ap var still is 0, BP exit waitting": having *)
(* started case 39038, the BP comes to its report whatever the AP does.    *)
Reports39038 ==
  (mem.start_run_id = 39038) ~> (39038 \in passed \cup failed)
=============================================================================
