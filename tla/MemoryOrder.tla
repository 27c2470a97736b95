---------------------------- MODULE MemoryOrder ----------------------------
(***************************************************************************)
(* The memory-ordering suite, x86/memory_order.c, and the four ordering    *)
(* cases of the native suite, x86/hsi_multi_proc_mgmt.c, which follow the  *)
(* same protocol under other names (build "hsi").  In each round of a case *)
(* the BP releases the APs through one semaphore each, the APs run a small *)
(* assembly function on X and Y, and the BP reads what they saw in r1..r4. *)
(*                                                                         *)
(* The processors follow the ordering x86 promises for WB, WT and WP       *)
(* memory: a store waits in the processor's store buffer, its own loads    *)
(* see it there, and stores reach memory in program order.  A locked or    *)
(* serializing instruction completes with an empty buffer.  UC memory is   *)
(* accessed in program order, one access at a time.                        *)
(*                                                                         *)
(* The native build of memory_order.c is left out: its ap_main halves the  *)
(* processor's number, so that two processors share an AP's part.          *)
(*                                                                         *)
(* The BP's stores to the semaphores and to memory_order_sync are made at  *)
(* once: a locked instruction follows before the BP depends on an AP's     *)
(* answer to them.                                                         *)
(***************************************************************************)
EXTENDS Integers, Sequences, FiniteSets, TLC

CONSTANTS
  Builds,      \* the programs: two builds of memory_order.c, and "hsi"
  Rounds,      \* rounds of a test, CFG_TEST_MEMORY_ORDERING_TIMES - 1
  LoopCases    \* case ids of the table cases[], in order

ASSUME OrderAssumption ==
  /\ Builds \subseteq {"non_safety_vm", "single_case", "hsi"}
  /\ Rounds \in Nat \ {0}
  /\ LoopCases \in Seq(Nat)

BP == 0
AP == {1, 2}
CPU == {BP} \union AP

(* Instructions of the assembly functions, each a sequence of length one.  *)
St(x, v) == <<[op |-> "store", var |-> x, val |-> v]>>
Ld(r, x) == <<[op |-> "load", reg |-> r, var |-> x]>>
Xchg(r, x) == <<[op |-> "xchg", reg |-> r, var |-> x]>>
Serialize == <<[op |-> "serialize"]>>
Inc == <<[op |-> "inc"]>>
Dec == <<[op |-> "dec"]>>
Await(n) == <<[op |-> "await", val |-> n]>>
Either(p, q) == <<[op |-> "either", one |-> p, other |-> q]>>
(* The register operands of an asm statement are stored when it is over.   *)
Out(regs) == [i \in 1..Len(regs) |-> [op |-> "out", reg |-> regs[i]]]
NULL == <<[op |-> "null"]>>

(* A test: what each processor runs, what the BP resets first, and the     *)
(* values of r1..r4 that memory_ordering_bp_check looks for.               *)
Test(bp, ap1, ap2, init, check) ==
  [code |-> [c \in CPU |-> CASE c = 0 -> bp [] c = 1 -> ap1 [] c = 2 -> ap2],
   init |-> init, check |-> check]
XY == St("X", 0) \o St("Y", 0)
r1r2(v, w) == {<<"r1", v>>, <<"r2", w>>}

StoreLoad(middle, a, b, r) ==
  St(a, 1) \o middle \o Ld(r, b) \o Out(<<r>>)
LoadStore(a, b, r) == Ld(r, a) \o St(b, 1) \o Out(<<r>>)
LoadLoad(r, a, s, b) == Ld(r, a) \o Ld(s, b) \o Out(<<r, s>>)
-----------------------------------------------------------------------------
asm_test_loop_run_wo_instruction ==
  Test(NULL, StoreLoad(<<>>, "X", "Y", "r1"), StoreLoad(<<>>, "Y", "X", "r2"),
       XY, r1r2(0, 0))

asm_test_loop_run_w_instruction ==
  Test(NULL, StoreLoad(Serialize, "X", "Y", "r1"),
       StoreLoad(Serialize, "Y", "X", "r2"), XY, r1r2(0, 0))

(* Mutant of asm_test_144415_table1_mfence: AP 2 has no MFENCE. *)
table1_mfence_dropped ==
  Test(NULL, StoreLoad(Serialize, "X", "Y", "r1"),
       StoreLoad(<<>>, "Y", "X", "r2"), XY, r1r2(0, 0))

asm_test_144415_table1_mfence ==
  Test(NULL, StoreLoad(Serialize, "X", "Y", "r1"),
       StoreLoad(Serialize, "Y", "X", "r2"), XY, r1r2(0, 0))

asm_test_144415_table2_no_mfence ==
  Test(NULL, StoreLoad(<<>>, "X", "Y", "r1"), StoreLoad(<<>>, "Y", "X", "r2"),
       XY, r1r2(0, 0))

asm_test_144414_table2 ==
  Test(NULL, LoadStore("X", "Y", "r1"), LoadStore("Y", "X", "r2"),
       XY, r1r2(1, 1))

asm_test_144414_table3 ==
  Test(NULL, St("X", 1) \o St("Y", 1), LoadLoad("r1", "Y", "r2", "X"),
       XY, r1r2(1, 0))

(* CLFLUSH and CLFLUSHOPT move a line between cache and memory and leave   *)
(* every value what it is.                                                 *)

(* Mutant of asm_test_144414_table4: AP 2 does not take the signal down. *)
table4_signal_kept ==
  Test(NULL,
       Ld("r1", "Y") \o Ld("r2", "X") \o St("X", 1) \o St("Y", 1)
         \o Out(<<"r1", "r2">>) \o Inc,
       Await(1) \o LoadLoad("r1", "Y", "r2", "X"), XY, r1r2(1, 0))

asm_test_144414_table4 ==
  Test(NULL,
       Ld("r1", "Y") \o Ld("r2", "X") \o St("X", 1) \o St("Y", 1)
         \o Out(<<"r1", "r2">>) \o Inc,
       Await(1) \o Dec \o LoadLoad("r1", "Y", "r2", "X"), XY, r1r2(1, 0))

asm_test_144414_table5 ==
  Test(NULL,
       Inc \o Ld("r1", "Y") \o Ld("r2", "X") \o St("X", 1) \o St("Y", 1)
         \o Out(<<"r1", "r2">>),
       Await(1) \o LoadLoad("r1", "Y", "r2", "X") \o Dec, XY, r1r2(1, 0))

asm_test_144414_table6 ==
  Test(NULL, StoreLoad(<<>>, "X", "Y", "r1"), StoreLoad(<<>>, "Y", "X", "r2"),
       XY, r1r2(0, 0))

asm_test_144414_table7 ==
  Test(NULL, St("X", 1) \o Ld("r1", "X") \o Out(<<"r1">>), NULL,
       St("X", 0), {<<"r1", 0>>})

(* xchg takes its register operand as an output only, so that what it      *)
(* writes to memory is whatever the register held.                         *)
asm_test_144414_table8_read ==
  Test(NULL,
       Xchg("r1", "X") \o Ld("r2", "Y") \o Out(<<"r2", "r1">>),
       Xchg("r3", "Y") \o Ld("r4", "X") \o Out(<<"r4", "r3">>),
       XY \o St("r1", 1) \o St("r3", 1),
       {<<"r2", 0>>, <<"r4", 0>>})

asm_test_144414_table8_stores ==
  Test(NULL, Xchg("r1", "X") \o St("Y", 1) \o Out(<<"r1">>),
       LoadLoad("r2", "Y", "r3", "X"), XY \o St("r1", 1),
       {<<"r2", 1>>, <<"r3", 0>>})

asm_test_144414_table10 ==
  Test(St("X", 1) \o St("Y", 1), LoadLoad("r1", "X", "r2", "Y"),
       LoadLoad("r3", "Y", "r4", "X"), XY,
       r1r2(1, 0) \union {<<"r3", 1>>, <<"r4", 0>>})

asm_test_144414_table11 ==
  Test(LoadLoad("r2", "Y", "r3", "X"), St("X", 1), LoadStore("X", "Y", "r1"),
       XY, r1r2(1, 1) \union {<<"r3", 0>>})

asm_test_144414_table14 ==
  Test(NULL,
       St("X", 1) \o Ld("r1", "X") \o Ld("r2", "Y") \o Out(<<"r1", "r2">>),
       St("Y", 1) \o Ld("r3", "Y") \o Ld("r4", "X") \o Out(<<"r3", "r4">>),
       XY, {<<"r2", 0>>, <<"r4", 0>>})

(* The words at address Y and at address Z, on either side of a line       *)
(* boundary: REP STOSD may store them in either order, and one load of     *)
(* both reads them in either order.                                        *)
asm_test_144414_table15 ==
  Test(NULL,
       Either(St("atY", 1) \o St("atZ", 1), St("atZ", 1) \o St("atY", 1)),
       Either(Ld("r1", "atZ") \o Ld("r2", "atY"),
              Ld("r2", "atY") \o Ld("r1", "atZ")) \o Out(<<"r1", "r2">>),
       St("atY", 0) \o St("atZ", 0), r1r2(1, 0))

asm_test_144412_table1 ==
  Test(NULL, StoreLoad(<<>>, "X", "Y", "r1"), StoreLoad(<<>>, "Y", "X", "r2"),
       XY, r1r2(0, 0))

asm_test_144412_table2 ==
  Test(NULL, LoadStore("X", "Y", "r1"), LoadStore("Y", "X", "r2"),
       XY, r1r2(1, 1))

(* x86/hsi_multi_proc_mgmt.c *)
asm_test_no_serializing_instruction ==
  Test(NULL, StoreLoad(<<>>, "X", "Y", "r1"), StoreLoad(<<>>, "Y", "X", "r2"),
       XY, r1r2(0, 0))

asm_test_mov ==
  Test(NULL, StoreLoad(Serialize, "X", "Y", "r1"),
       StoreLoad(Serialize, "Y", "X", "r2"), XY, r1r2(0, 0))

asm_test_cpuid ==
  Test(NULL, StoreLoad(Serialize, "X", "Y", "r1"),
       StoreLoad(Serialize, "Y", "X", "r2"), XY, r1r2(0, 0))

asm_test_mfence ==
  Test(NULL, StoreLoad(Serialize, "X", "Y", "r1"),
       StoreLoad(Serialize, "Y", "X", "r2"), XY, r1r2(0, 0))

ordering_test_type == [
  NO_MOV_1 |-> asm_test_no_serializing_instruction,
  MOV_2 |-> asm_test_mov,
  NO_CPUID_1 |-> asm_test_no_serializing_instruction,
  CPUID_2 |-> asm_test_cpuid,
  NO_MFENCE_1 |-> asm_test_no_serializing_instruction,
  MFENCE_2 |-> asm_test_mfence,
  MEMORY_ORDER |-> asm_test_mfence]

memory_ordering_test_type == [
  LOOP_RUN_WO_INSTRUCTION |-> asm_test_loop_run_wo_instruction,
  LOOP_RUN_W_INSTRUCTION |-> asm_test_loop_run_w_instruction,
  T144415_TABLE_1 |-> asm_test_144415_table2_no_mfence,
  T144415_TABLE_2 |-> asm_test_144415_table1_mfence,
  T144414_TABLE_2 |-> asm_test_144414_table2,
  T144414_TABLE_3 |-> asm_test_144414_table3,
  T144414_TABLE_4 |-> asm_test_144414_table4,
  T144414_TABLE_5 |-> asm_test_144414_table5,
  T144414_TABLE_6 |-> asm_test_144414_table6,
  T144414_TABLE_7 |-> asm_test_144414_table7,
  T144414_TABLE_8_READS |-> asm_test_144414_table8_read,
  T144414_TABLE_8_STORES |-> asm_test_144414_table8_stores,
  T144414_TABLE_10 |-> asm_test_144414_table10,
  T144414_TABLE_11 |-> asm_test_144414_table11,
  T144414_TABLE_14 |-> asm_test_144414_table14,
  T144414_TABLE_15 |-> asm_test_144414_table15,
  T144412_TABLE_1 |-> asm_test_144412_table1,
  T144412_TABLE_2 |-> asm_test_144412_table2]
MAX == "MAX"
tests == memory_ordering_test_type @@ ordering_test_type

(* The functions that run a test: the APs they release and wait for,       *)
(* whether they leave at the first detection, the test whose BP function   *)
(* they call before the wait, and the one they call after it.              *)
one_ap == [aps |-> {1}, leaves |-> FALSE, before |-> MAX, after |-> MAX]
two_ap == [aps |-> {1, 2}, leaves |-> TRUE, before |-> MAX, after |-> MAX]
three_ap == [aps |-> {1, 2}, leaves |-> FALSE,
             before |-> "T144414_TABLE_10", after |-> "T144414_TABLE_11"]
ordering_bp_test_two_ap ==
  [aps |-> {1, 2}, leaves |-> FALSE, before |-> MAX, after |-> MAX]

(* A case calls tests and passes when each detects its outcome (allowed)   *)
(* or never does (not allowed).                                            *)
Call(driver, test, type, allowed) ==
  <<[driver |-> driver, test |-> test, type |-> type, allowed |-> allowed]>>
Case(id, calls) == <<[id |-> id, calls |-> calls]>>

rqmid_24597 == Case(24597, Call(two_ap, "T144415_TABLE_1", "WB", TRUE)
                           \o Call(two_ap, "T144415_TABLE_2", "WB", FALSE))
rqmid_39236 == Case(39236, Call(two_ap, "T144414_TABLE_2", "WB", FALSE))
rqmid_39265 == Case(39265, Call(two_ap, "T144414_TABLE_3", "WT", FALSE))
rqmid_39266 == Case(39266, Call(two_ap, "T144414_TABLE_4", "WP", FALSE))
rqmid_39298 == Case(39298, Call(two_ap, "T144414_TABLE_5", "WB", TRUE))
rqmid_39300 == Case(39300, Call(two_ap, "T144414_TABLE_6", "WB", TRUE))
rqmid_39302 == Case(39302, Call(one_ap, "T144414_TABLE_7", "WP", FALSE))
rqmid_39312 == Case(39312, Call(two_ap, "T144414_TABLE_8_READS", "WB", FALSE)
                        \o Call(two_ap, "T144414_TABLE_8_STORES", "WB", FALSE))
rqmid_39313 == Case(39313, Call(three_ap, "T144414_TABLE_10", "WT", FALSE))
rqmid_39314 == Case(39314, Call(three_ap, "T144414_TABLE_11", "WP", FALSE))
rqmid_39317 == Case(39317, Call(two_ap, "T144414_TABLE_14", "WB", TRUE))
rqmid_39322 == Case(39322, Call(two_ap, "T144414_TABLE_15", "WB", TRUE))
rqmid_39348 == Case(39348, Call(two_ap, "T144412_TABLE_1", "UC", FALSE))
rqmid_39349 == Case(39349, Call(two_ap, "T144412_TABLE_2", "UC", FALSE))

OrderingTest(test, allowed) ==
  Call(ordering_bp_test_two_ap, test, "WB", allowed)
hsi_rqmid_39838 ==
  Case(39838, OrderingTest("NO_MOV_1", TRUE) \o OrderingTest("MOV_2", FALSE))
hsi_rqmid_39839 ==
  Case(39839, OrderingTest("NO_CPUID_1", TRUE)
              \o OrderingTest("CPUID_2", FALSE))
hsi_rqmid_39843 ==
  Case(39843, OrderingTest("NO_MFENCE_1", TRUE)
              \o OrderingTest("MFENCE_2", FALSE))
hsi_rqmid_40151 == Case(40151, OrderingTest("MEMORY_ORDER", FALSE))

loop_run_memory_ordering ==
  [i \in 1..Len(LoopCases) |->
     Case(LoopCases[i],
          Call(two_ap, "LOOP_RUN_WO_INSTRUCTION", "WB", TRUE)
          \o Call(two_ap, "LOOP_RUN_W_INSTRUCTION", "WB", FALSE))[1]]

main(build) ==
  IF build = "single_case" THEN rqmid_39298
  ELSE IF build = "hsi"
  THEN hsi_rqmid_39838 \o hsi_rqmid_39839 \o hsi_rqmid_39843
       \o hsi_rqmid_40151
  ELSE rqmid_24597 \o rqmid_39236 \o rqmid_39265 \o rqmid_39266
       \o rqmid_39300 \o rqmid_39302 \o rqmid_39312 \o rqmid_39313
       \o rqmid_39314
       \o rqmid_39317 \o rqmid_39322 \o rqmid_39348 \o rqmid_39349
       \o loop_run_memory_ordering
-----------------------------------------------------------------------------
VARIABLES
  mem,         \* X, Y, the words at Y and Z, and r1..r4
  buf,         \* each processor's store buffer, oldest store first
  reg,         \* registers: operands of the asm statement in progress
  code,        \* the rest of the function each processor is in
  pat,         \* memory type of each processor's accesses (its IA32_PAT)
  sem,         \* memory_ordering_begin_sem1 and 2
  sem_ap,      \* memory_ordering_begin_sem_ap
  end_sem,     \* memory_ordering_end_sem
  memory_order_sync,
  pc,          \* where each AP is in its loop, and the BP in its driver
  suite,       \* the cases main runs
  at,          \* the BP's place: case, call in it, round, AP to release next
  result,      \* what the calls of the case have returned
  detected,    \* detections in the current call
  ran,         \* history: how often each AP has finished this round
  early,       \* history: this round a load overtook an older store
  undefined    \* history: an xchg of this case wrote 0 to memory

hardware == <<mem, buf, reg, code>>
control == <<pat, sem, end_sem, memory_order_sync, pc>>
place == <<suite, at, result, detected>>
history == <<ran, early, undefined>>
vars == <<hardware, sem_ap, control, place, history>>

Locations == {"X", "Y", "atY", "atZ", "r1", "r2", "r3", "r4"}
Registers == {"r1", "r2", "r3", "r4"}
(* An undefined register holds anything.  Every check is a conjunction of  *)
(* comparisons with 0 or 1: any third value would only be detected less.   *)
Undefined == {0, 1}

case == suite[at.case]
call == case.calls[at.call]
driver == call.driver
test == tests[call.test]

Read(c, x) ==
  LET mine == {i \in 1..Len(buf[c]) : buf[c][i].var = x}
  IN  IF mine = {} THEN mem[x]
      ELSE buf[c][CHOOSE i \in mine : \A j \in mine : j <= i].val
InOrder(c) == pat[c] = "UC"
Drained(c) == buf[c] = <<>>
Sees(check) == \A p \in check : Read(BP, p[1]) = p[2]

Init ==
  /\ mem = [x \in Locations |-> 0]
  /\ buf = [c \in CPU |-> <<>>]
  /\ reg = [c \in CPU |-> [r \in Registers |-> 0]]
  /\ code = [c \in CPU |-> <<>>]
  /\ pat = [c \in CPU |-> "WB"]
  /\ sem = [a \in AP |-> 0]
  /\ sem_ap = 0 /\ end_sem = 0
  /\ memory_order_sync = MAX
  /\ pc = [c \in CPU |-> IF c = BP THEN "start" ELSE "poll"]
  /\ \E build \in Builds : suite = main(build)
  /\ at = [case |-> 1, call |-> 1, round |-> 1, release |-> 1]
  /\ result = <<>> /\ detected = 0
  /\ ran = [a \in AP |-> 0] /\ early = FALSE /\ undefined = FALSE
-----------------------------------------------------------------------------
(* The processors.  At(c, op): the next instruction of c is op.            *)
At(c, op) == code[c] # <<>> /\ Head(code[c]).op = op
Advance(c) == code' = [code EXCEPT ![c] = Tail(@)]
Write(c, x, v) ==
  IF InOrder(c)
  THEN Drained(c) /\ mem' = [mem EXCEPT ![x] = v] /\ UNCHANGED buf
  ELSE buf' = [buf EXCEPT ![c] = Append(@, [var |-> x, val |-> v])]
       /\ UNCHANGED mem

Store(c) ==
  /\ At(c, "store")
  /\ Write(c, Head(code[c]).var, Head(code[c]).val)
  /\ Advance(c)
  /\ UNCHANGED <<reg, sem_ap, control, place, history>>

Load(c) ==
  LET i == Head(code[c])
  IN  /\ At(c, "load")
      /\ InOrder(c) => Drained(c)
      /\ reg' = [reg EXCEPT ![c][i.reg] = Read(c, i.var)]
      /\ early' = (early \/ \E k \in 1..Len(buf[c]) : buf[c][k].var # i.var)
      /\ Advance(c)
      /\ UNCHANGED <<mem, buf, sem_ap, control, place, ran, undefined>>

Exchange(c) ==
  LET i == Head(code[c])
  IN  /\ At(c, "xchg") /\ Drained(c)
      /\ \E v \in Undefined :
           /\ mem' = [mem EXCEPT ![i.var] = v]
           /\ undefined' = (undefined \/ v = 0)
      /\ reg' = [reg EXCEPT ![c][i.reg] = mem[i.var]]
      /\ Advance(c)
      /\ UNCHANGED <<buf, sem_ap, control, place, ran, early>>

Output(c) ==
  /\ At(c, "out")
  /\ Write(c, Head(code[c]).reg, reg[c][Head(code[c]).reg])
  /\ Advance(c)
  /\ UNCHANGED <<reg, sem_ap, control, place, history>>

Serializing(c) ==
  /\ At(c, "serialize") /\ Drained(c)
  /\ Advance(c)
  /\ UNCHANGED <<mem, buf, reg, sem_ap, control, place, history>>

Choose(c) ==
  /\ At(c, "either")
  /\ \E p \in {Head(code[c]).one, Head(code[c]).other} :
       code' = [code EXCEPT ![c] = p \o Tail(@)]
  /\ UNCHANGED <<mem, buf, reg, sem_ap, control, place, history>>

(* atomic_inc, atomic_dec and the wait on memory_ordering_begin_sem_ap.    *)
Signal(c) ==
  /\ \/ At(c, "inc") /\ Drained(c) /\ sem_ap' = sem_ap + 1
     \/ At(c, "dec") /\ Drained(c) /\ sem_ap' = sem_ap - 1
     \/ At(c, "await") /\ sem_ap = Head(code[c]).val /\ UNCHANGED sem_ap
  /\ Advance(c)
  /\ UNCHANGED <<mem, buf, reg, control, place, history>>

Execute(c) ==
  \/ Store(c) \/ Load(c) \/ Exchange(c) \/ Output(c)
  \/ Serializing(c) \/ Choose(c) \/ Signal(c)

(* The oldest store in a buffer reaches memory. *)
Drain(c) ==
  /\ ~Drained(c)
  /\ mem' = [mem EXCEPT ![Head(buf[c]).var] = Head(buf[c]).val]
  /\ buf' = [buf EXCEPT ![c] = Tail(@)]
  /\ UNCHANGED <<reg, code, sem_ap, control, place, history>>
-----------------------------------------------------------------------------
(* The APs: memory_order_ap and memory_ordering_mfence_test1 and 2.        *)
Goto(c, label) == pc' = [pc EXCEPT ![c] = label]

ApPoll(a) ==
  /\ pc[a] = "poll" /\ memory_order_sync # MAX
  /\ Goto(a, "wait")
  /\ UNCHANGED <<hardware, sem_ap, pat, sem, end_sem, memory_order_sync, place,
                 history>>

ApWait(a) ==
  /\ pc[a] = "wait" /\ sem[a] = 1
  /\ Goto(a, "take")
  /\ UNCHANGED <<hardware, sem_ap, pat, sem, end_sem, memory_order_sync, place,
                 history>>

ApTake(a) ==
  /\ pc[a] = "take" /\ Drained(a)
  /\ sem' = [sem EXCEPT ![a] = @ - 1]
  /\ Goto(a, "call")
  /\ UNCHANGED <<hardware, sem_ap, pat, end_sem, memory_order_sync, place,
                 history>>

ApCall(a) ==
  /\ pc[a] = "call"
  /\ code' = [code EXCEPT ![a] =
                tests[memory_order_sync].code[a]]
  /\ Goto(a, "end")
  /\ UNCHANGED <<mem, buf, reg, sem_ap, pat, sem, end_sem, memory_order_sync,
                 place, history>>

ApEnd(a) ==
  /\ pc[a] = "end" /\ code[a] = <<>> /\ Drained(a)
  /\ end_sem' = end_sem + 1
  /\ reg' = [reg EXCEPT ![a] = [r \in Registers |-> 0]]
  /\ ran' = [ran EXCEPT ![a] = @ + 1]
  /\ Goto(a, "poll")
  /\ UNCHANGED <<mem, buf, code, sem_ap, pat, sem, memory_order_sync, place,
                 early, undefined>>

Ap(a) == ApPoll(a) \/ ApWait(a) \/ ApTake(a) \/ ApCall(a) \/ ApEnd(a)
-----------------------------------------------------------------------------
(* The BP: memory_ordering_bp_test_two_ap and its variants, which differ   *)
(* in what driver says, and the report of the case that calls them.        *)
BpStart ==
  /\ pc[BP] = "start"
  /\ memory_order_sync' = call.test
  /\ Goto(BP, "reset")
  /\ UNCHANGED <<hardware, sem_ap, pat, sem, end_sem, place, history>>

(* memory_ordering_memory_type writes the IA32_PAT of the BP alone. *)
BpReset ==
  /\ pc[BP] = "reset"
  /\ sem' = [a \in AP |-> IF a \in driver.aps THEN 0 ELSE sem[a]]
  /\ sem_ap' = IF driver = one_ap THEN sem_ap ELSE 0
  /\ end_sem' = 0
  /\ pat' = [pat EXCEPT ![BP] = call.type]
  /\ at' = [at EXCEPT !.round = 1]
  /\ Goto(BP, "init")
  /\ UNCHANGED <<hardware, memory_order_sync, suite, result, detected, history>>

BpInit ==
  /\ pc[BP] = "init"
  /\ code' = [code EXCEPT ![BP] = test.init]
  /\ at' = [at EXCEPT !.release = 1]
  /\ ran' = [a \in AP |-> 0] /\ early' = FALSE
  /\ Goto(BP, "release")
  /\ UNCHANGED <<mem, buf, reg, sem_ap, pat, sem, end_sem, memory_order_sync,
                 suite, result, detected, undefined>>

(* The atomic_inc of the begin semaphores, in order. *)
BpRelease ==
  /\ pc[BP] = "release" /\ code[BP] = <<>> /\ Drained(BP)
  /\ sem' = [sem EXCEPT ![at.release] = @ + 1]
  /\ IF at.release + 1 \in driver.aps
     THEN /\ at' = [at EXCEPT !.release = @ + 1]
          /\ UNCHANGED <<code, pc>>
     ELSE /\ code' = [code EXCEPT ![BP] =
                        IF call.test = driver.before THEN test.code[BP] ELSE <<>>]
          /\ Goto(BP, "await")
          /\ UNCHANGED at
  /\ UNCHANGED <<mem, buf, reg, sem_ap, pat, end_sem, memory_order_sync, suite,
                 result, detected, history>>

(* Mutant of BpAwait: waits for the first AP to finish, not for all.       *)
BpAwaitFirst ==
  /\ pc[BP] = "await" /\ code[BP] = <<>>
  /\ end_sem >= 1
  /\ code' = [code EXCEPT ![BP] =
                IF call.test = driver.after THEN test.code[BP] ELSE <<>>]
  /\ Goto(BP, "clear")
  /\ UNCHANGED <<mem, buf, reg, sem_ap, pat, sem, end_sem, memory_order_sync,
                 place, history>>

BpAwait ==
  /\ pc[BP] = "await" /\ code[BP] = <<>>
  /\ end_sem = Cardinality(driver.aps)
  /\ code' = [code EXCEPT ![BP] =
                IF call.test = driver.after THEN test.code[BP] ELSE <<>>]
  /\ Goto(BP, "clear")
  /\ UNCHANGED <<mem, buf, reg, sem_ap, pat, sem, end_sem, memory_order_sync,
                 place, history>>

(* Mutant of BpClear: does not take the answers down. *)
BpClearNot ==
  /\ pc[BP] = "clear" /\ code[BP] = <<>>
  /\ Goto(BP, "check")
  /\ UNCHANGED <<hardware, sem_ap, pat, sem, end_sem, memory_order_sync, place,
                 history>>

BpClear ==
  /\ pc[BP] = "clear" /\ code[BP] = <<>>
  /\ end_sem' = 0
  /\ Goto(BP, "check")
  /\ UNCHANGED <<hardware, sem_ap, pat, sem, memory_order_sync, place, history>>

(* The check; two_ap returns 1 at once, without ending the test. *)
BpCheck ==
  LET seen == Sees(test.check)
      last == at.round = Rounds
  IN  /\ pc[BP] = "check"
      /\ detected' = detected + (IF seen THEN 1 ELSE 0)
      /\ IF seen /\ driver.leaves THEN Goto(BP, "return") /\ UNCHANGED at
         ELSE IF last THEN Goto(BP, "finish") /\ UNCHANGED at
         ELSE Goto(BP, "init") /\ at' = [at EXCEPT !.round = @ + 1]
      /\ UNCHANGED <<hardware, sem_ap, pat, sem, end_sem, memory_order_sync,
                     suite, result, history>>

BpFinish ==
  /\ pc[BP] = "finish"
  /\ memory_order_sync' = MAX
  /\ Goto(BP, "return")
  /\ UNCHANGED <<hardware, sem_ap, pat, sem, end_sem, place, history>>

BpReturn ==
  /\ pc[BP] = "return"
  /\ result' = Append(result, detected)
  /\ detected' = 0
  /\ IF at.call < Len(case.calls)
     THEN at' = [at EXCEPT !.call = @ + 1] /\ Goto(BP, "start")
     ELSE UNCHANGED at /\ Goto(BP, "report")
  /\ UNCHANGED <<hardware, sem_ap, pat, sem, end_sem, memory_order_sync, suite,
                 history>>

(* report, with pass as its verdict, and the next case of main. *)
pass == \A j \in 1..Len(case.calls) : (result[j] # 0) = case.calls[j].allowed
BpReport ==
  /\ pc[BP] = "report"
  /\ result' = <<>> /\ undefined' = FALSE /\ early' = FALSE
  /\ IF at.case < Len(suite)
     THEN at' = [at EXCEPT !.case = @ + 1, !.call = 1] /\ Goto(BP, "start")
     ELSE UNCHANGED at /\ Goto(BP, "done")
  /\ UNCHANGED <<hardware, sem_ap, pat, sem, end_sem, memory_order_sync, suite,
                 detected, ran>>

Bp ==
  \/ BpStart \/ BpReset \/ BpInit \/ BpRelease \/ BpAwait \/ BpClear
  \/ BpCheck \/ BpFinish \/ BpReturn \/ BpReport

Next ==
  \/ Bp
  \/ \E a \in AP : Ap(a)
  \/ \E c \in CPU : Execute(c) \/ Drain(c)

(* Every processor keeps running, and no store stays buffered for ever.    *)
Fairness ==
  /\ WF_vars(Bp \/ Execute(BP))
  /\ \A a \in AP : WF_vars(Ap(a) \/ Execute(a))
  /\ \A c \in CPU : WF_vars(Drain(c))
Spec == Init /\ [][Next]_vars /\ Fairness
-----------------------------------------------------------------------------
(* A report of FAIL means that an outcome x86 allows was not met, never    *)
(* that one it forbids was seen (the checks after each                     *)
(* memory_ordering_bp_check).  Two cases are the exception: 39348 sets UC  *)
(* on the BP while the APs make the accesses, and 39312 needs the 1 that   *)
(* its undefined xchg operand need not hold.                               *)
VerdictSound ==
  pc[BP] = "report" =>
    \/ pass
    \/ \E j \in 1..Len(case.calls) : case.calls[j].allowed /\ result[j] = 0
    \/ case.id = 39348
    \/ case.id = 39312 /\ undefined

StoreLoadTests ==
  {"LOOP_RUN_WO_INSTRUCTION", "T144415_TABLE_1", "T144414_TABLE_6",
   "T144414_TABLE_14", "T144412_TABLE_1", "NO_MOV_1", "NO_CPUID_1",
   "NO_MFENCE_1"}

(* A detection of store-load reordering is of this round and real: some    *)
(* processor's load did overtake its older store                           *)
(* (memory_ordering_bp_check reads only what both APs wrote this round).   *)
DetectionReal ==
  pc[BP] = "check" /\ Sees(test.check) /\ call.test \in StoreLoadTests => early

(* The begin and end semaphores hand each round over exactly: an AP that   *)
(* takes its signal finds the current test, with a function for it, every  *)
(* released AP has run once when the BP goes on, no other has, and the     *)
(* BP's resets find nothing to reset.                                      *)
HandOver ==
  /\ \A a \in AP : pc[a] = "call" =>
       memory_order_sync = call.test /\ test.code[a] # NULL
  /\ pc[BP] \in {"clear", "check"} =>
       \A a \in AP : ran[a] = IF a \in driver.aps THEN 1 ELSE 0
  /\ pc[BP] = "reset" =>
       sem_ap = 0 /\ end_sem = 0 /\ \A a \in AP : sem[a] = 0

(* main comes to report_summary: no AP and no round is waited for in vain. *)
SuiteCompletes == <>(pc[BP] = "done")
=============================================================================
