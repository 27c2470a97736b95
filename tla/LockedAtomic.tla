---------------------------- MODULE LockedAtomic ----------------------------
(***************************************************************************)
(* The atomicity suite, x86/locked_atomic.c.  The BP announces a case in   *)
(* start_case_id, two APs run the accesses under test against each other,  *)
(* flags tell the BP that they are done, and the BP reports.               *)
(*                                                                         *)
(* A setting says which atomicity the processors fail to provide (fault:   *)
(* "none", "lock" for locked instructions, "split" for single accesses),   *)
(* whether the BP comes from the announcement of a case to its first wait  *)
(* before an AP reacts (prompt), and whether the compiler loads a plain C  *)
(* operand anew for each use of it (reload).                               *)
(***************************************************************************)
EXTENDS Integers, Sequences, FiniteSets
LOCAL INSTANCE SequencesExt

CONSTANTS
  Settings,    \* records with the fields build, fault, prompt and reload
  Times,       \* TEST_TIME, MEM_LOOPS and SMP_EXE_LOOPS
  Bits         \* width of ptr: 32, even

ASSUME AtomicAssumption ==
  /\ Settings \subseteq [build : {"native", "non_safety_vm"},
                         fault : {"none", "lock", "split"},
                         prompt : BOOLEAN, reload : BOOLEAN]
  /\ Times \in Nat \ {0}
  /\ Bits \in Nat \ {0}

VARIABLES
  setting,
  val,         \* the flags, counters and operands shared by the processors
  word,        \* the two halves of the memory the read/write cases access
  reg,         \* what each processor has loaded
  code,        \* the rest of the function each processor is in
  turn,        \* index of the case each processor is at
  racing,      \* the BP has announced a case and not come to its first wait
  broken       \* history: atomicity was broken in this case

vars == <<setting, val, word, reg, code, turn, racing, broken>>

BP == 0
AP == {1, 2}
CPU == {BP} \union AP
(* A word holds 0 or 1 in each half: all zeros, all ones, or a mixture; or *)
(* the first or second address a table entry is given.                     *)
Halves == {1, 2}
All(v) == [h \in Halves |-> v]
Empty == [word |-> All(0), old |-> 0]

(* Instructions, each a sequence of length one. *)
Set(v, x) == <<[op |-> "set", var |-> v, val |-> x]>>
Await(vs) == <<[op |-> "await", vars |-> vs]>>
Count == <<[op |-> "count"]>>
Report(kind) == <<[op |-> "report", kind |-> kind]>>
(* Accesses to the word under test: a "byte" has no halves, a "wide"       *)
(* access is split by a faulty processor, the program itself goes          *)
(* "bytewise".                                                             *)
Put(v, width) == <<[op |-> "put", val |-> v, width |-> width, halves |-> Halves]>>
Get(width) == <<[op |-> "get", width |-> width, halves |-> Halves]>>
(* Go on if the value loaded is one of these; else look again, or clear    *)
(* the flag and leave the loop.  A plain operand is loaded again only if   *)
(* the compiler does not keep it.                                          *)
Judge(values, again, plain, flag) ==
  <<[op |-> "judge", values |-> values, again |-> again, plain |-> plain,
     flag |-> flag]>>
Rmw(f, v, arg, lock) ==
  <<[op |-> "rmw", f |-> f, var |-> v, arg |-> arg, lock |-> lock]>>
Loop(a, lock) == <<[op |-> "loop", cpu |-> a, lock |-> lock]>>

Repeat(n, s) == FlattenSeq([i \in 1..n |-> s])

start_sem == <<"start_sem1", "start_sem2">>
stop_flag == <<"stop_flag1", "stop_flag2">>
success_flag == <<"success_flag1", "success_flag2">>
mem_finished_flag == <<"mem_finished_flag1", "mem_finished_flag2">>
xchg_val == <<"xchg_val1", "xchg_val2">>
Reset(names, x) == Set(names[1], x) \o Set(names[2], x)
-----------------------------------------------------------------------------
(* LOCK BTS: each round the APs set their half of the bits of ptr.         *)
(* Mutant of bp_test: the answers of a round are not taken down. *)
bp_test_unanswered ==
  Reset(start_sem, 1) \o Reset(stop_flag, 0) \o Set("pass_time", 0)
  \o Set("ptr", 0) \o Set("stop", 0)
  \o Repeat(Times - 1, Await(stop_flag) \o Count
                       \o Set("ptr", 0) \o Reset(start_sem, 1))
  \o Await(stop_flag) \o Count \o Set("stop", 1)

bp_test ==
  Reset(start_sem, 1) \o Reset(stop_flag, 0) \o Set("pass_time", 0)
  \o Set("ptr", 0) \o Set("stop", 0)
  \o Repeat(Times - 1, Await(stop_flag) \o Reset(stop_flag, 0) \o Count
                       \o Set("ptr", 0) \o Reset(start_sem, 1))
  \o Await(stop_flag) \o Reset(stop_flag, 0) \o Count \o Set("stop", 1)

(* AP 1 sets the even bits, AP 2 the odd ones. *)
SetBits(a, lock) ==
  FlattenSeq([i \in 1..Bits \div 2 |-> Rmw("bts", "ptr", 2 * i + a - 3, lock)])

(* Mutant of ap_test: takes the start signal down after the answer. *)
ap_test_late(a, lock) ==
  SetBits(a, lock)
  \o Set(stop_flag[a], 1) \o Set(start_sem[a], 0) \o Loop(a, lock)

(* One round of ap1_test or ap2_test, and back to the head of its loop. *)
ap_test(a, lock) ==
  SetBits(a, lock)
  \o Set(start_sem[a], 0) \o Set(stop_flag[a], 1) \o Loop(a, lock)

rqmid_32739 == Set("start_case_id", 32739) \o bp_test \o Report("all")
rqmid_32742 == Set("start_case_id", 32742) \o bp_test \o Report("not_all")

(* LOCK INC, in memory of each type. *)
atomic_memory_type_ap_test(a) ==
  Repeat(Times, Rmw("inc", "mem_ptr", 1, TRUE)) \o Set(mem_finished_flag[a], 1)

atomic_memory_type_bp_test ==
  Await(mem_finished_flag) \o Reset(mem_finished_flag, 0) \o Report("sum")

rqmid_mem_type(id) ==
  Set("mem_ptr", 0) \o Set("start_case_id", id) \o atomic_memory_type_bp_test

(* XCHG: three values change places. *)
xchg_instruction_ap_test(a) ==
  Repeat(Times, Rmw("xchg", "xchg_val0", xchg_val[a], TRUE))
  \o Set(stop_flag[a], 1)

(* Mutant of xchg_instruction_bp_test: waits for AP 1 alone. *)
xchg_instruction_bp_hasty ==
  Reset(stop_flag, 0) \o Await(<<"stop_flag1", "stop_flag1">>)
  \o Reset(stop_flag, 0) \o Report("permuted")

xchg_instruction_bp_test ==
  Reset(stop_flag, 0) \o Await(stop_flag) \o Reset(stop_flag, 0)
  \o Report("permuted")

rqmid_37869 ==
  Set("start_case_id", 37869) \o Set("xchg_val1", 15) \o Set("xchg_val2", 240)
  \o Set("xchg_val0", 163) \o xchg_instruction_bp_test
-----------------------------------------------------------------------------
(* Reads and writes.  The AP writes v and looks at what is there: at a     *)
(* copy, at two loads (which may differ), or byte by byte.                 *)
LookOnce(width, flag) == Get(width) \o Judge({0, 1}, <<>>, FALSE, flag)
Look(first, width, plain, flag) ==
  Get(width)
  \o Judge({first}, Get(width) \o Judge({1 - first}, <<>>, FALSE, flag),
           plain, flag)
LookTwice(first, width, flag) == Look(first, width, FALSE, flag)
LookPlain(first, flag) == Look(first, "wide", TRUE, flag)
ReadWrite(a, write, look) ==
  Repeat(Times, write \o look) \o Set(stop_flag[a], 1)

(* In the three cases below AP 2, too, clears success_flag1.               *)
read_write_a_byte_aligned(a) ==
  ReadWrite(a, Put(a - 1, "byte"), LookOnce("byte", "success_flag1"))
read_write_a_word_aligned(a) ==
  ReadWrite(a, Put(a - 1, "wide"), LookOnce("wide", "success_flag1"))
read_write_double_word_aligned(a) ==
  ReadWrite(a, Put(a - 1, "wide"), LookOnce("wide", "success_flag1"))

(* Both APs write 0. *)
read_write_a_quadword_aligned(a) ==
  ReadWrite(a, Put(0, "wide"), LookOnce("wide", success_flag[a]))

read_write_a_word_unaligned(a) ==
  ReadWrite(a, Put(a - 1, "wide"), LookPlain(1, success_flag[a]))
read_write_a_dword_unaligned(a) ==
  ReadWrite(a, Put(a - 1, "wide"), LookPlain(1, success_flag[a]))

(* The asm statement that reads clobbers memory: the load is repeated.     *)
read_write_a_quadword_unaligned(a) ==
  ReadWrite(a, Put(a - 1, "wide"), LookTwice(1, "wide", success_flag[a]))

read_write_a_word_uncached_memory(a) ==
  ReadWrite(a, Put(a - 1, "wide"), LookPlain(1, success_flag[a]))

(* memset and memcmp go byte by byte. *)
update_segment_descriptor(a) ==
  ReadWrite(a, Put(a - 1, "bytewise"), LookTwice(0, "bytewise", success_flag[a]))

(* gva lies in a 2M page, and ptep is the directory entry of that page;    *)
(* install_page takes the page for a page table and writes there.          *)
update_pte(a) == ReadWrite(a, <<>>, LookPlain(0, success_flag[a]))

update_pde(a) ==
  ReadWrite(a, Put(a - 1, "wide"), LookPlain(0, success_flag[a]))

synchronization_on_bp_test(case_id) ==
  Reset(stop_flag, 0) \o Set("start_case_id", case_id)
  \o Await(stop_flag) \o Reset(stop_flag, 0) \o Report("flags")

ReadWriteCase(case_id) ==
  Reset(success_flag, 1) \o synchronization_on_bp_test(case_id)

rqmid_28280 == rqmid_mem_type(28280)
rqmid_28281 == rqmid_mem_type(28281)
rqmid_28283 == rqmid_mem_type(28283)
rqmid_28284 == rqmid_mem_type(28284)
rqmid_28285 == rqmid_mem_type(28285)
rqmid_28256 == ReadWriteCase(28256)
rqmid_28258 == ReadWriteCase(28258)
rqmid_28261 == ReadWriteCase(28261)
rqmid_28264 == ReadWriteCase(28264)
rqmid_28267 == ReadWriteCase(28267)
rqmid_37872 == ReadWriteCase(37872)
rqmid_37873 == ReadWriteCase(37873)
rqmid_28265 == ReadWriteCase(37874)
rqmid_28270 == ReadWriteCase(28270)
rqmid_39502 == ReadWriteCase(39502)
rqmid_39543 == ReadWriteCase(39543)

Case(id, bp, ap(_)) == <<[id |-> id, bp |-> bp, ap |-> <<ap(1), ap(2)>>]>>
Locked(a) == Loop(a, TRUE)
Unlocked(a) == Loop(a, FALSE)

(* main and ap_main: the cases in the order both follow. *)
Cases(build) ==
  Case(32739, rqmid_32739, Locked) \o Case(39502, rqmid_39502, update_pte)
  \o IF build = "non_safety_vm" THEN Case(32742, rqmid_32742, Unlocked)
     ELSE Case(28280, rqmid_28280, atomic_memory_type_ap_test)
          \o Case(28281, rqmid_28281, atomic_memory_type_ap_test)
          \o Case(28283, rqmid_28283, atomic_memory_type_ap_test)
          \o Case(28284, rqmid_28284, atomic_memory_type_ap_test)
          \o Case(28285, rqmid_28285, atomic_memory_type_ap_test)
          \o Case(37869, rqmid_37869, xchg_instruction_ap_test)
          \o Case(28256, rqmid_28256, read_write_a_byte_aligned)
          \o Case(28258, rqmid_28258, read_write_a_word_aligned)
          \o Case(28261, rqmid_28261, read_write_double_word_aligned)
          \o Case(28264, rqmid_28264, read_write_a_quadword_aligned)
          \o Case(28267, rqmid_28267, read_write_a_word_unaligned)
          \o Case(37872, rqmid_37872, read_write_a_dword_unaligned)
          \o Case(37873, rqmid_37873, read_write_a_quadword_unaligned)
          \o Case(37874, rqmid_28265, read_write_a_word_uncached_memory)
          \o Case(28270, rqmid_28270, update_segment_descriptor)
          \o Case(39543, rqmid_39543, update_pde)
Suites == [build \in {"native", "non_safety_vm"} |-> Cases(build)]
main == Suites[setting.build]
-----------------------------------------------------------------------------
Variables ==
  {"start_sem1", "start_sem2", "stop_flag1", "stop_flag2", "success_flag1",
   "success_flag2", "mem_finished_flag1", "mem_finished_flag2", "pass_time",
   "ptr", "stop", "start_case_id", "mem_ptr", "xchg_val0", "xchg_val1",
   "xchg_val2"}

Init ==
  /\ setting \in Settings
  /\ val = [v \in Variables |->
              IF v \in {"success_flag1", "success_flag2"} THEN 1 ELSE 0]
  /\ word = All(0)
  /\ reg = [c \in CPU |-> Empty]
  /\ code = [c \in CPU |-> <<>>]
  /\ turn = [c \in CPU |-> 1]
  /\ racing = FALSE
  /\ broken = FALSE

Runs(c) == c = BP \/ ~(setting.prompt /\ racing)
At(c, op) == code[c] # <<>> /\ Head(code[c]).op = op /\ Runs(c)
Instr(c) == Head(code[c])
Becomes(c, s) ==
  /\ code' = [code EXCEPT ![c] = s]
  /\ racing' = IF c = BP THEN /\ racing \/ (At(BP, "set") /\
                                            Instr(BP).var = "start_case_id")
                              /\ s # <<>> /\ Head(s).op # "await"
               ELSE racing
Advance(c) == Becomes(c, Tail(code[c]))

(* The BP calls the next case; the memory under test is that case's own.   *)
BpBegin ==
  /\ code[BP] = <<>> /\ turn[BP] <= Len(main)
  /\ Becomes(BP, main[turn[BP]].bp)
  /\ word' = All(0) /\ broken' = FALSE
  /\ UNCHANGED <<setting, val, reg, turn>>

(* An AP in ap_main sees the case it waits for announced, and runs it.     *)
ApBegin(a) ==
  /\ code[a] = <<>> /\ turn[a] <= Len(main) /\ Runs(a)
  /\ val["start_case_id"] = main[turn[a]].id
  /\ Becomes(a, main[turn[a]].ap[a])
  /\ turn' = [turn EXCEPT ![a] = @ + 1]
  /\ UNCHANGED <<setting, val, word, reg, broken>>

SetVar(c) ==
  /\ At(c, "set")
  /\ val' = [val EXCEPT ![Instr(c).var] = Instr(c).val]
  /\ Advance(c)
  /\ UNCHANGED <<setting, word, reg, turn, broken>>

AwaitBoth(c) ==
  /\ At(c, "await") /\ \A a \in AP : val[Instr(c).vars[a]] = 1
  /\ Advance(c)
  /\ UNCHANGED <<setting, val, word, reg, turn, broken>>

CountPass(c) ==
  /\ At(c, "count")
  /\ val' = [val EXCEPT !["pass_time"] =
               IF val["ptr"] = 2^Bits - 1 THEN @ + 1 ELSE @]
  /\ Advance(c)
  /\ UNCHANGED <<setting, word, reg, turn, broken>>

(* The head of the loop of ap1_test and ap2_test. *)
LoopHead(c) ==
  /\ \/ /\ At(c, "loop")
        /\ Becomes(c, IF val[start_sem[c]] = 1 THEN ap_test(c, Instr(c).lock)
                      ELSE <<[Instr(c) EXCEPT !.op = "stop?"]>>)
     \/ /\ At(c, "stop?")
        /\ Becomes(c, IF val["stop"] = 1 THEN <<>>
                      ELSE Loop(c, Instr(c).lock))
  /\ UNCHANGED <<setting, val, word, reg, turn, broken>>

Result(i, old) ==
  CASE i.f = "bts" -> IF (old \div 2^i.arg) % 2 = 1 THEN old ELSE old + 2^i.arg
    [] i.f = "inc" -> old + i.arg
    [] i.f = "xchg" -> val[i.arg]
Modified(i, old) ==
  [val EXCEPT ![i.var] = Result(i, old),
              ![IF i.f = "xchg" THEN i.arg ELSE i.var] =
                IF i.f = "xchg" THEN old ELSE Result(i, old)]

(* A read-modify-write is one step if it is locked and LOCK works. *)
ReadModifyWrite(c) ==
  LET i == Instr(c)
      atomic == i.lock /\ setting.fault # "lock"
  IN  \/ /\ At(c, "rmw") /\ atomic
         /\ val' = Modified(i, val[i.var])
         /\ Advance(c)
         /\ UNCHANGED <<setting, word, reg, turn, broken>>
      \/ /\ At(c, "rmw") /\ ~atomic
         /\ reg' = [reg EXCEPT ![c].old = val[i.var]]
         /\ Becomes(c, <<[i EXCEPT !.op = "store"]>> \o Tail(code[c]))
         /\ UNCHANGED <<setting, val, word, turn, broken>>
      \/ /\ At(c, "store")
         /\ val' = Modified(i, reg[c].old)
         /\ broken' = (broken \/ val[i.var] # reg[c].old)
         /\ reg' = [reg EXCEPT ![c] = Empty]
         /\ Advance(c)
         /\ UNCHANGED <<setting, word, turn>>

(* An access that is split goes to the first half, then to the second.     *)
WordAccess(c) ==
  LET i == Instr(c)
      split == /\ i.halves = Halves
               /\ \/ i.width = "bytewise"
                  \/ i.width = "wide" /\ setting.fault = "split"
      now == IF split THEN {1} ELSE i.halves
  IN  /\ \/ /\ At(c, "put")
            /\ word' = [h \in Halves |-> IF h \in now THEN i.val ELSE word[h]]
            /\ UNCHANGED reg
         \/ /\ At(c, "get")
            /\ reg' = [reg EXCEPT ![c].word =
                         [h \in Halves |-> IF h \in now THEN word[h] ELSE @[h]]]
            /\ UNCHANGED word
      /\ Becomes(c, IF split THEN <<[i EXCEPT !.halves = {2}]>> \o Tail(code[c])
                    ELSE Tail(code[c]))
      /\ UNCHANGED <<setting, val, turn, broken>>

(* The comparison; break goes to the last instruction of the function.     *)
Compare(c) ==
  LET i == Instr(c)
      rest == Tail(code[c])
      kept == i.plain /\ ~setting.reload
      values == IF kept THEN {0, 1} ELSE i.values
  IN  /\ At(c, "judge")
      /\ Becomes(c, IF \E v \in values : reg[c].word = All(v) THEN rest
                    ELSE IF i.again # <<>> /\ ~kept THEN i.again \o rest
                    ELSE Set(i.flag, 0) \o <<rest[Len(rest)]>>)
      /\ broken' = (broken \/ reg[c].word[1] # reg[c].word[2])
      /\ reg' = [reg EXCEPT ![c] = Empty]
      /\ UNCHANGED <<setting, val, word, turn>>

Permutation == {15, 240, 163}
Passes(kind) ==
  CASE kind = "all" -> val["pass_time"] = Times
    [] kind = "not_all" -> val["pass_time"] < Times
    [] kind = "sum" -> val["mem_ptr"] = 2 * Times
    [] kind = "permuted" ->
         {val["xchg_val0"], val["xchg_val1"], val["xchg_val2"]} = Permutation
    [] kind = "flags" -> val["success_flag1"] = 1 /\ val["success_flag2"] = 1

(* report, and on to the next case. *)
BpReport ==
  /\ At(BP, "report")
  /\ Advance(BP)
  /\ turn' = [turn EXCEPT ![BP] = @ + 1]
  /\ UNCHANGED <<setting, val, word, reg, broken>>

Step(c) ==
  \/ SetVar(c) \/ AwaitBoth(c) \/ CountPass(c) \/ LoopHead(c)
  \/ ReadModifyWrite(c) \/ WordAccess(c) \/ Compare(c)
Next ==
  \/ BpBegin \/ BpReport \/ Step(BP)
  \/ \E a \in AP : ApBegin(a) \/ Step(a)

(* Every processor keeps running. *)
Fairness ==
  /\ WF_vars(BpBegin \/ BpReport \/ Step(BP))
  /\ \A a \in AP : WF_vars(ApBegin(a) \/ Step(a))
Spec == Init /\ [][Next]_vars /\ Fairness
-----------------------------------------------------------------------------
Reporting == At(BP, "report")
CaseId == main[turn[BP]].id
(* The cases that set up their data after announcing themselves. *)
AnnouncedEarly == {32739, 32742, 37869}
(* The cases whose check itself is not one atomic read, and those for      *)
(* which the compiler decides whether it is.                               *)
ReadsApart == {37873, 28270}
ReadsAgain == {28267, 37872, 37874, 39543}
Reliable ==
  /\ setting.prompt \/ CaseId \notin AnnouncedEarly
  /\ CaseId \notin ReadsApart
  /\ setting.reload => CaseId \notin ReadsAgain

(* report() tells whether atomicity was broken: it accuses the processors  *)
(* (by a FAIL, in 32742 by a PASS, which wants to see it broken) only if   *)
(* an update was lost or a mixed value read, and never overlooks one,      *)
(* except that a later exchange can make good an earlier one in 37869.     *)
VerdictExact ==
  LET kind == Instr(BP).kind
      accuses == Passes(kind) = (kind = "not_all")
  IN  Reporting /\ Reliable =>
        /\ accuses => broken
        /\ broken /\ kind # "permuted" => accuses

(* No AP works on a case the BP has left or has not come to: while an AP   *)
(* is in a function of ap_main, other than on its way out of the loop of   *)
(* ap1_test or ap2_test, the BP waits for that very case.                  *)
InStep ==
  \A a \in AP : code[a] # <<>> /\ Instr(a).op \notin {"loop", "stop?"} =>
    turn[BP] = turn[a] - 1

(* main comes to report_summary if the BP wins the races between the       *)
(* announcement of a case and its setup.                                   *)
SuiteCompletes == setting.prompt => <>(turn[BP] > Len(main))
=============================================================================
