------------------------------- MODULE HsiInv -------------------------------
(***************************************************************************)
(* The inductive invariants behind RoundExact, RightInstruction and        *)
(* VerdictExact of HsiMultiProc: how far a signal has come (HandInv),      *)
(* where the APs can be at each step of a patient BP (Placed), what they   *)
(* have run (DidInv), and what that has made of the operands of each case  *)
(* (CountInv, AddInv, XchgInv, MovInv).                                    *)
(***************************************************************************)
EXTENDS HsiMultiProc

BpLabels == {"case", "delay", "hlt", "halted", "reset", "type", "let_in",
             "go1", "go2", "monitor", "mwait", "await", "check", "clear",
             "none", "report", "order"}
ApLabels == {"boot", "count", "id", "sync", "dec", "type", "begin", "take",
             "run", "store", "end", "order"}

(* The values of the variables the hand-over of a round depends on. *)
HandTypes ==
  /\ bp \in BpLabels /\ case \in 1..7 /\ round \in Nat
  /\ ap \in [AP -> ApLabels] /\ phase \in [AP -> 1..4]
  /\ begin_sim \in [AP -> Int] /\ end_sim \in Int
  /\ did \in [AP -> Seq(0..3)]

(* The course of a signal: not sent; in begin_sim; taken; carried out, not *)
(* yet answered; answered in end_sim.                                      *)
InLoop == {"take", "run", "store", "end"}
Unsent(a) == begin_sim[a] = 0 /\ ap[a] \notin InLoop /\ Len(did[a]) = 0
Sent(a) == /\ begin_sim[a] = 1 /\ ap[a] \notin {"run", "store", "end"}
           /\ Len(did[a]) = 0
Taken(a) == begin_sim[a] = 0 /\ ap[a] \in {"run", "store"} /\ Len(did[a]) = 0
Ended(a) == begin_sim[a] = 0 /\ ap[a] = "end" /\ Len(did[a]) = 1
Answered(a) == begin_sim[a] = 0 /\ ap[a] \notin InLoop /\ Len(did[a]) = 1

(* Has the BP told AP a to go this round?  Has every AP told so answered? *)
Told(a) == \/ a = 1 /\ bp \in {"go2", "mwait", "await"}
           \/ a = 2 /\ bp = "await" /\ Locking
AllIn(a) == bp \in {"check", "clear"} /\ (Locking \/ a = 1)

(* Only a signal that was sent is taken, once, and answered, once; end_sim *)
(* counts the answers.                                                     *)
SignalInv ==
  /\ \A a \in AP :
       IF Told(a) THEN Sent(a) \/ Taken(a) \/ Ended(a) \/ Answered(a)
       ELSE IF AllIn(a) THEN Answered(a)
       ELSE Unsent(a)
  /\ end_sim = (IF Answered(1) THEN 1 ELSE 0) + (IF Answered(2) THEN 1 ELSE 0)
  /\ bp = "go2" => Locking
  /\ bp \in {"monitor", "mwait"} => ~Locking

HandInv == HandTypes /\ SignalInv
-----------------------------------------------------------------------------
(* Parts of the course of a case: of the BP before and in its rounds, of   *)
(* an AP before and in its loop.                                           *)
Opening == {"reset", "type", "let_in"}
InRounds == {"go1", "go2", "await", "check", "clear"}
Entering == {"id", "sync", "dec"}
Loop == {"type", "begin", "take", "run", "store", "end"}

(* Where the BP can be in case k. *)
Course(k) ==
  CASE k = 1 -> {"case", "delay", "report"}
    [] k \in 2..4 -> {"case", "none", "report"} \cup Opening \cup InRounds
    [] k = 5 -> {"case", "delay", "hlt", "halted", "report"}
    [] k = 6 -> {"case", "report"}
    [] k = 7 -> {"case", "monitor", "go1", "mwait", "await", "check", "clear",
                 "none", "report", "order"} \cup Opening

(* Where AP a can be, in phase p at label l with n instructions run, while *)
(* the BP is at b in round r of case k.                                    *)
PlaceAt(a, b, k, r, p, l, n) ==
  /\ k = 1 => p = 1 /\ l \in (CASE b = "case" -> {"boot"}
                                [] b = "delay" -> {"boot", "count", "id"}
                                [] OTHER -> {"id"})
  /\ k = 2 =>
       /\ p = 1
       /\ b = "case" => l = "id"
       /\ b \in Opening => l \in {"id", "sync"}
       /\ b \in InRounds => l \in Loop \/ (l \in Entering /\ n = 0)
       /\ b \in {"none", "report"} => l \in {"type", "begin"}
  /\ k = 3 =>
       /\ b \in {"case", "reset", "type"} => p = 1 /\ l \in {"type", "begin"}
       /\ b = "let_in" => \/ p = 1 /\ l \in {"type", "begin"}
                          \/ p = 2 /\ l \in {"id", "sync"}
       /\ b \in InRounds =>
            \/ p = 1 /\ l = "type" /\ (n # 0 => r = 1)
            \/ p = 1 /\ l \in Loop /\ r = 1 /\ (l = "begin" => n = 0)
            \/ p = 2 /\ l \in Entering /\ (n # 0 => r = 1)
            \/ p = 2 /\ l \in Loop
       /\ b = "none" => p = 2 /\ l \in {"type", "begin"}
       /\ b = "report" => \/ p = 2 /\ l \in {"type", "begin"}
                          \/ p = 3 /\ l = "id"
  /\ k = 4 =>
       /\ b = "case" => p = 3 /\ l = "id"
       /\ b \in Opening => p = 3 /\ l \in {"id", "sync"}
       /\ b \in InRounds => p = 3 /\ (l \in Loop \/ (l \in Entering /\ n = 0))
       /\ b = "none" => p = 3 /\ l \in {"type", "begin"}
       /\ b = "report" => \/ p = 3 /\ l \in {"type", "begin"}
                          \/ p = 4 /\ l = "id"
  /\ k \in {5, 6} => p = 4 /\ l = "id"
  /\ k = 7 =>
       /\ p = 4
       /\ b = "case" => l = "id"
       /\ a = 2 => l \in {"id", "order"}
       /\ a = 1 /\ b \in Opening => l \in {"id", "sync"}
       /\ a = 1 /\ b \in {"monitor", "go1", "mwait", "await", "check", "clear"} =>
            l \in Loop \/ (l \in Entering /\ n = 0)
       /\ a = 1 /\ b = "none" => l \in {"type", "begin"}
       /\ a = 1 /\ b \in {"report", "order"} => l \in {"id", "type", "begin", "order"}

(* start_run_id and test_atomic_type in case k with the BP at b; m: CPUID  *)
(* offers MONITOR.                                                         *)
RunId(b, k, m) ==
  CASE k = 1 -> IF b = "case" THEN 0 ELSE 35955
    [] k = 2 -> IF b = "case" THEN 35955 ELSE 35972
    [] k = 3 -> IF b = "case" THEN 35972 ELSE 35973
    [] k = 4 -> IF b = "case" THEN 35973 ELSE 39720
    [] k \in {5, 6} -> 39720
    [] k = 7 -> IF b = "case" \/ ~m THEN 39720 ELSE 35977
Type(b, k) ==
  IF k \in {3, 4, 7} /\ b \notin {"case", "reset", "type", "report", "order"}
  THEN CASE k = 3 -> 1 [] k = 4 -> 2 [] k = 7 -> 3
  ELSE 0

(* The APs that have yet to take their part of wait_bp. *)
Late(a) == ap[a] \in Entering \/ (case = 3 /\ phase[a] = 1)
WaitFor ==
  IF case \in 2..4 /\ bp \in InRounds
  THEN (IF Late(1) THEN 1 ELSE 0) + (IF Late(2) THEN 1 ELSE 0) ELSE 0

(* Everyone's place.  In the rounds of 35973 an AP may still be in the     *)
(* loop of 35972, where it runs nothing after the first of them.           *)
Placed ==
  /\ bp \in Course(case)
  /\ \A a \in AP : PlaceAt(a, bp, case, round, phase[a], ap[a], Len(did[a]))
  /\ start_run_id = RunId(bp, case, setting.monitor)
  /\ test_atomic_type = Type(bp, case)
  /\ case # 7 => wait_bp = WaitFor
  /\ case = 7 /\ bp \in {"case"} \cup Opening => wait_bp = 0
  /\ case = 7 /\ ~setting.monitor => bp \in {"case", "report", "order"}
  /\ case = 7 /\ setting.monitor /\ bp \in {"report", "order"} => ap[1] # "id"
  /\ round \in 1..LoopCount /\ (bp \in Opening => round = 1)
  /\ case \in 2..4 /\ bp \in {"none", "report"} => round = LoopCount

(* Placed needs a BP that waits for the APs to stop. *)
PlaceInv == setting.patient => Placed

(* What an AP has run is the instruction of the case, or that of the case  *)
(* before in the first round of 35973.                                     *)
DidInv ==
  setting.patient =>
    \A a \in AP : Len(did[a]) = 1 =>
      \/ did[a][1] = TypeOf(Id)
      \/ case = 3 /\ round = 1 /\ did[a][1] = INSTRUCTION_ADD

(* The values of the variables the verdicts depend on. *)
DataTypes ==
  /\ ap_run_nums \in Int /\ fail_ato_cnt \in Nat /\ broken \in BOOLEAN
  /\ val_test0 \in Int /\ val_test1 \in Int /\ val_aligned \in Int \X Int
  /\ reg_val \in [AP -> Int] /\ tmp \in [AP -> Int]

(* 35955: each AP that came to id has counted itself. *)
CountInv ==
  setting.patient /\ case = 1 =>
    ap_run_nums = (IF ap[1] = "id" THEN 1 ELSE 0)
                  + (IF ap[2] = "id" THEN 1 ELSE 0)

(* The rounds of the case that are over, and the additions so far. *)
RoundsOver == IF bp \in {"none", "report"} THEN round ELSE round - 1
Adds == 2 * RoundsOver + Len(did[1]) + Len(did[2])

(* 35972: val_test0 is short of the additions exactly if one was lost, and *)
(* never catches up. An AP between load and store has loaded the present   *)
(* value, or the other AP has added since.                                 *)
AddInv ==
  setting.patient /\ case = 2 /\ bp # "case" =>
    /\ val_test0 <= Adds
    /\ broken <=> val_test0 # Adds
    /\ \A a, b \in AP : a # b /\ ap[a] = "store" =>
         \/ val_test0 = tmp[a]
         \/ val_test0 = tmp[a] + 1 /\ Len(did[b]) = 1

(* 35973: the values are a permutation exactly if no exchange was lost.    *)
(* What an AP has loaded is still in val_test1, or the other AP exchanged  *)
(* it since and has it.                                                    *)
XchgInv ==
  setting.patient /\ case = 3 /\ bp # "case" =>
    /\ broken <=> ~EachRunOk
    /\ ~broken => fail_ato_cnt = 0
    /\ broken /\ bp \in {"clear", "none", "report"} => fail_ato_cnt > 0
    /\ \A a, b \in AP : a # b /\ ap[a] = "store" /\ phase[a] = 2 =>
         \/ tmp[a] = val_test1
         \/ tmp[a] = reg_val[b] /\ Len(did[b]) = 1

(* 39720: as long as no store was split, one of the values is in           *)
(* val_aligned once an AP has stored it.                                   *)
MovInv ==
  setting.patient /\ case = 4 /\ bp # "case" =>
    /\ reg_val[1] = ORG_ATO_VAL1 /\ reg_val[2] = ORG_ATO_VAL2
    /\ ~broken => fail_ato_cnt = 0
    /\ /\ ~broken
       /\ \E a \in AP : Len(did[a]) = 1
       /\ \A a \in AP : ap[a] # "store"
       => MovEachRunOk
=============================================================================
