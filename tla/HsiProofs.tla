------------------------------ MODULE HsiProofs ------------------------------
(***************************************************************************)
(* Proofs about x86/hsi_multi_proc_mgmt.c, for every number of rounds.     *)
(*                                                                         *)
(* First, begin_sim and end_sim hand every round over exactly, for every   *)
(* fault of the processors and however impatient the BP is.  HandInv is    *)
(* inductive: it says how far each signal has come when the BP is at a     *)
(* given label.  A step of an AP moves its own signal on; a step of the BP *)
(* outside the rounds finds no signal out (QuietStep).                     *)
(*                                                                         *)
(* Second, an AP runs the instruction its case is about                    *)
(* (RightInstruction): where the APs can be at each step of a BP that is   *)
(* patient.  Placed is inductive relative to HandInv, with one step per    *)
(* action: PlaceApStep for the APs, PlaceBpCase, PlaceBpReport (where the  *)
(* BP waits for the APs to stop) and PlaceBpOther for the BP.  DidInv      *)
(* follows from it: an AP that runs an instruction is in the phase of the  *)
(* case, or in that of 35972 during the first round of 35973.              *)
(*                                                                         *)
(* Third, the verdicts are right (VerdictExact): 35955, 35972, 35973 and   *)
(* 39720 report what happened to the operands.  Each case has an invariant *)
(* of its own (HsiInv), proved relative to HandInv, Placed and DataTypes:  *)
(* CountInv, AddInv, XchgInv, MovInv.  RoundSteps says what can happen to  *)
(* the operands during a case, InstrSteps which instruction that is.       *)
(***************************************************************************)
EXTENDS HsiInv, TLAPS

(* The numbers and tests of the cases, by their place in case_suit_multi and *)
(* in the list of ap_main.                                                 *)
LEMMA CaseValues ==
  ASSUME case \in 1..7
  PROVE  /\ case = 1 => Id = 35955
         /\ case = 2 => Id = 35972 /\ TypeOf(Id) = 0
         /\ case = 3 => Id = 35973 /\ TypeOf(Id) = 1
         /\ case = 4 => Id = 39720 /\ TypeOf(Id) = 2
         /\ case = 5 => Id = 35975
         /\ case = 6 => Id = 35976
         /\ case = 7 => Id = 35977 /\ TypeOf(Id) = 3
         /\ Locking <=> case \in 2..4
<1>1. case = 1 \/ case = 2 \/ case = 3 \/ case = 4 \/ case = 5 \/ case = 6
      \/ case = 7
  OBVIOUS
<1> QED
  BY <1>1 DEF Id, case_suit_multi, TypeOf, Locking, INSTRUCTION_ADD,
              INSTRUCTION_XCHG, INSTRUCTION_MOV, INSTRUCTION_MWAIT

LEMMA PhaseValues ==
  ASSUME phase \in [AP -> 1..4], NEW a \in AP
  PROVE  /\ phase[a] = 1 => ApCase(a) = 35972
         /\ phase[a] = 2 => ApCase(a) = 35973
         /\ phase[a] = 3 => ApCase(a) = 39720
         /\ phase[a] = 4 <=> ApCase(a) = 35977
         /\ Instr(a) = phase[a] - 1
         /\ Len(ap_cases) = 4 /\ phase[a] \in 1..4
<1>1. phase[a] = 1 \/ phase[a] = 2 \/ phase[a] = 3 \/ phase[a] = 4
  BY DEF AP
<1> QED
  BY <1>1 DEF Instr, TypeOf, ApCase, ap_cases, INSTRUCTION_ADD,
     INSTRUCTION_XCHG, INSTRUCTION_MOV, INSTRUCTION_MWAIT

LEMMA HandInit == Init => HandInv
  BY DEF Init, HandInv, HandTypes, SignalInv, AP, BpLabels, ApLabels, Unsent,
         Answered, InLoop, Told, AllIn

(* A step of an AP moves its signal one stage on, or not at all. *)
LEMMA HandApStep ==
  ASSUME HandInv, NEW a \in AP, Ap(a)
  PROVE  HandInv'
<1> USE DEF AP, HandInv, HandTypes, SignalInv, Unsent, Sent, Taken, Ended,
        Answered, InLoop, Told, AllIn, ApLabels
<1>0. Instr(a) \in 0..3 /\ Len(ap_cases) = 4
  BY PhaseValues
<1>a. ASSUME UNCHANGED case PROVE Locking' <=> Locking
  BY <1>a DEF Locking, Id
<1>b. ASSUME Ran(a)
      PROVE  /\ did' \in [AP -> Seq(0..3)] /\ Len(did'[a]) = Len(did[a]) + 1
             /\ \A b \in AP \ {a} : did'[b] = did[b]
  BY <1>b, <1>0 DEF Ran
<1>c. ASSUME ap[a] \in {"run", "store"},
             \/ Goto(a, "store") /\ UNCHANGED did
             \/ Goto(a, "end") /\ Ran(a),
             UNCHANGED <<bp, case, round, phase, begin_sim, end_sim>>
      PROVE  HandInv'
  <2>1. CASE Goto(a, "store") /\ UNCHANGED did
    BY <1>a, <1>c, <2>1 DEF Goto
  <2>2. CASE Goto(a, "end") /\ Ran(a)
    <3>1. a = 1 \/ a = 2
      OBVIOUS
    <3>2. HandTypes'
      BY <1>b, <1>c, <2>2 DEF Goto
    <3>a. Taken(a)
      BY <1>c, <3>1
    <3>3. Ended(a)'
      BY <1>b, <1>c, <2>2, <3>a DEF Goto
    <3>4. \A b \in AP \ {a} : ap'[b] = ap[b] /\ did'[b] = did[b]
      BY <1>b, <2>2 DEF Goto
    <3>5. CASE a = 1
      BY <1>a, <1>c, <3>2, <3>a, <3>3, <3>4, <3>5
    <3>6. CASE a = 2
      BY <1>a, <1>c, <3>2, <3>a, <3>3, <3>4, <3>6
    <3> QED
      BY <3>1, <3>5, <3>6
  <2> QED
    BY <1>c, <2>1, <2>2
<1>1. CASE ApBoot(a)
  BY <1>1, <1>a DEF ApBoot, Goto, handshake, history
<1>2. CASE ApId(a)
  BY <1>2, <1>a DEF ApId, Goto, handshake, history, bpState
<1>3. CASE ap_sync(a)
  BY <1>3, <1>a DEF ap_sync, Goto, history, bpState
<1>4. CASE ApLoop(a)
  BY <1>4, <1>a, <1>0 DEF ApLoop, Goto, handshake, history, bpState
<1>5. CASE ApTake(a)
  BY <1>5, <1>a DEF ApTake, Goto, history, bpState
<1>6. CASE lock_add_test(a)
  BY <1>6, <1>c DEF lock_add_test, handshake, bpState
<1>7. CASE lock_xchg_test(a)
  BY <1>7, <1>c DEF lock_xchg_test, handshake, bpState
<1>8. CASE lock_mov_test(a)
  BY <1>8, <1>c DEF lock_mov_test, handshake, bpState
<1>9. CASE mwait_test_ap1(a)
  BY <1>9, <1>c DEF mwait_test_ap1, handshake, bpState
<1>10. CASE ApEnd(a)
  BY <1>10, <1>a DEF ApEnd, Goto, history, bpState
<1> QED
  BY <1>1, <1>2, <1>3, <1>4, <1>5, <1>6, <1>7, <1>8, <1>9, <1>10 DEF Ap

(* The BP moves while no signal is out: it may reset the counters. *)
Quiet == {"go2", "mwait", "await", "check", "clear"}
LEMMA QuietStep ==
  ASSUME HandInv, bp \notin Quiet, bp' \in BpLabels \ Quiet,
         case' \in 1..7, round' \in Nat, bp' = "monitor" => ~Locking',
         UNCHANGED <<ap, phase>>, end_sim' \in {end_sim, 0},
         begin_sim' = begin_sim \/ begin_sim' = [a \in AP |-> 0],
         did' = did \/ did' = [a \in AP |-> <<>>]
  PROVE  HandInv'
<1>1. HandTypes'
  <2>1. [a \in AP |-> <<>>] \in [AP -> Seq(0..3)]
    OBVIOUS
  <2>a. did' \in [AP -> Seq(0..3)]
    BY <2>1 DEF HandInv, HandTypes
  <2>2. begin_sim' \in [AP -> Int]
    BY DEF HandInv, HandTypes
  <2>3. end_sim' \in Int
    BY DEF HandInv, HandTypes
  <2> QED
    BY <2>a, <2>2, <2>3 DEF HandInv, HandTypes
<1>2. \A a \in AP : Unsent(a)
  BY DEF HandInv, SignalInv, Told, AllIn, Quiet
<1>3. end_sim = 0
  <2>1. ~Answered(1) /\ ~Answered(2)
    BY <1>2 DEF AP, Unsent, Answered
  <2> QED
    BY <2>1 DEF HandInv, SignalInv
<1>4. \A a \in AP : begin_sim'[a] = 0 /\ Len(did'[a]) = 0 /\ ap'[a] \notin InLoop
  BY <1>2 DEF Unsent, AP
<1>5. SignalInv'
  BY <1>3, <1>4 DEF SignalInv, Told, AllIn, Quiet, Unsent, Answered, AP
<1> QED
  BY <1>1, <1>5 DEF HandInv

(* A step of the BP: only BpGo, BpMonitor, BpAwait, BpCheck and BpClear are *)
(* taken while a signal is out.                                            *)
LEMMA HandBpStep ==
  ASSUME HandInv, Bp \/ check_next_instruction_with_irq
  PROVE  HandInv'
<1>t. HandTypes
  BY DEF HandInv
<1>0. Len(case_suit_multi) = 7
  BY DEF case_suit_multi
<1>a. ASSUME UNCHANGED case PROVE Locking' <=> Locking
  BY <1>a DEF Locking, Id
<1>1. CASE BpCase
  BY <1>1, <1>t, QuietStep
     DEF BpCase, BpGoto, apState, HandTypes, BpLabels, Quiet
<1>2. CASE BpDelay
  BY <1>2, <1>t, QuietStep DEF BpDelay, BpGoto, handshake, apState, history,
     HandTypes, BpLabels, Quiet
<1>3. CASE BpHlt
  BY <1>3, <1>t, QuietStep DEF BpHlt, BpGoto, handshake, apState, history,
     HandTypes, BpLabels, Quiet
<1>4. CASE BpReset
  <2>1. /\ UNCHANGED <<ap, phase, did, case, round>>
        /\ begin_sim' = begin_sim \/ begin_sim' = [a \in AP |-> 0]
        /\ end_sim' \in {end_sim, 0}
    BY <1>4 DEF BpReset, apState, history
  <2>2. /\ bp \notin Quiet /\ bp' \in BpLabels \ Quiet
        /\ bp' = "monitor" => ~Locking
    BY <1>4 DEF BpReset, BpGoto, BpLabels, Quiet
  <2> QED
    BY <1>a, <1>t, <2>1, <2>2, QuietStep DEF HandTypes
<1>5. CASE BpGo
  <2> USE DEF HandInv, SignalInv, HandTypes, Told, AllIn, Unsent, Sent, Taken,
              Ended, Answered, InLoop, AP
  <2>f. UNCHANGED <<end_sim, ap, did, case, round, phase>>
    BY <1>5 DEF BpGo, apState, history
  <2>1. CASE bp = "go1"
    <3>1. /\ begin_sim' = [begin_sim EXCEPT ![1] = @ + 1]
          /\ bp' = IF Locking THEN "go2" ELSE "mwait"
      BY <1>5, <2>1 DEF BpGo, BpGoto
    <3>a. Unsent(1) /\ Unsent(2)
      BY <2>1
    <3>b. end_sim = 0
      BY <3>a
    <3>2. Unsent(1) /\ Unsent(2) /\ end_sim = 0
      BY <3>a, <3>b
    <3>3. begin_sim'[1] = 1 /\ begin_sim'[2] = 0 /\ begin_sim' \in [AP -> Int]
      BY <3>1, <3>2
    <3>4. Sent(1)' /\ Unsent(2)' /\ end_sim' = 0
      BY <2>f, <3>2, <3>3
    <3>5. HandTypes' /\ SignalInv'
      BY <1>a, <2>f, <3>1, <3>3, <3>4 DEF BpLabels
    <3> QED
      BY <3>5
  <2>2. CASE bp = "go2"
    <3>1. begin_sim' = [begin_sim EXCEPT ![2] = @ + 1] /\ bp' = "await" /\ Locking
      BY <1>5, <2>2 DEF BpGo, BpGoto
    <3>2. Unsent(2) /\ (Sent(1) \/ Taken(1) \/ Ended(1) \/ Answered(1))
      BY <2>2
    <3>3. /\ begin_sim'[2] = 1 /\ begin_sim'[1] = begin_sim[1]
          /\ begin_sim' \in [AP -> Int]
      BY <3>1, <3>2
    <3>4. HandTypes' /\ SignalInv'
      BY <1>a, <2>f, <3>1, <3>2, <3>3 DEF BpLabels
    <3> QED
      BY <3>4
  <2> QED
    BY <1>5, <2>1, <2>2 DEF BpGo
<1>6. CASE BpMonitor
  <2>f. UNCHANGED <<begin_sim, end_sim, ap, did, case, round, phase>>
    BY <1>6 DEF BpMonitor, handshake, apState, history
  <2>1. \/ bp = "monitor" /\ bp' = "go1"
        \/ bp = "mwait" /\ bp' = "await"
    BY <1>6 DEF BpMonitor, BpGoto
  <2> QED
    BY <1>a, <2>f, <2>1
       DEF HandInv, HandTypes, SignalInv, Told, AllIn, Unsent, Sent, Taken,
           Ended, Answered, AP, BpLabels
<1>7. CASE BpAwait
  <2>1. /\ bp = "await" /\ end_sim = (IF Locking THEN 2 ELSE 1) /\ bp' = "check"
        /\ UNCHANGED <<begin_sim, end_sim, ap, did, case, round, phase>>
    BY <1>7 DEF BpAwait, BpGoto, handshake, apState, history
  <2>a. ~Locking => Unsent(2)
    BY <2>1 DEF HandInv, SignalInv, Told, AllIn, AP
  <2>b. ~Locking => ~Answered(2)
    BY <2>a DEF Unsent, Answered
  <2>2. Answered(1) /\ (IF Locking THEN Answered(2) ELSE Unsent(2))
    BY <2>1, <2>a, <2>b DEF HandInv, SignalInv
  <2>3. HandTypes'
    BY <2>1, <1>t DEF HandTypes, BpLabels
  <2>4. SignalInv'
    BY <1>a, <2>1, <2>2 DEF SignalInv, Told, AllIn, Unsent, Answered, AP
  <2> QED
    BY <2>3, <2>4 DEF HandInv
<1>8. CASE BpCheck
  <2>1. /\ bp = "check" /\ bp' = "clear"
        /\ UNCHANGED <<begin_sim, end_sim, ap, did, case, round, phase>>
    BY <1>8 DEF BpCheck, BpGoto, handshake, apState, history
  <2> QED
    BY <1>a, <2>1 DEF HandInv, HandTypes, SignalInv, Told, AllIn, Unsent,
       Answered, AP, BpLabels
<1>9. CASE BpClear
  <2>1. /\ bp = "clear" /\ bp' \in {"go1", "none"} /\ end_sim' = 0
        /\ round' \in {round, round + 1} /\ did' = [a \in AP |-> <<>>]
        /\ UNCHANGED <<begin_sim, ap, case, phase>>
    BY <1>9 DEF BpClear, BpGoto, apState
  <2>2. \A a \in AP : begin_sim[a] = 0 /\ ap[a] \notin InLoop
    BY <2>1 DEF HandInv, SignalInv, Told, AllIn, Unsent, Answered
  <2>3. HandTypes'
    BY <2>1, <1>t DEF HandTypes, BpLabels, AP
  <2>4. \A a \in AP : begin_sim'[a] = 0 /\ ap'[a] \notin InLoop /\ Len(did'[a]) = 0
    BY <2>1, <2>2 DEF AP
  <2>5. SignalInv'
    BY <2>1, <2>4 DEF SignalInv, Told, AllIn, Unsent, Answered, AP
  <2> QED
    BY <2>3, <2>5 DEF HandInv
<1>10. CASE BpNone
  BY <1>10, <1>t, QuietStep
     DEF BpNone, BpGoto, apState, history, HandTypes, BpLabels, Quiet
<1>11. CASE BpReport
  BY <1>11, <1>0, <1>t, QuietStep DEF BpReport, BpGoto, handshake, apState,
     history, HandTypes, BpLabels, Quiet
<1>12. CASE check_next_instruction_with_irq
  BY <1>12, <1>t, QuietStep DEF check_next_instruction_with_irq, handshake,
     apState, history, HandTypes, BpLabels, Quiet
<1> QED
  BY <1>1, <1>2, <1>3, <1>4, <1>5, <1>6, <1>7, <1>8, <1>9, <1>10, <1>11, <1>12
     DEF Bp

(* The signals keep their course. *)
LEMMA HandInvariant == Spec => []HandInv
<1>1. HandInv /\ [Next]_vars => HandInv'
  <2> SUFFICES ASSUME HandInv, [Next]_vars PROVE HandInv'
    OBVIOUS
  <2>1. CASE UNCHANGED vars
    BY <2>1 DEF vars, handshake, bpState, apState, history, HandInv,
       HandTypes, SignalInv, Unsent, Sent, Taken, Ended, Answered, InLoop,
       Told, AllIn, Locking, Id
  <2> QED
    BY <2>1, HandApStep, HandBpStep DEF Next
<1> QED
  BY <1>1, HandInit, PTL DEF Spec

(* Every round is handed over exactly, however many there are and whatever *)
(* the processors get wrong (lock_atomic_test_bp, lock_atomic_test_ap).    *)
THEOREM RoundsExact == Spec => []RoundExact
<1>1. HandInv => RoundExact
  BY DEF HandInv, SignalInv, RoundExact, Told, AllIn, Answered, Unsent, AP
<1> QED
  BY <1>1, HandInvariant, PTL
-----------------------------------------------------------------------------
(* main starts with both APs in boot. *)
LEMMA PlaceInit == Init => PlaceInv
  BY HsiAssumption DEF Init, PlaceInv, Placed, Course, PlaceAt, RunId, Type,
     WaitFor, AP, Opening, InRounds

(* What a step of AP a has to show. *)
LEMMA ApMoves ==
  ASSUME HandTypes, Placed, NEW a \in AP,
         UNCHANGED <<setting, bp, case, round, start_run_id, test_atomic_type>>,
         \A b \in AP \ {a} : /\ phase'[b] = phase[b] /\ ap'[b] = ap[b]
                             /\ Len(did'[b]) = Len(did[b]),
         PlaceAt(a, bp, case, round, phase'[a], ap'[a], Len(did'[a])),
         case = 7 => ap'[a] # "id",
         \/ /\ wait_bp' = wait_bp
            /\ case \in 2..4 /\ bp \in InRounds => (Late(a)' <=> Late(a))
         \/ ~Late(a)' /\ Late(a) /\ wait_bp' = wait_bp - 1
            /\ bp \notin {"case"} \cup Opening
            /\ (case # 7 => case \in 2..4 /\ bp \in InRounds)
  PROVE  Placed'
<1>1. \A b \in AP :
        PlaceAt(b, bp', case', round', phase'[b], ap'[b], Len(did'[b]))
  BY DEF Placed
<1>2. \A b \in AP \ {a} : Late(b)' <=> Late(b)
  BY DEF Late
<1>3. RunId(bp, case, setting.monitor)' = RunId(bp, case, setting.monitor)
      /\ Type(bp, case)' = Type(bp, case)
  BY DEF RunId, Type
<1>4. case # 7 => wait_bp' = WaitFor'
  <2>1. a = 1 \/ a = 2
    BY DEF AP
  <2>2. CASE a = 1
    BY <1>2, <2>2 DEF Placed, WaitFor, AP
  <2>3. CASE a = 2
    BY <1>2, <2>3 DEF Placed, WaitFor, AP
  <2> QED
    BY <2>1, <2>2, <2>3
<1>5. case = 7 /\ setting.monitor /\ bp \in {"report", "order"} => ap'[1] # "id"
  BY DEF Placed, AP
<1> QED
  BY <1>1, <1>3, <1>4, <1>5 DEF Placed

(* Where AP a is when the BP has told it nothing, or everything is in. *)
LEMMA NoSignal ==
  ASSUME HandInv, NEW a \in AP, ~Told(a)
  PROVE  begin_sim[a] = 0 /\ ap[a] \notin InLoop
  BY DEF HandInv, SignalInv, Unsent, Answered

(* Every step of an AP leaves it where it may be. *)
LEMMA PlaceApStep ==
  ASSUME HandInv, Placed, setting.patient, NEW a \in AP, Ap(a)
  PROVE  Placed'
<1>t. HandTypes
  BY DEF HandInv
<1>p. PlaceAt(a, bp, case, round, phase[a], ap[a], Len(did[a]))
  BY DEF Placed
<1>v. /\ phase[a] = 1 => ApCase(a) = 35972
      /\ phase[a] = 2 => ApCase(a) = 35973
      /\ phase[a] = 3 => ApCase(a) = 39720
      /\ phase[a] = 4 <=> ApCase(a) = 35977
      /\ Instr(a) = phase[a] - 1
      /\ Len(ap_cases) = 4 /\ phase[a] \in 1..4
  BY <1>t, PhaseValues DEF HandTypes
<1>c. case = 1 \/ case = 2 \/ case = 3 \/ case = 4 \/ case = 5 \/ case = 6
      \/ case = 7
  BY <1>t DEF HandTypes
(* Within a round an AP moves on to run the instruction. *)
<1>i. ASSUME UNCHANGED <<setting, bp, case, round, start_run_id, test_atomic_type,
                         phase, wait_bp>>,
             \A b \in AP \ {a} : did'[b] = did[b],
             NEW l \in {"run", "store", "end", "type"}, ap' = [ap EXCEPT ![a] = l],
             ap[a] \in InLoop, l = "type" => ap[a] = "end"
      PROVE  Placed'
  <2>1. ap'[a] = l /\ (\A b \in AP \ {a} : ap'[b] = ap[b])
    BY <1>t, <1>i DEF HandTypes
  <2>2. Told(a)
    BY <1>i, NoSignal
  <2>3. case \in {2, 3, 4, 7} /\ bp \in InRounds \cup {"mwait"}
        /\ (case = 7 => a = 1)
    BY <1>p, <1>t, <1>c, <2>2, CaseValues, <1>i DEF Told, Placed, Course,
       HandTypes, InRounds, Opening, AP, PlaceAt, InLoop
  <2>4. PlaceAt(a, bp, case, round, phase'[a], ap'[a], Len(did'[a]))
    BY <1>p, <1>i, <2>1, <2>3 DEF PlaceAt, InRounds, Opening, InLoop, Loop,
       Entering
  <2>5. Late(a)' <=> Late(a)
    BY <1>i, <2>1 DEF Late, Entering, InLoop
  <2> QED
    BY <1>t, <1>i, <2>1, <2>4, <2>5, ApMoves
<1>1. CASE ApBoot(a)
  <2>1. /\ UNCHANGED <<setting, bp, case, round, start_run_id, test_atomic_type,
                       phase, did, wait_bp>>
        /\ \/ ap[a] = "boot" /\ start_run_id # 0 /\ ap' = [ap EXCEPT ![a] = "count"]
           \/ ap[a] = "count" /\ ap' = [ap EXCEPT ![a] = "id"]
    BY <1>1 DEF ApBoot, Goto, handshake, history
  <2>2. ap'[a] \in {"count", "id"} /\ (\A b \in AP \ {a} : ap'[b] = ap[b])
    BY <2>1, <1>t DEF HandTypes
  <2>3. case = 1 /\ bp = "delay"
    <3>1. ap[a] \in {"boot", "count"}
      BY <2>1
    <3>2. CASE case = 1
      BY <1>p, <2>1, <3>1, <3>2 DEF Placed, PlaceAt, RunId, Course
    <3>3. CASE case \in {2, 4}
      BY <1>p, <3>1, <3>3 DEF Placed, PlaceAt, Course, Opening, InRounds,
         Loop, Entering
    <3>4. CASE case = 3
      BY <1>p, <3>1, <3>4 DEF Placed, PlaceAt, Course, Opening, InRounds,
         Loop, Entering
    <3>5. CASE case \in {5, 6}
      BY <1>p, <3>1, <3>5 DEF PlaceAt
    <3>6. CASE case = 7
      BY <1>p, <3>1, <3>6 DEF Placed, PlaceAt, Course, Opening, Loop,
         Entering, AP
    <3> QED
      BY <1>c, <3>2, <3>3, <3>4, <3>5, <3>6
  <2>4. PlaceAt(a, bp, case, round, phase'[a], ap'[a], Len(did'[a]))
    BY <1>p, <2>1, <2>2, <2>3 DEF PlaceAt
  <2> QED
    BY <1>t, <2>1, <2>2, <2>3, <2>4, ApMoves
<1>2. CASE ApId(a)
  <2>1. /\ UNCHANGED <<setting, bp, case, round, start_run_id, test_atomic_type,
                       phase, did, wait_bp>>
        /\ ap[a] = "id" /\ start_run_id = ApCase(a)
    BY <1>2 DEF ApId, handshake, history, bpState
  <2>2. /\ ap'[a] = IF a = 2 /\ phase[a] = 4 THEN "order" ELSE "sync"
        /\ \A b \in AP \ {a} : ap'[b] = ap[b]
    <3>1. ap' = [ap EXCEPT ![a] = IF a = 2 /\ ApCase(a) = 35977 THEN "order"
                                  ELSE "sync"]
      BY <1>2 DEF ApId, Goto
    <3> QED
      BY <1>t, <1>v, <3>1 DEF HandTypes
  <2>3. PlaceAt(a, bp, case, round, phase'[a], ap'[a], Len(did'[a]))
    <3> USE DEF PlaceAt, Placed, RunId, Opening, InRounds, Loop, Entering, Course
    <3>2. CASE case = 1
      BY <1>p, <1>v, <2>1, <2>2, <3>2
    <3>3. CASE case \in {2, 4}
      BY <1>p, <1>v, <2>1, <2>2, <3>3
    <3>4. CASE case = 3
      BY <1>p, <1>v, <2>1, <2>2, <3>4
    <3>5. CASE case \in {5, 6}
      BY <1>p, <1>v, <2>1, <2>2, <3>5
    <3>6. CASE case = 7
      <4>1. phase[a] = 4 /\ start_run_id = 35977 /\ setting.monitor
        BY <1>p, <1>v, <2>1, <3>6
      <4> QED
        BY <1>p, <2>1, <2>2, <3>6, <4>1 DEF AP
    <3> QED
      BY <1>c, <3>2, <3>3, <3>4, <3>5, <3>6
  <2>4. case \in 2..4 => (Late(a)' <=> Late(a))
    BY <1>p, <1>t, <1>v, <2>1, <2>2 DEF Late, Entering, PlaceAt, Placed,
       RunId, HandTypes, Opening, InRounds, Loop, Course
  <2> QED
    BY <1>t, <2>1, <2>2, <2>3, <2>4, ApMoves
<1>3. CASE ap_sync(a)
  <2>1. /\ UNCHANGED <<setting, bp, case, round, start_run_id, test_atomic_type,
                       phase, did>>
        /\ \/ /\ ap[a] = "sync" /\ wait_bp # 0 /\ ap' = [ap EXCEPT ![a] = "dec"]
              /\ wait_bp' = wait_bp
           \/ /\ ap[a] = "dec" /\ ap' = [ap EXCEPT ![a] = "type"]
              /\ wait_bp' = wait_bp - 1
    BY <1>3 DEF ap_sync, Goto, history, bpState
  <2>2. /\ ap'[a] = IF ap[a] = "sync" THEN "dec" ELSE "type"
        /\ \A b \in AP \ {a} : ap'[b] = ap[b]
    BY <2>1, <1>t DEF HandTypes
  <2>3. /\ case \in {2, 3, 4, 7} /\ bp \notin {"case"} \cup Opening
        /\ case # 7 => bp \in InRounds
        /\ case = 3 => phase[a] = 2
    <3> USE DEF PlaceAt, Placed, Opening, InRounds, Loop, Entering, Course, WaitFor
    <3>1. ap[a] \in {"sync", "dec"} /\ (ap[a] = "sync" => wait_bp # 0)
      BY <2>1
    <3>2. CASE case = 1
      BY <1>p, <3>1, <3>2
    <3>3. CASE case \in {2, 4}
      BY <1>p, <3>1, <3>3
    <3>4. CASE case = 3
      BY <1>p, <3>1, <3>4
    <3>5. CASE case \in {5, 6}
      BY <1>p, <3>1, <3>5
    <3>6. CASE case = 7
      BY <1>p, <3>1, <3>6 DEF AP
    <3> QED
      BY <1>c, <3>2, <3>3, <3>4, <3>5, <3>6
  <2>4. PlaceAt(a, bp, case, round, phase'[a], ap'[a], Len(did'[a]))
    BY <1>p, <1>t, <1>v, <2>1, <2>2, <2>3 DEF PlaceAt, Placed, HandTypes,
       Opening, InRounds, Loop, Entering, Course
  <2>5. Late(a) /\ (Late(a)' <=> ap[a] = "sync")
    BY <2>1, <2>2, <2>3 DEF Late, Entering
  <2> QED
    BY <1>t, <2>1, <2>2, <2>3, <2>4, <2>5, ApMoves
<1>4. CASE ApLoop(a)
  <2>1. /\ UNCHANGED <<setting, bp, case, round, start_run_id, test_atomic_type,
                       did, wait_bp>>
        /\ \/ /\ ap[a] = "type" /\ test_atomic_type = phase[a] - 1
              /\ ap' = [ap EXCEPT ![a] = "begin"] /\ phase' = phase
           \/ /\ ap[a] = "type" /\ test_atomic_type # phase[a] - 1 /\ phase[a] < 4
              /\ ap' = [ap EXCEPT ![a] = "id"]
              /\ phase' = [phase EXCEPT ![a] = @ + 1]
           \/ /\ ap[a] = "type" /\ test_atomic_type # 3 /\ phase[a] = 4
              /\ ap' = [ap EXCEPT ![a] = "order"] /\ phase' = phase
           \/ /\ ap[a] = "begin" /\ begin_sim[a] = 1
              /\ ap' = [ap EXCEPT ![a] = "take"] /\ phase' = phase
           \/ /\ ap[a] = "begin" /\ begin_sim[a] # 1
              /\ ap' = [ap EXCEPT ![a] = "type"] /\ phase' = phase
    BY <1>4, <1>v DEF ApLoop, Goto, handshake, history, bpState
  <2>2. /\ \A b \in AP \ {a} : ap'[b] = ap[b] /\ phase'[b] = phase[b]
        /\ \/ /\ ap[a] = "type" /\ test_atomic_type = phase[a] - 1
              /\ ap'[a] = "begin" /\ phase'[a] = phase[a]
           \/ /\ ap[a] = "type" /\ test_atomic_type # phase[a] - 1 /\ phase[a] < 4
              /\ ap'[a] = "id" /\ phase'[a] = phase[a] + 1
           \/ /\ ap[a] = "type" /\ test_atomic_type # 3 /\ phase[a] = 4
              /\ ap'[a] = "order" /\ phase'[a] = phase[a]
           \/ /\ ap[a] = "begin" /\ begin_sim[a] = 1
              /\ ap'[a] = "take" /\ phase'[a] = phase[a]
           \/ /\ ap[a] = "begin" /\ begin_sim[a] # 1
              /\ ap'[a] = "type" /\ phase'[a] = phase[a]
    BY <2>1, <1>t DEF HandTypes
  <2>3. begin_sim[a] = 1 => Told(a)
    BY NoSignal
  <2>4. PlaceAt(a, bp, case, round, phase'[a], ap'[a], Len(did'[a]))
    <3>1. /\ bp \in Course(case) /\ test_atomic_type = Type(bp, case)
          /\ PlaceAt(a, bp, case, round, phase[a], ap[a], Len(did[a]))
          /\ case \in 1..7 /\ phase[a] \in 1..4 /\ did' = did
      BY <1>p, <1>t, <2>1 DEF Placed, HandTypes
    <3> USE DEF PlaceAt, Opening, InRounds, Loop, Entering, Course, Type, Told
    <3>2. CASE case \in {1, 5, 6}
      BY <2>2, <3>1, <3>2
    <3>3. CASE case = 2
      BY <2>2, <2>3, <3>1, <3>3
    <3>4. CASE case = 3
      BY <2>2, <2>3, <3>1, <3>4
    <3>5. CASE case = 4
      BY <2>2, <2>3, <3>1, <3>5
    <3>6. CASE case = 7
      BY <2>2, <2>3, <3>1, <3>6
    <3> QED
      BY <3>1, <3>2, <3>3, <3>4, <3>5, <3>6
  <2>5. case \in 2..4 /\ bp \in InRounds => (Late(a)' <=> Late(a))
    BY <1>p, <1>t, <1>v, <2>1, <2>2 DEF PlaceAt, Placed, HandTypes, Opening,
       InRounds, Loop, Entering, Course, Type, Late
  <2> QED
    <3>1. case = 7 => ap'[a] # "id"
      BY <1>p, <2>2 DEF PlaceAt
    <3> QED
      BY <1>t, <2>1, <2>2, <2>4, <2>5, <3>1, ApMoves
<1>5. CASE ApTake(a)
  <2>1. /\ UNCHANGED <<setting, bp, case, round, start_run_id, test_atomic_type,
                       phase, did, wait_bp>>
        /\ ap[a] = "take" /\ ap' = [ap EXCEPT ![a] = "run"]
    BY <1>5 DEF ApTake, Goto, history, bpState
  <2> QED
    BY <1>i, <2>1 DEF InLoop
<1>6. CASE lock_add_test(a) \/ lock_xchg_test(a) \/ lock_mov_test(a)
           \/ mwait_test_ap1(a)
  <2>1. /\ UNCHANGED <<setting, bp, case, round, start_run_id, test_atomic_type,
                       phase, wait_bp>>
        /\ ap[a] \in {"run", "store"}
        /\ \/ ap' = [ap EXCEPT ![a] = "store"] /\ UNCHANGED did
           \/ ap' = [ap EXCEPT ![a] = "end"] /\ Ran(a)
    BY <1>6 DEF lock_add_test, lock_xchg_test, lock_mov_test, mwait_test_ap1,
       Goto, bpState, handshake
  <2>2. Ran(a) => \A b \in AP \ {a} : did'[b] = did[b]
    BY <1>t DEF Ran, HandTypes
  <2> QED
    BY <1>i, <2>1, <2>2 DEF InLoop
<1>7. CASE ApEnd(a)
  <2>1. /\ UNCHANGED <<setting, bp, case, round, start_run_id, test_atomic_type,
                       phase, did, wait_bp>>
        /\ ap[a] = "end" /\ ap' = [ap EXCEPT ![a] = "type"]
    BY <1>7 DEF ApEnd, Goto, history, bpState
  <2> QED
    BY <1>i, <2>1 DEF InLoop
<1> QED
  BY <1>1, <1>2, <1>3, <1>4, <1>5, <1>6, <1>7 DEF Ap

(* The start of a case: the APs are where the case before left them. *)
LEMMA PlaceBpCase ==
  ASSUME HandInv, Placed, BpCase
  PROVE  Placed'
<1>c. case = 1 \/ case = 2 \/ case = 3 \/ case = 4 \/ case = 5 \/ case = 6
      \/ case = 7
  BY DEF HandInv, HandTypes
<1>f. /\ bp = "case" /\ round' = 1
      /\ UNCHANGED <<setting, wait_bp, test_atomic_type, case, ap, phase>>
  BY DEF BpCase, apState
<1>d. \A a \in AP : Len(did'[a]) = 0
  BY DEF BpCase
<1>s. start_run_id' = RunId(bp', case, setting.monitor)
  <2> USE CaseValues, <1>f DEF BpCase, BpGoto, Announced, Placed, RunId
  <2>1. CASE case = 1
    BY <2>1
  <2>2. CASE case \in 2..4
    BY <2>2
  <2>3. CASE case \in {5, 6}
    BY <2>3
  <2>4. CASE case = 7
    BY <2>4
  <2> QED
    BY <1>c, <2>1, <2>2, <2>3, <2>4
<1>b. bp' = CASE case \in {1, 5} -> "delay" [] case \in 2..4 -> "reset"
              [] case = 6 -> "report"
              [] case = 7 -> IF setting.monitor THEN "reset" ELSE "report"
  <2> USE CaseValues DEF BpCase, BpGoto, Announced
  <2>1. CASE case \in {1, 5}
    BY <2>1
  <2>2. CASE case \in 2..4
    BY <2>2
  <2>3. CASE case = 6
    BY <2>3
  <2>4. CASE case = 7
    BY <2>4
  <2> QED
    BY <1>c, <2>1, <2>2, <2>3, <2>4
<1>p. \A a \in AP : PlaceAt(a, bp', case, 1, phase[a], ap[a], 0)
  <2> USE <1>f, <1>b DEF Placed, PlaceAt, Opening, InRounds
  <2>1. CASE case = 1
    BY <2>1
  <2>2. CASE case \in {2, 4}
    BY <2>2
  <2>3. CASE case = 3
    BY <2>3
  <2>4. CASE case \in {5, 6}
    BY <2>4
  <2>5. CASE case = 7
    BY <2>5
  <2> QED
    BY <1>c, <2>1, <2>2, <2>3, <2>4, <2>5
<1> QED
  <2> USE <1>f, <1>d, <1>s, <1>b, <1>p, HsiAssumption
  <2>1. CASE case = 1
    BY <2>1 DEF Placed, Course, RunId, Type, WaitFor, Opening, InRounds
  <2>2. CASE case \in {2, 3, 4}
    BY <2>2 DEF Placed, Course, RunId, Type, WaitFor, Opening, InRounds
  <2>4. CASE case \in {5, 6}
    BY <2>4 DEF Placed, Course, RunId, Type, WaitFor, Opening, InRounds
  <2>5. CASE case = 7
    BY <2>5 DEF Placed, Course, RunId, Type, WaitFor, Opening, InRounds
  <2> QED
    BY <1>c, <2>1, <2>2, <2>4, <2>5

(* The report, which a patient BP ends only when the APs have stopped. *)
LEMMA PlaceBpReport ==
  ASSUME HandInv, Placed, setting.patient, BpReport
  PROVE  Placed'
<1>c. case = 1 \/ case = 2 \/ case = 3 \/ case = 4 \/ case = 5 \/ case = 6
      \/ case = 7
  BY DEF HandInv, HandTypes
<1>f. /\ bp = "report" /\ \A a \in AP : Stopped(a)
      /\ UNCHANGED <<setting, wait_bp, start_run_id, test_atomic_type, round, ap,
                     phase, did>>
  BY DEF BpReport, AllStopped, handshake, apState, history
<1>n. IF case < 7 THEN case' = case + 1 /\ bp' = "case"
                  ELSE case' = case /\ bp' = "order"
  <2>1. Len(case_suit_multi) = 7
    BY DEF case_suit_multi
  <2> QED
    BY <1>c, <2>1 DEF BpReport, BpGoto
<1>v. \A a \in AP : /\ phase[a] \in 1..4 /\ Instr(a) = phase[a] - 1
                    /\ phase[a] = 3 => ApCase(a) = 39720
                    /\ phase[a] = 4 <=> ApCase(a) = 35977
  BY PhaseValues DEF HandInv, HandTypes
<1>p. \A a \in AP : PlaceAt(a, bp', case', round, phase[a], ap[a], Len(did[a]))
  <2> USE <1>f, <1>n DEF Placed, PlaceAt, Opening, InRounds
  <2>1. CASE case = 1
    BY <2>1
  <2>2. CASE case = 2
    BY <2>2
  <2>3. CASE case = 3
    BY <1>v, <2>3 DEF Stopped, Type
  <2>4. CASE case = 4
    BY <1>v, <2>4 DEF Stopped, Type
  <2>5. CASE case \in {5, 6}
    BY <2>5
  <2>6. CASE case = 7
    BY <2>6
  <2> QED
    BY <1>c, <2>1, <2>2, <2>3, <2>4, <2>5, <2>6
<1> QED
  BY <1>c, <1>f, <1>n, <1>p DEF Placed, Course, RunId, Type, WaitFor,
     Opening, InRounds

(* The other steps of the BP, within a case. *)
LEMMA PlaceBpOther ==
  ASSUME HandInv, Placed, setting.patient,
         \/ BpDelay \/ BpHlt \/ BpReset \/ BpGo \/ BpMonitor \/ BpAwait \/ BpCheck
         \/ BpClear \/ BpNone \/ check_next_instruction_with_irq
  PROVE  Placed'
<1>t. HandTypes
  BY DEF HandInv
<1>c. case = 1 \/ case = 2 \/ case = 3 \/ case = 4 \/ case = 5 \/ case = 6
      \/ case = 7
  BY <1>t DEF HandTypes
<1>k. Locking <=> case \in 2..4
  BY <1>t, CaseValues DEF HandTypes
<1>r. ASSUME UNCHANGED <<setting, start_run_id, case>>, bp # "case", bp' # "case"
      PROVE  start_run_id' = RunId(bp', case', setting'.monitor)
  BY <1>c, <1>r DEF Placed, RunId
<1>1. CASE BpDelay
  <2>1. /\ UNCHANGED <<setting, start_run_id, case, ap, phase, round, did, wait_bp,
                       test_atomic_type>>
        /\ bp = "delay" /\ \A a \in AP : Stopped(a)
    BY <1>1 DEF BpDelay, AllStopped, handshake, apState, history
  <2>2. \/ case = 1 /\ bp' = "report"
        \/ case = 5 /\ bp' = "hlt"
    <3>1. case \in {1, 5}
      BY <1>c, <2>1 DEF Placed, Course, Opening, InRounds
    <3>2. case = 1 => Id = 35955
      BY CaseValues
    <3>3. case = 5 => Id = 35975
      BY CaseValues
    <3> QED
      BY <1>1, <3>1, <3>2, <3>3 DEF BpDelay, BpGoto
  <2>3. start_run_id' = RunId(bp', case', setting'.monitor)
    BY <1>r, <2>1, <2>2
  <2>4. \A a \in AP :
          PlaceAt(a, bp', case', round', phase'[a], ap'[a], Len(did'[a]))
    BY <2>1, <2>2 DEF Placed, PlaceAt, RunId, Stopped
  <2> QED
    BY <2>1, <2>2, <2>3, <2>4 DEF Placed, Course, Type, WaitFor, Opening
<1>2. CASE BpHlt \/ check_next_instruction_with_irq
  <2>1. /\ UNCHANGED <<setting, start_run_id, case, ap, phase, round, did, wait_bp,
                       test_atomic_type>>
        /\ \/ bp = "hlt" /\ bp' = "halted"
           \/ bp = "halted" /\ bp' = "report"
    BY <1>2 DEF BpHlt, BpGoto, check_next_instruction_with_irq, handshake,
       apState, history
  <2>2. case = 5
    BY <1>c, <2>1 DEF Placed, Course, Opening, InRounds
  <2>3. start_run_id' = RunId(bp', case', setting'.monitor)
    BY <1>r, <2>1
  <2>4. \A a \in AP :
          PlaceAt(a, bp', case', round', phase'[a], ap'[a], Len(did'[a]))
    BY <2>1, <2>2 DEF Placed, PlaceAt
  <2> QED
    BY <2>1, <2>2, <2>3, <2>4 DEF Placed, Course, Type, WaitFor, Opening
<1>3. CASE BpReset
  <2>1. /\ UNCHANGED <<setting, start_run_id, case, ap, phase, round, did>>
        /\ \/ /\ bp = "reset" /\ bp' = "type"
              /\ UNCHANGED <<test_atomic_type, wait_bp>>
           \/ /\ bp = "type" /\ bp' = "let_in" /\ UNCHANGED wait_bp
              /\ test_atomic_type' = TypeOf(Id)
           \/ /\ bp = "let_in" /\ bp' = IF Locking THEN "go1" ELSE "monitor"
              /\ UNCHANGED test_atomic_type /\ wait_bp' = 2
    BY <1>3 DEF BpReset, BpGoto, apState, history
  <2>2. start_run_id' = RunId(bp', case', setting'.monitor)
    BY <1>r, <2>1
  <2>3. case \in {2, 3, 4, 7}
    BY <1>c, <2>1 DEF Placed, Course
  <2>4. \A a \in AP : Len(did[a]) = 0
    BY <2>1 DEF HandInv, SignalInv, Told, AllIn, Unsent
  <2>5. ASSUME bp = "let_in", case \in 2..4 PROVE WaitFor' = 2
    BY <2>1, <2>5, <1>k DEF Placed, PlaceAt, WaitFor, Late, Entering,
       Opening, InRounds, AP
  <2>6. \A a \in AP :
          PlaceAt(a, bp', case', round', phase'[a], ap'[a], Len(did'[a]))
    <3> USE DEF Placed, PlaceAt, Opening, InRounds, Loop, Entering
    <3>1. CASE case = 2
      BY <1>k, <2>1, <2>4, <3>1
    <3>2. CASE case = 3
      BY <1>k, <2>1, <2>4, <3>2
    <3>3. CASE case = 4
      BY <1>k, <2>1, <2>4, <3>3
    <3>4. CASE case = 7
      BY <1>k, <2>1, <2>4, <3>4
    <3> QED
      BY <2>3, <3>1, <3>2, <3>3, <3>4
  <2>7. test_atomic_type' = Type(bp', case')
    BY <1>k, <2>1, <2>3, CaseValues DEF Placed, Type
  <2>8. CASE case \in 2..4
    BY <1>k, <2>1, <2>2, <2>5, <2>6, <2>7, <2>8
       DEF Placed, Course, WaitFor, Opening, InRounds
  <2>9. CASE case = 7
    BY <1>k, <2>1, <2>2, <2>6, <2>7, <2>9
       DEF Placed, Course, Opening
  <2> QED
    BY <2>3, <2>8, <2>9
<1>4. CASE BpGo \/ BpMonitor \/ BpAwait \/ BpCheck
  <2>1. /\ UNCHANGED <<setting, start_run_id, case, ap, phase, round, did, wait_bp,
                       test_atomic_type>>
        /\ \/ bp = "monitor" /\ bp' = "go1"
           \/ bp = "go1" /\ bp' = (IF Locking THEN "go2" ELSE "mwait")
           \/ bp = "go2" /\ bp' = "await"
           \/ bp = "mwait" /\ bp' = "await"
           \/ bp = "await" /\ bp' = "check"
           \/ bp = "check" /\ bp' = "clear"
    <3> USE DEF BpGoto, handshake, apState, history
    <3>1. CASE BpGo
      BY <3>1 DEF BpGo
    <3>2. CASE BpMonitor
      BY <3>2 DEF BpMonitor
    <3>3. CASE BpAwait
      BY <3>3 DEF BpAwait
    <3>4. CASE BpCheck
      BY <3>4 DEF BpCheck
    <3> QED
      BY <1>4, <3>1, <3>2, <3>3, <3>4
  <2>2. start_run_id' = RunId(bp', case', setting'.monitor)
    BY <1>r, <2>1
  <2>3. case \in {2, 3, 4, 7}
    BY <1>c, <2>1 DEF Placed, Course
  <2>4. CASE case \in 2..4
    <3>1. bp \in InRounds /\ bp' \in InRounds
      BY <1>k, <2>1, <2>4 DEF Placed, Course, InRounds, Opening
    <3>2. \A a \in AP : PlaceAt(a, bp', case, round, phase[a], ap[a], Len(did[a]))
      BY <2>4, <3>1 DEF Placed, PlaceAt, InRounds, Opening
    <3>3. WaitFor' = WaitFor
      BY <2>1, <2>4, <3>1 DEF WaitFor, Late
    <3> QED
      BY <2>1, <2>2, <2>4, <3>1, <3>2, <3>3 DEF Placed, Course, Type,
         InRounds, Opening
  <2>5. CASE case = 7
    <3>1. \A a \in AP :
          PlaceAt(a, bp', case', round', phase'[a], ap'[a], Len(did'[a]))
      <4>1. {bp, bp'} \subseteq {"monitor", "go1", "mwait", "await", "check", "clear"}
        BY <1>k, <2>1, <2>5 DEF Placed, Course, Opening
      <4> QED
        BY <2>1, <2>5, <4>1 DEF Placed, PlaceAt, Opening
    <3> QED
      BY <1>k, <2>1, <2>2, <2>5, <3>1 DEF Placed, Course, Type, Opening
  <2> QED
    BY <2>3, <2>4, <2>5
<1>5. CASE BpClear
  <2>1. /\ UNCHANGED <<setting, start_run_id, case, ap, phase, wait_bp,
                       test_atomic_type>>
        /\ bp = "clear" /\ \A a \in AP : Len(did'[a]) = 0
        /\ IF Locking /\ round < LoopCount
           THEN bp' = "go1" /\ round' = round + 1
           ELSE bp' = "none" /\ round' = round
    BY <1>5 DEF BpClear, BpGoto, apState
  <2>2. start_run_id' = RunId(bp', case', setting'.monitor)
    BY <1>r, <2>1
  <2>3. case \in {2, 3, 4, 7}
    BY <1>c, <2>1 DEF Placed, Course
  <2>4. \A a \in AP : /\ ap[a] \notin InLoop
                      /\ a = 1 \/ Locking => Len(did[a]) = 1
    BY <2>1 DEF HandInv, SignalInv, Told, AllIn, Unsent, Answered
  <2>5. CASE Locking /\ round < LoopCount
    <3>1. \A a \in AP : PlaceAt(a, "go1", case, round + 1, phase[a], ap[a], 0)
      <4> USE DEF Placed, PlaceAt, InRounds, Opening, InLoop, Loop, Entering
      <4>1. CASE case = 2
        BY <2>1, <2>4, <2>5, <4>1
      <4>2. CASE case = 3
        BY <2>1, <2>4, <2>5, <4>2
      <4>3. CASE case = 4
        BY <2>1, <2>4, <2>5, <4>3
      <4> QED
        BY <1>k, <2>5, <4>1, <4>2, <4>3
    <3>2. WaitFor' = WaitFor
      BY <1>k, <2>1, <2>5 DEF WaitFor, Late, InRounds
    <3> QED
      BY <1>t, <1>k, <2>1, <2>2, <2>5, <3>1, <3>2, HsiAssumption
         DEF HandTypes, Placed, Course, Type, InRounds, Opening
  <2>6. CASE Locking /\ round >= LoopCount
    <3>1. round = LoopCount /\ round # 1
      BY <2>6, HsiAssumption DEF Placed
    <3>2. \A a \in AP : /\ PlaceAt(a, "none", case, round, phase[a], ap[a], 0)
                        /\ ~Late(a)
      <4>0. \A a \in AP : ap[a] \notin InLoop /\ Len(did[a]) = 1
        BY <2>4, <2>6
      <4>1. CASE case = 2
        <5>0. \A a \in AP : PlaceAt(a, "clear", 2, round, phase[a], ap[a], 1)
          BY <2>1, <4>0, <4>1 DEF Placed
        <5>1. \A a \in AP : phase[a] = 1 /\ ap[a] \in {"type", "begin"}
          BY <4>0, <5>0 DEF PlaceAt, Loop, Entering, InLoop, InRounds
        <5> QED
          BY <4>1, <5>1 DEF PlaceAt, InRounds, Opening, Entering, Late
      <4>2. CASE case = 3
        BY <2>1, <3>1, <4>0, <4>2 DEF Placed, PlaceAt, InRounds, Opening,
           InLoop, Loop, Entering, Late
      <4>3. CASE case = 4
        <5>0. \A a \in AP : PlaceAt(a, "clear", 4, round, phase[a], ap[a], 1)
          BY <2>1, <4>0, <4>3 DEF Placed
        <5>1. \A a \in AP : phase[a] = 3 /\ ap[a] \in {"type", "begin"}
          BY <4>0, <5>0 DEF PlaceAt, Loop, Entering, InLoop, InRounds
        <5> QED
          BY <4>3, <5>1 DEF PlaceAt, InRounds, Opening, Entering, Late
      <4>4. case = 2 \/ case = 3 \/ case = 4
        BY <1>k, <2>6
      <4> QED
        BY <4>1, <4>2, <4>3, <4>4
    <3>3. wait_bp = 0
      BY <1>k, <2>1, <2>6, <3>2 DEF Placed, WaitFor, AP
    <3> QED
      BY <1>t, <1>k, <2>1, <2>2, <2>6, <3>1, <3>2, <3>3
         DEF Placed, Course, Type, WaitFor, InRounds, Opening
  <2>7. CASE ~Locking
    <3>1. case = 7
      BY <1>k, <2>3, <2>7
    <3>2. \A a \in AP :
          PlaceAt(a, bp', case', round', phase'[a], ap'[a], Len(did'[a]))
      BY <2>1, <2>4, <2>7, <3>1
         DEF Placed, PlaceAt, Opening, Loop, InLoop, Entering
    <3> QED
      BY <2>1, <2>2, <2>7, <3>1, <3>2 DEF Placed, Course, Type, Opening
  <2> QED
    BY <1>t, <2>5, <2>6, <2>7, HsiAssumption DEF HandTypes
<1>6. CASE BpNone
  <2>1. /\ UNCHANGED <<setting, start_run_id, case, ap, phase, wait_bp, round, did>>
        /\ bp = "none" /\ bp' = "report" /\ test_atomic_type' = 0
    BY <1>6 DEF BpNone, BpGoto, apState, history, NONE_TEST
  <2>2. start_run_id' = RunId(bp', case', setting'.monitor)
    BY <1>r, <2>1
  <2>3. case \in {2, 3, 4, 7}
    BY <1>c, <2>1 DEF Placed, Course
  <2>4. \A a \in AP :
          PlaceAt(a, bp', case', round', phase'[a], ap'[a], Len(did'[a]))
    BY <2>1, <2>3 DEF Placed, PlaceAt, InRounds, Opening
  <2>5. case = 7 => ap[1] # "id"
    BY <2>1 DEF Placed, PlaceAt, AP
  <2> QED
    BY <2>1, <2>2, <2>3, <2>4, <2>5
       DEF Placed, Course, Type, WaitFor, InRounds, Opening
<1> QED
  BY <1>1, <1>2, <1>3, <1>4, <1>5, <1>6

(* What no step of an AP changes, and what it adds to the history. *)
LEMMA ApKeeps ==
  ASSUME NEW a \in AP, Ap(a)
  PROVE  /\ UNCHANGED <<setting, case, round>>
         /\ did' = did \/ (ap[a] \in {"run", "store"} /\ Ran(a))
<1> USE DEF bpState, history
<1>1. CASE ApBoot(a) \/ ApId(a) \/ ap_sync(a)
  BY <1>1 DEF ApBoot, ApId, ap_sync
<1>2. CASE ApLoop(a) \/ ApTake(a) \/ ApEnd(a)
  BY <1>2 DEF ApLoop, ApTake, ApEnd
<1>3. CASE lock_add_test(a)
  BY <1>3 DEF lock_add_test
<1>4. CASE lock_xchg_test(a)
  BY <1>4 DEF lock_xchg_test
<1>5. CASE lock_mov_test(a) \/ mwait_test_ap1(a)
  BY <1>5 DEF lock_mov_test, mwait_test_ap1
<1> QED
  BY <1>1, <1>2, <1>3, <1>4, <1>5 DEF Ap

(* The processors and the BP stay what they are. *)
LEMMA SettingStays == ASSUME [Next]_vars PROVE setting' = setting
<1>1. ASSUME NEW a \in AP, Ap(a) PROVE setting' = setting
  BY <1>1, ApKeeps
<1>2. ASSUME Bp \/ check_next_instruction_with_irq PROVE setting' = setting
  BY <1>2 DEF Bp, BpCase, BpDelay, BpHlt, BpReset, BpGo, BpMonitor, BpAwait,
     BpCheck, BpClear, BpNone, BpReport, check_next_instruction_with_irq
<1>3. CASE UNCHANGED vars
  BY <1>3 DEF vars
<1> QED
  BY <1>1, <1>2, <1>3 DEF Next

(* With a patient BP the APs are where Placed says. *)
LEMMA PlaceInvariant == Spec => []PlaceInv
<1>1. HandInv /\ PlaceInv /\ [Next]_vars => PlaceInv'
  <2> SUFFICES ASSUME HandInv, Placed, setting.patient, [Next]_vars PROVE Placed'
    BY SettingStays DEF PlaceInv
  <2>1. CASE UNCHANGED vars
    BY <2>1 DEF vars, handshake, bpState, apState, history, Placed, RunId,
       Type, WaitFor, Late
  <2> QED
    BY <2>1, PlaceApStep, PlaceBpCase, PlaceBpReport, PlaceBpOther DEF Next,
       Bp
<1> QED
  BY <1>1, PlaceInit, HandInvariant, PTL DEF Spec

(* Which instruction an AP in its loop is about to run. *)
LEMMA RunPlace ==
  ASSUME HandInv, Placed, NEW a \in AP, ap[a] \in InLoop
  PROVE  /\ case \in {2, 3, 4, 7} /\ bp \in {"go2", "mwait", "await"}
         /\ case = 2 => phase[a] = 1
         /\ case = 3 => phase[a] = 2 \/ (phase[a] = 1 /\ round = 1)
         /\ case = 4 => phase[a] = 3
         /\ case = 7 => phase[a] = 4
<1>1. Told(a)
  BY NoSignal
<1>2. bp \in {"go2", "mwait", "await"} /\ case \in 1..7
  BY <1>1 DEF Told, HandInv, HandTypes
<1>3. case \in {2, 3, 4, 7} /\ (case # 7 => bp # "mwait")
  BY <1>2 DEF Placed, Course, Opening, InRounds
<1>4. PlaceAt(a, bp, case, round, phase[a], ap[a], Len(did[a]))
  BY DEF Placed
<1> USE DEF PlaceAt, InRounds, Opening, InLoop, Loop, Entering
<1>5. CASE case = 2
  BY <1>2, <1>4, <1>5
<1>6. CASE case = 3
  BY <1>2, <1>3, <1>4, <1>6
<1>7. CASE case \in {4, 7}
  BY <1>2, <1>3, <1>4, <1>7
<1> QED
  BY <1>3, <1>5, <1>6, <1>7

(* The steps of the BP that leave operands, counts and APs alone. *)
LEMMA QuietBp ==
  ASSUME \/ BpDelay \/ BpHlt \/ BpReset \/ BpGo \/ BpMonitor \/ BpAwait
         \/ BpNone \/ check_next_instruction_with_irq
  PROVE  /\ UNCHANGED <<setting, val_test0, val_test1, reg_val, val_aligned,
                        fail_ato_cnt, ap_run_nums, case, round, ap, phase, tmp,
                        did, broken>>
         /\ bp \notin {"case", "check", "clear", "report"}
<1> USE DEF operands, apState, history
<1>1. CASE BpDelay
  BY <1>1 DEF BpDelay
<1>2. CASE BpHlt
  BY <1>2 DEF BpHlt
<1>3. CASE BpReset
  BY <1>3 DEF BpReset
<1>4. CASE BpGo
  BY <1>4 DEF BpGo
<1>5. CASE BpMonitor
  BY <1>5 DEF BpMonitor
<1>6. CASE BpAwait
  BY <1>6 DEF BpAwait
<1>7. CASE BpNone
  BY <1>7 DEF BpNone
<1>8. CASE check_next_instruction_with_irq
  BY <1>8 DEF check_next_instruction_with_irq
<1> QED
  BY <1>1, <1>2, <1>3, <1>4, <1>5, <1>6, <1>7, <1>8

(* What a step does to the instructions run in the round. *)
LEMMA DidSteps ==
  ASSUME HandInv, [Next]_vars
  PROVE  \/ UNCHANGED <<case, round, did>>
         \/ \A a \in AP : Len(did'[a]) = 0
         \/ \E a \in AP : /\ ap[a] \in {"run", "store"} /\ Ran(a)
                          /\ UNCHANGED <<case, round>>
<1>1. ASSUME NEW a \in AP, Ap(a)
      PROVE  /\ UNCHANGED <<case, round>>
             /\ did' = did \/ (ap[a] \in {"run", "store"} /\ Ran(a))
  BY <1>1, ApKeeps
<1>2. CASE BpCase \/ BpClear
  BY <1>2 DEF BpCase, BpClear
<1>3. CASE BpReport
  <2>1. bp = "report" /\ did' = did
    BY <1>3 DEF BpReport, history
  <2>2. \A a \in AP : Unsent(a)
    BY <2>1 DEF HandInv, SignalInv, Told, AllIn
  <2> QED
    BY <2>1, <2>2 DEF Unsent
<1>4. CASE \/ BpDelay \/ BpHlt \/ BpReset \/ BpGo \/ BpMonitor \/ BpAwait
           \/ BpNone \/ check_next_instruction_with_irq
  BY <1>4, QuietBp
<1>5. CASE BpCheck
  BY <1>5 DEF BpCheck, history
<1>6. CASE UNCHANGED vars
  BY <1>6 DEF vars, bpState, history
<1> QED
  BY <1>1, <1>2, <1>3, <1>4, <1>5, <1>6 DEF Next, Bp

(* Each AP has run what it should, in the round that is not over too. *)
LEMMA DidInvariant == Spec => []DidInv
<1>1. Init => DidInv
  BY DEF Init, DidInv
<1>2. HandInv /\ PlaceInv /\ DidInv /\ [Next]_vars => DidInv'
  <2> SUFFICES ASSUME HandInv, Placed, DidInv, [Next]_vars, setting.patient,
                      NEW b \in AP, Len(did'[b]) = 1
               PROVE  \/ did'[b][1] = TypeOf(Id)'
                      \/ case' = 3 /\ round' = 1 /\ did'[b][1] = INSTRUCTION_ADD
    BY SettingStays DEF PlaceInv, DidInv
  <2>1. CASE UNCHANGED <<case, round, did>>
    <3>1. TypeOf(Id)' = TypeOf(Id)
      BY <2>1 DEF TypeOf, Id
    <3> QED
      BY <2>1, <3>1 DEF DidInv
  <2>2. ASSUME NEW a \in AP, ap[a] \in {"run", "store"}, Ran(a),
               UNCHANGED <<case, round>>
        PROVE  \/ did'[b][1] = TypeOf(Id)'
               \/ case' = 3 /\ round' = 1 /\ did'[b][1] = INSTRUCTION_ADD
    <3>1. did \in [AP -> Seq(0..3)] /\ phase \in [AP -> 1..4] /\ case \in 1..7
      BY DEF HandInv, HandTypes
    <3>2. TypeOf(Id)' = TypeOf(Id)
      BY <2>2 DEF TypeOf, Id
    <3>3. CASE a # b
      BY <2>2, <3>1, <3>2, <3>3 DEF Ran, DidInv
    <3>4. CASE a = b
      <4>1. Taken(a)
        BY <2>2 DEF HandInv, SignalInv, Unsent, Sent, Taken, Ended, Answered,
           InLoop
      <4>2. did'[a] = Append(did[a], Instr(a)) /\ Len(did[a]) = 0
        BY <2>2, <3>1, <4>1 DEF Ran, Taken
      <4>3. did'[a][1] = phase[a] - 1
        BY <3>1, <4>2, PhaseValues
      <4>4. /\ case \in {2, 3, 4, 7}
            /\ case = 2 => phase[a] = 1
            /\ case = 3 => phase[a] = 2 \/ (phase[a] = 1 /\ round = 1)
            /\ case = 4 => phase[a] = 3
            /\ case = 7 => phase[a] = 4
        BY <2>2, RunPlace DEF InLoop
      <4>5. CASE case = 3 /\ phase[a] = 1 /\ round = 1
        BY <2>2, <3>4, <4>3, <4>5 DEF INSTRUCTION_ADD
      <4>6. CASE ~(case = 3 /\ phase[a] = 1 /\ round = 1)
        <5>1. phase[a] - 1 = TypeOf(Id)
          BY <3>1, <4>4, <4>6, CaseValues
        <5> QED
          BY <3>2, <3>4, <4>3, <5>1
      <4> QED
        BY <4>5, <4>6
    <3> QED
      BY <3>3, <3>4
  <2>3. CASE \A a \in AP : Len(did'[a]) = 0
    <3>1. Len(did'[b]) = 0
      BY <2>3
    <3> QED
      BY <3>1
  <2> QED
    BY <2>1, <2>2, <2>3, DidSteps
<1> QED
  BY <1>1, <1>2, HandInvariant, PlaceInvariant, PTL DEF Spec

(* However many rounds there are, an AP of a patient BP runs the           *)
(* instruction of the case, but for one addition in the first round of     *)
(* 35973 (lock_atomic_test_ap).                                            *)
THEOREM InstructionsRight == Spec => []RightInstruction
<1>1. HandInv /\ DidInv => RightInstruction
  <2> SUFFICES ASSUME HandInv, DidInv, setting.patient, bp \in {"check", "clear"},
                      NEW a \in AP, NEW i \in 1..Len(did[a])
               PROVE  \/ did[a][i] = TypeOf(Id)
                      \/ Id = 35973 /\ round = 1 /\ did[a][i] = INSTRUCTION_ADD
    BY DEF RightInstruction
  <2>1. Len(did[a]) = 1 /\ i = 1
    <3>1. Unsent(a) \/ Answered(a)
      BY DEF HandInv, SignalInv, Told, AllIn
    <3>2. Len(did[a]) = 0 \/ Len(did[a]) = 1
      BY <3>1 DEF Unsent, Answered
    <3>3. ASSUME NEW n \in {0, 1}, i \in 1..n PROVE n = 1 /\ i = 1
      BY <3>3
    <3> QED
      BY <3>2, <3>3
  <2> QED
    BY <2>1, CaseValues DEF DidInv, HandInv, HandTypes
<1> QED
  BY <1>1, HandInvariant, DidInvariant, PTL
-----------------------------------------------------------------------------
(* What the verdicts are made from. *)
Data == <<setting, val_test0, val_test1, reg_val, val_aligned, tmp, fail_ato_cnt,
          broken>>

(* AP a runs its instruction, or half of it. *)
Instruction(a) ==
  lock_add_test(a) \/ lock_xchg_test(a) \/ lock_mov_test(a) \/ mwait_test_ap1(a)

(* A step that has nothing to do with them. *)
Elsewhere ==
  /\ bp # "case"
  /\ UNCHANGED Data /\ UNCHANGED <<round, did>>
  /\ bp' \in {"none", "report"} <=> bp \in {"none", "report"}
  /\ bp' = "clear" <=> bp = "clear"
  /\ \A b \in AP : ap'[b] = "store" <=> ap[b] = "store"
  /\ \A b \in AP : ap[b] = "store" => phase'[b] = phase[b]

(* The counters and operands stay integers, broken a truth value. *)
LEMMA DataInvariant == Spec => []DataTypes
<1>1. Init => DataTypes
  <2> SUFFICES ASSUME Init PROVE DataTypes
    OBVIOUS
  <2>1. val_aligned = <<0, 0>> /\ tmp = [a \in AP |-> 0] /\ reg_val = tmp
    BY DEF Init
  <2>2. /\ ap_run_nums = 0 /\ fail_ato_cnt = 0 /\ broken = FALSE
        /\ val_test0 = 0 /\ val_test1 = 0
    BY DEF Init
  <2>3. val_aligned \in Int \X Int
    BY <2>1
  <2>4. tmp \in [AP -> Int] /\ reg_val \in [AP -> Int]
    BY <2>1
  <2>5. broken \in BOOLEAN
    BY <2>2
  <2> QED
    BY <2>2, <2>3, <2>4, <2>5 DEF DataTypes
<1>2. HandInv /\ DataTypes /\ [Next]_vars => DataTypes'
  <2> SUFFICES ASSUME DataTypes, [Next]_vars PROVE DataTypes'
    OBVIOUS
  <2> USE DEF DataTypes
  <2>1. ASSUME NEW a \in AP, lock_add_test(a) \/ lock_xchg_test(a) PROVE DataTypes'
    <3>1. /\ val_test0' = val_test0 \/ val_test0' = val_test0 + 1
             \/ val_test0' = tmp[a] + 1
          /\ val_test1' = val_test1 \/ val_test1' = reg_val[a]
          /\ reg_val' = reg_val \/ reg_val' = [reg_val EXCEPT ![a] = val_test1]
             \/ reg_val' = [reg_val EXCEPT ![a] = tmp[a]]
          /\ \/ tmp' = tmp \/ tmp' = [tmp EXCEPT ![a] = 0]
             \/ tmp' = [tmp EXCEPT ![a] = val_test0]
             \/ tmp' = [tmp EXCEPT ![a] = val_test1]
      BY <2>1 DEF lock_add_test, lock_xchg_test
    <3>2. broken' \in BOOLEAN /\ UNCHANGED <<ap_run_nums, fail_ato_cnt, val_aligned>>
      BY <2>1 DEF lock_add_test, lock_xchg_test, bpState
    <3>3. reg_val' \in [AP -> Int]
      BY <3>1
    <3>4. tmp' \in [AP -> Int]
      BY <3>1
    <3> QED
      BY <3>1, <3>2, <3>3, <3>4
  <2>2. ASSUME NEW a \in AP, lock_mov_test(a) PROVE DataTypes'
    <3>1. /\ broken' \in BOOLEAN
          /\ UNCHANGED <<ap_run_nums, fail_ato_cnt, val_test0, val_test1, reg_val, tmp>>
      BY <2>2 DEF lock_mov_test, bpState
    <3>2. \/ val_aligned' = <<reg_val[a], reg_val[a]>>
          \/ val_aligned' = [val_aligned EXCEPT ![1] = reg_val[a]]
          \/ val_aligned' = [val_aligned EXCEPT ![2] = reg_val[a]]
      BY <2>2 DEF lock_mov_test
    <3>3. val_aligned' \in Int \X Int
      BY <3>2
    <3> QED
      BY <3>1, <3>3
  <2>3. ASSUME NEW a \in AP, ApBoot(a) PROVE DataTypes'
    BY <2>3 DEF ApBoot, operands, history
  <2>4. ASSUME NEW a \in AP,
               \/ ApId(a) \/ ap_sync(a) \/ ApLoop(a) \/ ApTake(a)
               \/ mwait_test_ap1(a) \/ ApEnd(a)
        PROVE  DataTypes'
    <3> USE DEF operands, bpState, history
    <3>1. CASE ApId(a)
      BY <3>1 DEF ApId
    <3>2. CASE ap_sync(a)
      BY <3>2 DEF ap_sync
    <3>3. CASE ApLoop(a)
      BY <3>3 DEF ApLoop
    <3>4. CASE ApTake(a)
      BY <3>4 DEF ApTake
    <3>5. CASE mwait_test_ap1(a)
      BY <3>5 DEF mwait_test_ap1
    <3>6. CASE ApEnd(a)
      BY <3>6 DEF ApEnd
    <3> QED
      BY <2>4, <3>1, <3>2, <3>3, <3>4, <3>5, <3>6
  <2>5. CASE BpCase
    <3> USE DEF ORG_ATO_VAL0, ORG_ATO_VAL1, ORG_ATO_VAL2
    <3>1. /\ ap_run_nums' \in Int /\ fail_ato_cnt' \in Nat /\ broken' = FALSE
          /\ val_test0' \in Int /\ val_test1' \in Int /\ tmp' = tmp
      BY <2>5 DEF BpCase, apState
    <3>2. val_aligned' \in Int \X Int
      BY <2>5 DEF BpCase
    <3>3. reg_val' \in [AP -> Int]
      <4>1. \/ reg_val' = [a \in AP |-> IF a = 1 THEN ORG_ATO_VAL1 ELSE ORG_ATO_VAL2]
            \/ reg_val' = reg_val
        BY <2>5 DEF BpCase
      <4> QED
        BY <4>1
    <3> QED
      BY <3>1, <3>2, <3>3
  <2>6. CASE BpCheck
    BY <2>6 DEF BpCheck, operands, apState, history
  <2>7. CASE BpClear
    BY <2>7 DEF BpClear, operands, apState
  <2>8. CASE \/ BpDelay \/ BpHlt \/ BpReset \/ BpGo \/ BpMonitor \/ BpAwait
             \/ BpNone \/ check_next_instruction_with_irq
    BY <2>8, QuietBp
  <2>9. CASE BpReport
    BY <2>9 DEF BpReport, operands, apState, history
  <2>10. CASE UNCHANGED vars
    BY <2>10 DEF vars, operands, bpState, apState, history
  <2> QED
    BY <2>1, <2>2, <2>3, <2>4, <2>5, <2>6, <2>7, <2>8, <2>9, <2>10
       DEF Next, Bp, Ap
<1> QED
  BY <1>1, <1>2, HandInvariant, PTL DEF Spec

(* A step within one of the cases 2..4 announces the case, runs an         *)
(* instruction, checks or clears the round, or leaves the operands alone.  *)
LEMMA RoundSteps ==
  ASSUME HandInv, Placed, [Next]_vars, case' \in 2..4, bp' # "case"
  PROVE  /\ case' = case
         /\ \/ BpCase
            \/ BpCheck
            \/ BpClear
            \/ \E a \in AP : ap[a] \in {"run", "store"} /\ Instruction(a)
            \/ Elsewhere
<1>t. HandTypes
  BY DEF HandInv
<1>1. ASSUME NEW a \in AP, Ap(a), ~Instruction(a)
      PROVE  /\ UNCHANGED Data /\ UNCHANGED <<case, bp, round, did>>
             /\ \A b \in AP : ap'[b] = "store" <=> ap[b] = "store"
             /\ \A b \in AP : ap[b] = "store" => phase'[b] = phase[b]
  <2> USE <1>t DEF HandTypes, Data, Goto, operands, bpState, history
  <2>1. CASE ApBoot(a)
    BY <2>1 DEF ApBoot
  <2>2. CASE ApId(a)
    BY <2>2 DEF ApId
  <2>3. CASE ap_sync(a)
    BY <2>3 DEF ap_sync
  <2>4. CASE ApLoop(a)
    BY <2>4 DEF ApLoop
  <2>5. CASE ApTake(a) \/ ApEnd(a)
    BY <2>5 DEF ApTake, ApEnd
  <2> QED
    BY <1>1, <2>1, <2>2, <2>3, <2>4, <2>5 DEF Ap, Instruction
<1>2. ASSUME NEW a \in AP, Instruction(a)
      PROVE  ap[a] \in {"run", "store"} /\ UNCHANGED <<case, bp>>
  BY <1>2 DEF Instruction, lock_add_test, lock_xchg_test, lock_mov_test,
     mwait_test_ap1, bpState
<1>3. ASSUME BpDelay \/ BpHlt \/ BpReset \/ BpGo \/ BpMonitor \/ BpAwait \/ BpNone
             \/ check_next_instruction_with_irq
      PROVE  /\ UNCHANGED Data /\ UNCHANGED <<case, ap, phase, round, did>>
             /\ bp # "case"
  BY <1>3, QuietBp DEF Data
<1>4. ASSUME BpDelay \/ BpHlt \/ BpReset \/ BpGo \/ BpMonitor \/ BpAwait \/ BpNone
             \/ check_next_instruction_with_irq
      PROVE  /\ bp' \in {"none", "report"} <=> bp \in {"none", "report"}
             /\ bp' # "clear" /\ bp # "clear"
  <2>1. case \in 2..4
    BY <1>3, <1>4
  <2>2. bp \notin {"delay", "hlt", "halted"}
    BY <2>1 DEF Placed, Course, Opening, InRounds
  <2>3. CASE BpDelay \/ BpHlt \/ check_next_instruction_with_irq
    BY <2>2, <2>3 DEF BpDelay, BpHlt, check_next_instruction_with_irq
  <2>4. CASE BpReset
    BY <2>4 DEF BpReset, BpGoto
  <2>5. CASE BpGo
    BY <2>5 DEF BpGo, BpGoto
  <2>6. CASE BpMonitor \/ BpAwait
    BY <2>6 DEF BpMonitor, BpAwait, BpGoto
  <2>7. CASE BpNone
    BY <2>7 DEF BpNone, BpGoto
  <2> QED
    BY <1>4, <2>3, <2>4, <2>5, <2>6, <2>7
<1>5. CASE BpReport
  <2>1. case = 7 /\ case' = case
    <3>1. Len(case_suit_multi) = 7
      BY DEF case_suit_multi
    <3> QED
      BY <1>5, <1>t, <3>1 DEF BpReport, BpGoto, HandTypes
  <2> QED
    BY <2>1
<1>6. CASE BpCase \/ BpCheck \/ BpClear
  BY <1>6 DEF BpCase, BpCheck, BpClear
<1>7. CASE UNCHANGED vars
  BY <1>7 DEF vars, operands, bpState, apState, history, Data, Elsewhere
<1> QED
  BY <1>1, <1>2, <1>3, <1>4, <1>5, <1>6, <1>7 DEF Next, Bp, Elsewhere

(* An AP at its instruction has not run one in this round. *)
LEMMA NoDid ==
  ASSUME HandInv, NEW a \in AP, ap[a] \in {"run", "store"}
  PROVE  Len(did[a]) = 0
  BY DEF HandInv, SignalInv, Unsent, Sent, Taken, Ended, Answered, InLoop

(* An AP that runs an instruction of the case. *)
InstrStep(a) ==
  /\ bp \in {"go2", "await"} /\ Len(did[a]) = 0
  /\ UNCHANGED <<setting, case, bp, round, phase, fail_ato_cnt>>
  /\ case = 2 => lock_add_test(a) /\ InTest(a)
  /\ case = 3 => \/ lock_xchg_test(a) /\ InTest(a) /\ phase[a] = 2
                 \/ lock_add_test(a) /\ ~InTest(a) /\ phase[a] = 1
  /\ case = 4 => lock_mov_test(a) /\ InTest(a)
  /\ \A b \in AP \ {a} : ap'[b] = ap[b] /\ did'[b] = did[b]
  /\ \/ ap[a] = "run" /\ ap'[a] = "store" /\ Len(did'[a]) = 0
     \/ ap'[a] = "end" /\ Len(did'[a]) = 1

(* That is all an instruction can be while a case with rounds goes on. *)
LEMMA InstrSteps ==
  ASSUME HandInv, Placed, case \in 2..4, NEW a \in AP, ap[a] \in {"run", "store"},
         Instruction(a)
  PROVE  InstrStep(a)
<1>t. HandTypes
  BY DEF HandInv
<1>1. /\ bp \in {"go2", "await"}
      /\ case = 2 => phase[a] = 1
      /\ case = 3 => phase[a] = 2 \/ phase[a] = 1
      /\ case = 4 => phase[a] = 3
  <2>1. bp # "mwait"
    BY DEF Placed, Course, Opening, InRounds
  <2> QED
    BY <2>1, RunPlace DEF InLoop
<1>2. Len(did[a]) = 0
  BY NoDid
<1>3. UNCHANGED <<setting, case, bp, round, phase, fail_ato_cnt>>
  BY DEF Instruction, lock_add_test, lock_xchg_test, lock_mov_test,
     mwait_test_ap1, bpState
<1>4. \/ ap[a] = "run" /\ Goto(a, "store") /\ UNCHANGED did
      \/ Goto(a, "end") /\ Ran(a)
  BY DEF Instruction, lock_add_test, lock_xchg_test, lock_mov_test,
     mwait_test_ap1
<1>5. /\ \A b \in AP \ {a} : ap'[b] = ap[b] /\ did'[b] = did[b]
      /\ \/ ap[a] = "run" /\ ap'[a] = "store" /\ Len(did'[a]) = 0
         \/ ap'[a] = "end" /\ Len(did'[a]) = 1
  <2>1. Instr(a) \in 0..3
    <3>1. phase[a] \in 1..4 /\ Instr(a) = phase[a] - 1
      BY <1>t, PhaseValues DEF HandTypes
    <3>2. \A n \in 1..4 : n - 1 \in 0..3
      OBVIOUS
    <3> QED
      BY <3>1, <3>2
  <2> QED
    BY <1>t, <1>2, <1>4, <2>1 DEF Goto, Ran, HandTypes
<1>6. /\ case = 2 => lock_add_test(a) /\ InTest(a)
      /\ case = 3 => \/ lock_xchg_test(a) /\ InTest(a) /\ phase[a] = 2
                     \/ lock_add_test(a) /\ ~InTest(a) /\ phase[a] = 1
      /\ case = 4 => lock_mov_test(a) /\ InTest(a)
  <2> USE DEF INSTRUCTION_ADD, INSTRUCTION_XCHG, INSTRUCTION_MOV, INSTRUCTION_MWAIT
  <2>1. /\ Instr(a) = phase[a] - 1
        /\ phase[a] = 1 => ApCase(a) = 35972
        /\ phase[a] = 2 => ApCase(a) = 35973
        /\ phase[a] = 3 => ApCase(a) = 39720
    BY <1>t, PhaseValues DEF HandTypes
  <2>2. /\ lock_add_test(a) => Instr(a) = 0
        /\ lock_xchg_test(a) => Instr(a) = 1
        /\ lock_mov_test(a) => Instr(a) = 2
        /\ mwait_test_ap1(a) => Instr(a) = 3
    BY DEF lock_add_test, lock_xchg_test, lock_mov_test, mwait_test_ap1
  <2>3. /\ case = 2 => Id = 35972
        /\ case = 3 => Id = 35973
        /\ case = 4 => Id = 39720
    BY CaseValues
  <2>4. CASE case = 2
    <3>0. phase[a] = 1 /\ Id = 35972 /\ case # 3 /\ case # 4
      BY <1>1, <2>3, <2>4
    <3>1. Instr(a) = 0 /\ ApCase(a) = Id
      BY <2>1, <3>0
    <3>2. Instr(a) # 1 /\ Instr(a) # 2 /\ Instr(a) # 3
      BY <3>1
    <3>3. lock_add_test(a) /\ InTest(a)
      BY <2>2, <3>1, <3>2, Zenon DEF Instruction, InTest
    <3> QED
      BY <3>0, <3>3
  <2>5. CASE case = 3
    <3>0. /\ phase[a] = 2 \/ phase[a] = 1
          /\ Id = 35973 /\ case # 2 /\ case # 4
      BY <1>1, <2>3, <2>5
    <3>1. CASE phase[a] = 2
      <4>1. Instr(a) = 1 /\ ApCase(a) = Id
        BY <2>1, <3>0, <3>1
      <4>2. Instr(a) # 0 /\ Instr(a) # 2 /\ Instr(a) # 3
        BY <4>1
      <4>3. lock_xchg_test(a) /\ InTest(a)
        BY <2>2, <4>1, <4>2, Zenon DEF Instruction, InTest
      <4> QED
        BY <3>0, <3>1, <4>3
    <3>2. CASE phase[a] = 1
      <4>1. Instr(a) = 0 /\ ApCase(a) # Id
        BY <2>1, <3>0, <3>2
      <4>2. Instr(a) # 1 /\ Instr(a) # 2 /\ Instr(a) # 3
        BY <4>1
      <4>3. lock_add_test(a) /\ ~InTest(a)
        BY <2>2, <4>1, <4>2, Zenon DEF Instruction, InTest
      <4> QED
        BY <3>0, <3>2, <4>3
    <3> QED
      BY <3>0, <3>1, <3>2
  <2>6. CASE case = 4
    <3>0. phase[a] = 3 /\ Id = 39720 /\ case # 2 /\ case # 3
      BY <1>1, <2>3, <2>6
    <3>1. Instr(a) = 2 /\ ApCase(a) = Id
      BY <2>1, <3>0
    <3>2. Instr(a) # 0 /\ Instr(a) # 1 /\ Instr(a) # 3
      BY <3>1
    <3>3. lock_mov_test(a) /\ InTest(a)
      BY <2>2, <3>1, <3>2, Zenon DEF Instruction, InTest
    <3> QED
      BY <3>0, <3>3
  <2> QED
    BY <2>4, <2>5, <2>6
<1> QED
  BY <1>1, <1>2, <1>3, <1>5, <1>6 DEF InstrStep

(* 35972: val_test0 falls behind the additions as soon as one is lost. *)
LEMMA AddInvariant == Spec => []AddInv
<1>1. Init => AddInv
  BY DEF Init, AddInv
<1>2. HandInv /\ PlaceInv /\ DataTypes /\ AddInv /\ [Next]_vars => AddInv'
  <2> SUFFICES ASSUME HandInv, Placed, DataTypes, AddInv, [Next]_vars,
                      setting.patient, case' = 2, bp' # "case"
               PROVE  AddInv'
    BY SettingStays DEF PlaceInv, AddInv
  <2>t. round \in Int /\ did \in [AP -> Seq(0..3)] /\ ap \in [AP -> ApLabels]
    BY DEF HandInv, HandTypes
  <2>s. setting' = setting /\ case = 2
    BY SettingStays, RoundSteps
  <2>n. \A a \in AP : Len(did[a]) \in Nat
    BY <2>t
  <2>1. CASE BpCase
    <3>1. val_test0' = 0 /\ broken' = FALSE /\ round' = 1 /\ ap' = ap
          /\ bp = "case" /\ bp' = "reset"
      BY <2>1, <2>s, CaseValues DEF BpCase, BpGoto, apState, Announced
    <3>2. Len(did'[1]) = 0 /\ Len(did'[2]) = 0
      BY <2>1 DEF BpCase, AP
    <3>3. \A a \in AP : ap[a] # "store"
      BY <3>1, <2>s, NoSignal DEF Told, InLoop
    <3>4. RoundsOver' = 0 /\ Adds' = 0
      <4>1. RoundsOver' = 0
        BY <3>1 DEF RoundsOver
      <4> QED
        BY <3>2, <4>1 DEF Adds
    <3>5. \A a \in AP : ap'[a] # "store"
      BY <3>1, <3>3
    <3> QED
      BY <3>1, <3>4, <3>5 DEF AddInv
  <2>2. CASE BpCheck
    <3>1. UNCHANGED <<val_test0, broken, round, did, ap, tmp>> /\ bp = "check"
          /\ bp' = "clear"
      BY <2>2 DEF BpCheck, BpGoto, operands, apState, history
    <3> QED
      BY <3>1, <2>s DEF AddInv, Adds, RoundsOver
  <2>3. CASE BpClear
    <3>1. UNCHANGED <<val_test0, broken, ap, tmp>> /\ bp = "clear"
          /\ \/ bp' = "go1" /\ round' = round + 1
             \/ bp' = "none" /\ round' = round
      BY <2>3 DEF BpClear, BpGoto, operands, apState, history
    <3>2. Len(did'[1]) = 0 /\ Len(did'[2]) = 0
      BY <2>3 DEF BpClear, AP
    <3>3. Len(did[1]) = 1 /\ Len(did[2]) = 1
      BY <2>s, <3>1, CaseValues DEF HandInv, SignalInv, Told, AllIn,
         Answered, AP
    <3>4. \A a \in AP : ap[a] # "store"
      BY <3>1, NoSignal DEF Told, InLoop
    <3>5. Adds' = Adds
      <4>1. RoundsOver \in Int /\ RoundsOver' = RoundsOver + 1
        BY <2>t, <3>1 DEF RoundsOver
      <4> QED
        BY <3>2, <3>3, <4>1 DEF Adds
    <3> QED
      BY <2>s, <3>1, <3>4, <3>5 DEF AddInv
  <2>4. ASSUME NEW a \in AP, ap[a] \in {"run", "store"}, Instruction(a)
        PROVE  AddInv'
    <3>i. /\ bp \in {"go2", "await"} /\ Len(did[a]) = 0
          /\ UNCHANGED <<setting, case, bp, round>>
          /\ lock_add_test(a) /\ InTest(a)
          /\ \A b \in AP \ {a} : ap'[b] = ap[b] /\ did'[b] = did[b]
          /\ \/ ap[a] = "run" /\ ap'[a] = "store" /\ Len(did'[a]) = 0
             \/ ap'[a] = "end" /\ Len(did'[a]) = 1
      <4>1. InstrStep(a)
        BY <2>4, <2>s, InstrSteps
      <4> QED
        BY <2>s, <4>1 DEF InstrStep
    <3>o. \A b, d \in AP : b # d => b = a \/ d = a
      BY DEF AP
    <3>a. /\ val_test0 <= Adds /\ (broken <=> val_test0 # Adds)
          /\ \A b, d \in AP : b # d /\ ap[b] = "store" =>
               \/ val_test0 = tmp[b]
               \/ val_test0 = tmp[b] + 1 /\ Len(did[d]) = 1
      BY <2>s, <3>i DEF AddInv
    <3>v. RoundsOver \in Int /\ RoundsOver' = RoundsOver
      <4>1. bp' = bp /\ round' = round
        BY <3>i
      <4>2. RoundsOver \in Int
        BY <2>t DEF RoundsOver
      <4> QED
        BY <4>1, <4>2 DEF RoundsOver
    <3>w. Adds \in Int
      BY <2>n, <3>v DEF Adds, AP
    <3>1. CASE ap'[a] = "store"
      <4>1. /\ UNCHANGED <<val_test0, broken>> /\ tmp' = [tmp EXCEPT ![a] = val_test0]
        BY <3>i, <3>1, <2>t DEF lock_add_test, Goto
      <4>2. Len(did'[1]) = Len(did[1]) /\ Len(did'[2]) = Len(did[2])
        BY <3>i, <3>1 DEF AP
      <4>3. Adds' = Adds
        BY <3>v, <4>2 DEF Adds
      <4>4. ASSUME NEW b \in AP, NEW d \in AP, b # d, ap'[b] = "store"
            PROVE  \/ val_test0' = tmp'[b]
                   \/ val_test0' = tmp'[b] + 1 /\ Len(did'[d]) = 1
        <5>1. CASE b = a
          BY <4>1, <5>1 DEF DataTypes
        <5>2. CASE b # a
          <6>0. d = a
            BY <3>o, <4>4, <5>2
          <6>a. ap'[b] = ap[b]
            BY <3>i, <5>2
          <6>b. tmp'[b] = tmp[b]
            BY <2>t, <4>1, <5>2 DEF DataTypes
          <6>1. d = a /\ ap[b] = "store" /\ tmp'[b] = tmp[b]
            BY <4>4, <6>0, <6>a, <6>b, Zenon
          <6>2. val_test0 = tmp[b]
            BY <3>a, <3>i, <4>4, <6>1
          <6> QED
            BY <4>1, <6>1, <6>2
        <5> QED
          BY <5>1, <5>2
      <4> QED
        BY <3>a, <4>1, <4>3, <4>4 DEF AddInv
    <3>2. CASE ap'[a] = "end"
      <4>1. \/ val_test0' = val_test0 + 1 /\ UNCHANGED <<tmp, broken>> /\ ap[a] = "run"
            \/ /\ ap[a] = "store" /\ val_test0' = tmp[a] + 1
               /\ broken' = (broken \/ val_test0 # tmp[a])
               /\ tmp' = [tmp EXCEPT ![a] = 0]
        BY <3>i, <3>2, <2>t DEF lock_add_test, Goto
      <4>2. Adds' = Adds + 1
        <5>1. ASSUME NEW r \in Int, NEW m \in Nat
              PROVE  /\ 2 * r + 1 + m = (2 * r + 0 + m) + 1
                     /\ 2 * r + m + 1 = (2 * r + m + 0) + 1
          OBVIOUS
        <5>2. CASE a = 1
          <6>0. 1 \in AP /\ 2 \in AP \ {a}
            BY <5>2 DEF AP
          <6>1. /\ Len(did'[1]) = 1 /\ Len(did[1]) = 0 /\ Len(did[2]) \in Nat
                /\ Len(did'[2]) = Len(did[2])
            <7>1. did'[2] = did[2] /\ Len(did[a]) = 0 /\ Len(did'[a]) = 1
              BY <3>i, <3>2, <6>0
            <7>2. Len(did[2]) \in Nat
              BY <2>n, <6>0
            <7> QED
              BY <5>2, <7>1, <7>2
          <6>2. Adds = 2 * RoundsOver + 0 + Len(did[2])
            BY <6>1 DEF Adds
          <6>3. Adds' = 2 * RoundsOver + 1 + Len(did[2])
            BY <3>v, <6>1 DEF Adds
          <6> QED
            BY <3>v, <5>1, <6>1, <6>2, <6>3
        <5>3. CASE a = 2
          <6>0. 2 \in AP /\ 1 \in AP \ {a}
            BY <5>3 DEF AP
          <6>1. /\ Len(did'[2]) = 1 /\ Len(did[2]) = 0 /\ Len(did[1]) \in Nat
                /\ Len(did'[1]) = Len(did[1])
            <7>1. did'[1] = did[1] /\ Len(did[a]) = 0 /\ Len(did'[a]) = 1
              BY <3>i, <3>2, <6>0
            <7>2. Len(did[1]) \in Nat
              BY <2>n, <6>0
            <7> QED
              BY <5>3, <7>1, <7>2
          <6>2. Adds = 2 * RoundsOver + Len(did[1]) + 0
            BY <6>1 DEF Adds
          <6>3. Adds' = 2 * RoundsOver + Len(did[1]) + 1
            BY <3>v, <6>1 DEF Adds
          <6> QED
            BY <3>v, <5>1, <6>1, <6>2, <6>3
        <5> QED
          BY <5>2, <5>3 DEF AP
      <4>3. /\ val_test0 <= Adds /\ (broken <=> val_test0 # Adds) /\ Adds \in Int
            /\ \A b, d \in AP : b # d /\ ap[b] = "store" =>
                 \/ val_test0 = tmp[b]
                 \/ val_test0 = tmp[b] + 1 /\ Len(did[d]) = 1
        BY <3>a, <3>w
      <4>4. CASE ap[a] = "run"
        <5>1. val_test0' = val_test0 + 1 /\ UNCHANGED <<tmp, broken>>
          BY <4>1, <4>4
        <5>2. val_test0' <= Adds' /\ (broken' <=> val_test0' # Adds')
          BY <4>2, <4>3, <5>1 DEF DataTypes
        <5>3. \A b, d \in AP : b # d /\ ap'[b] = "store" =>
                 \/ val_test0' = tmp'[b]
                 \/ val_test0' = tmp'[b] + 1 /\ Len(did'[d]) = 1
          <6> SUFFICES ASSUME NEW b \in AP, NEW d \in AP, b # d,
                              ap'[b] = "store"
                       PROVE  val_test0' = tmp'[b] + 1 /\ Len(did'[d]) = 1
            OBVIOUS
          <6>1. b # a /\ d = a
            BY <3>2, <3>o
          <6>2. ap[b] = "store" /\ Len(did'[d]) = 1 /\ Len(did[d]) = 0
            BY <3>i, <3>2, <6>1
          <6>3. val_test0 = tmp[b]
            BY <4>3, <6>2
          <6> QED
            BY <5>1, <6>2, <6>3
        <5> QED
          BY <5>2, <5>3 DEF AddInv
      <4>5. CASE ap[a] = "store"
        <5>1. /\ val_test0' = tmp[a] + 1 /\ tmp' = [tmp EXCEPT ![a] = 0]
              /\ broken' <=> broken \/ val_test0 # tmp[a]
          BY <4>1, <4>5
        <5>2. val_test0' <= Adds' /\ (broken' <=> val_test0' # Adds')
          <6>1. \E d \in AP : d # a
            BY DEF AP
          <6>2. val_test0 = tmp[a] \/ val_test0 = tmp[a] + 1
            BY <4>3, <4>5, <6>1
          <6> QED
            BY <4>2, <4>3, <5>1, <6>2 DEF DataTypes
        <5>3. \A b, d \in AP : b # d /\ ap'[b] = "store" =>
                 \/ val_test0' = tmp'[b]
                 \/ val_test0' = tmp'[b] + 1 /\ Len(did'[d]) = 1
          <6>1. \A b, d \in AP : b # d /\ ap'[b] = "store" =>
                  d = a /\ b # a /\ ap[b] = "store" /\ Len(did[b]) = 0
            BY <3>i, <3>2, <3>o, NoDid
          <6>2. ASSUME NEW b \in AP, b # a, ap[b] = "store", Len(did[b]) = 0
                PROVE  val_test0' = tmp'[b] + 1
            <7>1. val_test0 = tmp[a]
              BY <4>3, <4>5, <6>2
            <7>2. val_test0 = tmp[b]
              BY <3>i, <4>3, <6>2
            <7> QED
              BY <5>1, <6>2, <7>1, <7>2 DEF DataTypes
          <6> QED
            BY <3>i, <3>2, <6>1, <6>2
        <5> QED
          BY <5>2, <5>3 DEF AddInv
      <4> QED
        BY <2>4, <4>4, <4>5
    <3> QED
      BY <3>i, <3>1, <3>2
  <2>5. CASE Elsewhere
    BY <2>5, <2>s DEF Elsewhere, AddInv, Adds, RoundsOver, Data
  <2> QED
    BY <2>1, <2>2, <2>3, <2>4, <2>5, RoundSteps
<1> QED
  BY <1>1, <1>2, HandInvariant, PlaceInvariant, DataInvariant, PTL DEF Spec

(* 35955: ap_run_nums counts the APs that have come to id. *)
LEMMA CountInvariant == Spec => []CountInv
<1>1. Init => CountInv
  BY DEF Init, CountInv, AP
<1>2. HandInv /\ PlaceInv /\ DataTypes /\ CountInv /\ [Next]_vars => CountInv'
  <2> SUFFICES ASSUME HandInv, Placed, DataTypes, CountInv, [Next]_vars,
                      setting.patient, case' = 1
               PROVE  CountInv'
    BY SettingStays DEF PlaceInv, CountInv
  <2>t. HandTypes
    BY DEF HandInv
  <2>1. ASSUME NEW a \in AP, Ap(a) PROVE CountInv'
    <3>1. case = 1
      BY <2>1, ApKeeps
    <3>2. phase[a] = 1 /\ ap[a] \in {"boot", "count", "id"} /\ bp # "order"
          /\ (ap[a] = "count" => start_run_id = 35955) /\ start_run_id # 35972
      BY <3>1 DEF Placed, PlaceAt, RunId, Course
    <3>3. ApCase(a) = 35972
      BY <2>t, <3>2, PhaseValues DEF HandTypes
    <3>4. ApBoot(a)
      <4>1. ~ApId(a) /\ ~ap_sync(a) /\ ~ApLoop(a) /\ ~ApTake(a) /\ ~ApEnd(a)
        <5>1. ~ApId(a)
          BY <3>2, <3>3 DEF ApId
        <5>0. /\ ap[a] # "sync" /\ ap[a] # "dec" /\ ap[a] # "type" /\ ap[a] # "begin"
              /\ ap[a] # "take" /\ ap[a] # "end"
          BY <3>2
        <5>2. ~ap_sync(a)
          BY <5>0, Zenon DEF ap_sync
        <5>3. ~ApLoop(a)
          BY <5>0, Zenon DEF ApLoop
        <5>4. ~ApTake(a) /\ ~ApEnd(a)
          BY <5>0, Zenon DEF ApTake, ApEnd
        <5> QED
          BY <5>1, <5>2, <5>3, <5>4
      <4>2. /\ ~lock_add_test(a) /\ ~lock_xchg_test(a) /\ ~lock_mov_test(a)
            /\ ~mwait_test_ap1(a)
        <5>1. ap[a] # "run" /\ ap[a] # "store"
          BY <3>2
        <5>2. ~lock_add_test(a)
          BY <5>1 DEF lock_add_test
        <5>3. ~lock_xchg_test(a)
          BY <5>1 DEF lock_xchg_test
        <5>4. ~lock_mov_test(a)
          BY <5>1 DEF lock_mov_test
        <5>5. ~mwait_test_ap1(a)
          BY <5>1 DEF mwait_test_ap1
        <5> QED
          BY <5>2, <5>3, <5>4, <5>5
      <4> QED
        BY <2>1, <4>1, <4>2 DEF Ap
    <3>5. /\ ap[a] # "id" /\ \A b \in AP \ {a} : ap'[b] = ap[b]
          /\ \/ ap'[a] = "count" /\ ap_run_nums' = ap_run_nums
             \/ ap'[a] = "id" /\ ap_run_nums' = ap_run_nums + 1
      <4>1. DOMAIN ap = AP
        BY <2>t DEF HandTypes
      <4>2. /\ \/ ap[a] = "boot" /\ ap' = [ap EXCEPT ![a] = "count"]
                  /\ ap_run_nums' = ap_run_nums
               \/ ap[a] = "count" /\ ap' = [ap EXCEPT ![a] = "id"]
                  /\ ap_run_nums' = ap_run_nums + 1
        <5>1. ASSUME ap[a] = "count"
              PROVE  ap_run_nums' = ap_run_nums
                       + (IF start_run_id = 35955 THEN 1 ELSE 0)
                     => ap_run_nums' = ap_run_nums + 1
          BY <3>2, <5>1
        <5> QED
          BY <3>4, <5>1 DEF ApBoot, Goto
      <4> QED
        BY <4>1, <4>2
    <3>6. CASE a = 1
      BY <3>1, <3>5, <3>6 DEF CountInv, DataTypes, AP
    <3>7. CASE a = 2
      BY <3>1, <3>5, <3>7 DEF CountInv, DataTypes, AP
    <3> QED
      BY <3>6, <3>7 DEF AP
  <2>2. CASE BpCase
    <3>1. case = 1 /\ bp = "case" /\ ap' = ap
      BY <2>2 DEF BpCase, apState
    <3>2. ap_run_nums' = 0
      BY <2>2, <3>1, CaseValues DEF BpCase
    <3>3. \A a \in AP : ap[a] = "boot"
      BY <3>1 DEF Placed, PlaceAt
    <3> QED
      BY <3>1, <3>2, <3>3 DEF CountInv, AP
  <2>3. CASE BpReport
    <3>1. Len(case_suit_multi) = 7
      BY DEF case_suit_multi
    <3> QED
      BY <2>3, <2>t, <3>1 DEF BpReport, HandTypes
  <2>4. CASE \/ BpDelay \/ BpHlt \/ BpReset \/ BpGo \/ BpMonitor \/ BpAwait
             \/ BpCheck \/ BpClear \/ BpNone \/ check_next_instruction_with_irq
             \/ UNCHANGED vars
    <3>1. UNCHANGED <<case, ap, ap_run_nums>>
      <4>1. CASE \/ BpDelay \/ BpHlt \/ BpReset \/ BpGo \/ BpMonitor
                 \/ BpAwait \/ BpNone \/ check_next_instruction_with_irq
        BY <4>1, QuietBp DEF apState
      <4>2. CASE BpCheck
        BY <4>2 DEF BpCheck, apState
      <4>3. CASE BpClear
        BY <4>3 DEF BpClear, apState
      <4>4. CASE UNCHANGED vars
        BY <4>4 DEF vars, bpState, apState
      <4> QED
        BY <2>4, <4>1, <4>2, <4>3, <4>4
    <3> QED
      BY <3>1 DEF CountInv
  <2> QED
    BY <2>1, <2>2, <2>3, <2>4 DEF Next, Bp
<1> QED
  BY <1>1, <1>2, HandInvariant, PlaceInvariant, DataInvariant, PTL DEF Spec

(* 39720: stores that are not split leave one of the two values whole. *)
LEMMA MovInvariant == Spec => []MovInv
<1>1. Init => MovInv
  BY DEF Init, MovInv
<1>2. HandInv /\ PlaceInv /\ DataTypes /\ MovInv /\ [Next]_vars => MovInv'
  <2> SUFFICES ASSUME HandInv, Placed, DataTypes, MovInv, [Next]_vars,
                      setting.patient, case' = 4, bp' # "case"
               PROVE  MovInv'
    BY SettingStays DEF PlaceInv, MovInv
  <2>s. setting' = setting /\ case = 4
    BY SettingStays, RoundSteps
  <2>i. Id = 39720 /\ Locking
    BY <2>s, CaseValues
  <2>1. CASE BpCase
    <3>1. /\ fail_ato_cnt' = 0 /\ \A a \in AP : Len(did'[a]) = 0
          /\ reg_val' = [a \in AP |-> IF a = 1 THEN ORG_ATO_VAL1 ELSE ORG_ATO_VAL2]
      BY <2>1, <2>i DEF BpCase
    <3> QED
      BY <3>1 DEF MovInv, AP
  <2>2. CASE BpCheck
    <3>1. /\ UNCHANGED <<broken, reg_val, val_aligned, did, ap>> /\ bp = "check"
          /\ fail_ato_cnt' = fail_ato_cnt + (IF MovEachRunOk THEN 0 ELSE 1)
      BY <2>2, <2>i DEF BpCheck, operands, apState, history
    <3>2. \A a \in AP : Answered(a)
      BY <2>i, <3>1 DEF HandInv, SignalInv, Told, AllIn
    <3>3. (\A a \in AP : ap[a] # "store") /\ (\E a \in AP : Len(did[a]) = 1)
      BY <3>2 DEF Answered, InLoop, AP
    <3>4. ~broken => MovEachRunOk /\ fail_ato_cnt = 0
      BY <2>s, <3>1, <3>3 DEF MovInv
    <3>5. /\ ~broken' => fail_ato_cnt' = 0
          /\ MovEachRunOk' <=> MovEachRunOk
      BY <3>1, <3>4 DEF MovEachRunOk
    <3>6. reg_val'[1] = ORG_ATO_VAL1 /\ reg_val'[2] = ORG_ATO_VAL2
      BY <2>s, <3>1 DEF MovInv
    <3> QED
      BY <3>1, <3>4, <3>5, <3>6 DEF MovInv
  <2>3. CASE BpClear
    <3>1. /\ UNCHANGED <<broken, reg_val, fail_ato_cnt>> /\ bp = "clear"
          /\ \A a \in AP : Len(did'[a]) = 0
      BY <2>3 DEF BpClear, operands
    <3> QED
      BY <2>s, <3>1 DEF MovInv
  <2>4. ASSUME NEW a \in AP, ap[a] \in {"run", "store"}, Instruction(a)
        PROVE  MovInv'
    <3>i. /\ bp \in {"go2", "await"} /\ fail_ato_cnt' = fail_ato_cnt
          /\ lock_mov_test(a) /\ InTest(a)
          /\ \A b \in AP \ {a} : ap'[b] = ap[b]
      <4>1. InstrStep(a)
        BY <2>4, <2>s, InstrSteps
      <4> QED
        BY <2>s, <4>1 DEF InstrStep
    <3>r. /\ reg_val' = reg_val /\ reg_val[a] \in {ORG_ATO_VAL1, ORG_ATO_VAL2}
          /\ reg_val[1] = ORG_ATO_VAL1 /\ reg_val[2] = ORG_ATO_VAL2
          /\ ~broken => fail_ato_cnt = 0
          /\ reg_val[a] \in Int /\ val_aligned \in Int \X Int
      BY <2>s, <3>i DEF MovInv, lock_mov_test, AP, DataTypes
    <3>1. CASE ap'[a] = "store"
      <4>1. broken' = broken
        BY <3>i, <3>1, <2>4 DEF lock_mov_test, Goto, HandInv, HandTypes
      <4> QED
        BY <3>i, <3>r, <3>1, <4>1 DEF MovInv
    <3>2. CASE ap'[a] # "store"
      <4>1. \/ val_aligned' = <<reg_val[a], reg_val[a]>> /\ broken' = broken
            \/ /\ val_aligned' = [val_aligned EXCEPT ![2] = reg_val[a]]
               /\ broken' = (broken \/ val_aligned[1] # reg_val[a])
        BY <3>i, <3>2 DEF lock_mov_test, Goto, HandInv, HandTypes
      <4>2. ~broken' => ~broken /\ val_aligned' = <<reg_val[a], reg_val[a]>>
        <5>1. [val_aligned EXCEPT ![2] = reg_val[a]] = <<val_aligned[1], reg_val[a]>>
          BY <3>r
        <5>2. broken' = (broken \/ val_aligned[1] # reg_val[a]) =>
                (~broken' => ~broken /\ val_aligned[1] = reg_val[a])
          OBVIOUS
        <5> QED
          BY <4>1, <5>1, <5>2
      <4>3. ~broken' => MovEachRunOk'
        BY <3>r, <4>2 DEF MovEachRunOk
      <4> QED
        BY <3>i, <3>r, <4>2, <4>3 DEF MovInv
    <3> QED
      BY <3>1, <3>2
  <2>5. CASE Elsewhere
    BY <2>5, <2>s DEF Elsewhere, MovInv, Data, MovEachRunOk
  <2> QED
    BY <2>1, <2>2, <2>3, <2>4, <2>5, RoundSteps
<1> QED
  BY <1>1, <1>2, HandInvariant, PlaceInvariant, DataInvariant, PTL DEF Spec

(* 35973: the three values stay a permutation until an exchange is lost,   *)
(* and never are one again: the check of that round counts it.             *)
LEMMA XchgInvariant == Spec => []XchgInv
<1>1. Init => XchgInv
  BY DEF Init, XchgInv
<1>2. HandInv /\ PlaceInv /\ DataTypes /\ XchgInv /\ [Next]_vars => XchgInv'
  <2> SUFFICES ASSUME HandInv, Placed, DataTypes, XchgInv, [Next]_vars,
                      setting.patient, case' = 3, bp' # "case"
               PROVE  XchgInv'
    BY SettingStays DEF PlaceInv, XchgInv
  <2>s. setting' = setting /\ case = 3
    BY SettingStays, RoundSteps
  <2>i. Id = 35973 /\ Locking
    BY <2>s, CaseValues
  <2>1. CASE BpCase
    <3>1. /\ fail_ato_cnt' = 0 /\ broken' = FALSE /\ bp' = "reset" /\ bp = "case"
          /\ val_test1' = ORG_ATO_VAL0 /\ ap' = ap
          /\ reg_val' = [a \in AP |-> IF a = 1 THEN ORG_ATO_VAL1 ELSE ORG_ATO_VAL2]
      BY <2>1, <2>i DEF BpCase, BpGoto, Announced, apState
    <3>2. EachRunOk'
      BY <3>1 DEF EachRunOk, AP
    <3>3. \A a \in AP : ap[a] # "store"
      BY <3>1, NoSignal DEF Told, InLoop
    <3> QED
      BY <3>1, <3>2, <3>3 DEF XchgInv
  <2>2. CASE BpCheck
    <3>1. /\ UNCHANGED <<broken, reg_val, val_test1, did, ap, phase, tmp>>
          /\ bp = "check"
          /\ fail_ato_cnt' = fail_ato_cnt + (IF EachRunOk THEN 0 ELSE 1)
      BY <2>2, <2>i DEF BpCheck, operands, apState, history
    <3>2. EachRunOk' <=> EachRunOk
      BY <3>1 DEF EachRunOk
    <3>3. /\ broken <=> ~EachRunOk
          /\ ~broken => fail_ato_cnt = 0
      BY <2>s, <3>1 DEF XchgInv
    <3>4. /\ broken' <=> ~EachRunOk'
          /\ ~broken' => fail_ato_cnt' = 0
      BY <3>1, <3>2, <3>3
    <3>5. broken' => fail_ato_cnt' > 0
      BY <3>1, <3>3 DEF DataTypes
    <3>6. \A b, d \in AP : b # d /\ ap'[b] = "store" /\ phase'[b] = 2 =>
            tmp'[b] = val_test1' \/ (tmp'[b] = reg_val'[d] /\ Len(did'[d]) = 1)
      BY <2>s, <3>1 DEF XchgInv
    <3> QED
      BY <3>4, <3>5, <3>6 DEF XchgInv
  <2>3. CASE BpClear
    <3>1. /\ UNCHANGED <<broken, reg_val, val_test1, fail_ato_cnt, ap>>
          /\ bp = "clear"
      BY <2>3 DEF BpClear, operands, apState
    <3>2. EachRunOk' <=> EachRunOk
      BY <3>1 DEF EachRunOk
    <3>3. \A a \in AP : ap[a] # "store"
      BY <3>1, NoSignal DEF Told, InLoop
    <3> QED
      BY <2>s, <3>1, <3>2, <3>3 DEF XchgInv
  <2>4. ASSUME NEW a \in AP, ap[a] \in {"run", "store"}, Instruction(a)
        PROVE  XchgInv'
    <3>i. /\ bp \in {"go2", "await"} /\ Len(did[a]) = 0
          /\ UNCHANGED <<bp, phase, fail_ato_cnt>>
          /\ \/ lock_xchg_test(a) /\ InTest(a) /\ phase[a] = 2
             \/ lock_add_test(a) /\ ~InTest(a) /\ phase[a] = 1
          /\ \A b \in AP \ {a} : ap'[b] = ap[b] /\ did'[b] = did[b]
          /\ \/ ap[a] = "run" /\ ap'[a] = "store" /\ Len(did'[a]) = 0
             \/ ap'[a] = "end" /\ Len(did'[a]) = 1
      <4>1. InstrStep(a)
        BY <2>4, <2>s, InstrSteps
      <4> QED
        BY <2>s, <4>1 DEF InstrStep
    <3>o. \A b, d \in AP : b # d => b = a \/ d = a
      BY DEF AP
    <3>x. /\ broken <=> ~EachRunOk
          /\ ~broken => fail_ato_cnt = 0
          /\ \A b, d \in AP : b # d /\ ap[b] = "store" /\ phase[b] = 2 =>
               tmp[b] = val_test1 \/ (tmp[b] = reg_val[d] /\ Len(did[d]) = 1)
      BY <2>s, <3>i DEF XchgInv
    <3>y. \A b \in AP : b # a /\ ap[b] = "store" /\ phase[b] = 2 =>
            tmp[b] = val_test1
      <4>1. Len(did[a]) = 0
        BY <3>i
      <4>2. \A b \in AP : b # a /\ ap[b] = "store" /\ phase[b] = 2 =>
              tmp[b] = val_test1 \/ Len(did[a]) = 1
        BY <3>x
      <4> QED
        BY <4>1, <4>2
    <3>n. \A b \in AP : ap[b] = "store" => Len(did[b]) = 0
      BY NoDid
    <3>h. Goto(a, "store") => ap'[a] = "store"
      BY DEF Goto, HandInv, HandTypes
    <3>1. CASE lock_add_test(a) /\ ~InTest(a) /\ phase[a] = 1
      <4>1. /\ UNCHANGED <<val_test1, reg_val>> /\ (broken' <=> broken)
            /\ \A b \in AP \ {a} : tmp'[b] = tmp[b]
        <5>1. UNCHANGED <<val_test1, reg_val>>
          BY <3>1 DEF lock_add_test
        <5>2. UNCHANGED tmp \/ \E v : tmp' = [tmp EXCEPT ![a] = v]
          BY <3>1 DEF lock_add_test
        <5>3. broken' <=> broken
          <6>1. \/ broken' = broken
                \/ broken' = (broken \/ (InTest(a) /\ val_test0 # tmp[a]))
            BY <3>1 DEF lock_add_test
          <6> QED
            BY <3>1, <6>1 DEF DataTypes
        <5> QED
          BY <5>1, <5>2, <5>3 DEF DataTypes
      <4>2. EachRunOk' <=> EachRunOk
        BY <4>1 DEF EachRunOk
      <4>3. \A b, d \in AP : b # d /\ ap'[b] = "store" /\ phase'[b] = 2 =>
               tmp'[b] = val_test1' \/ (tmp'[b] = reg_val'[d] /\ Len(did'[d]) = 1)
        <5>1. \A b, d \in AP : b # d /\ ap'[b] = "store" /\ phase'[b] = 2 =>
                b # a /\ d = a /\ ap[b] = "store" /\ phase[b] = 2
          <6> SUFFICES ASSUME NEW b \in AP, NEW d \in AP, b # d,
                              ap'[b] = "store", phase'[b] = 2
                       PROVE  b # a /\ d = a /\ ap[b] = "store" /\ phase[b] = 2
            OBVIOUS
          <6>1. phase[b] = 2
            BY <3>i
          <6>2. b # a /\ d = a
            BY <3>1, <3>o, <6>1
          <6> QED
            BY <3>i, <6>1, <6>2
        <5>2. ASSUME NEW b \in AP, b # a, ap[b] = "store", phase[b] = 2
              PROVE  tmp'[b] = val_test1'
          BY <3>y, <4>1, <5>2
        <5> QED
          BY <5>1, <5>2
      <4> QED
        BY <3>i, <3>x, <4>1, <4>2, <4>3 DEF XchgInv
    <3>2. CASE lock_xchg_test(a) /\ InTest(a) /\ phase[a] = 2 /\ ap'[a] = "store"
      <4>1. /\ UNCHANGED <<val_test1, reg_val, broken>>
            /\ tmp' = [tmp EXCEPT ![a] = val_test1]
        BY <2>4, <3>2 DEF lock_xchg_test, Goto, HandInv, HandTypes
      <4>2. EachRunOk' <=> EachRunOk
        BY <4>1 DEF EachRunOk
      <4>3. \A b, d \in AP : b # d /\ ap'[b] = "store" /\ phase'[b] = 2 =>
               tmp'[b] = val_test1' \/ (tmp'[b] = reg_val'[d] /\ Len(did'[d]) = 1)
        <5>1. tmp'[a] = val_test1 /\ \A b \in AP \ {a} : tmp'[b] = tmp[b]
          BY <4>1 DEF DataTypes
        <5> QED
          BY <3>i, <3>y, <4>1, <5>1
      <4> QED
        BY <3>i, <3>x, <4>1, <4>2, <4>3 DEF XchgInv
    <3>3. CASE lock_xchg_test(a) /\ InTest(a) /\ phase[a] = 2 /\ ap'[a] # "store"
      <4>1. \/ /\ val_test1' = reg_val[a] /\ reg_val' = [reg_val EXCEPT ![a] = val_test1]
               /\ UNCHANGED <<tmp, broken>>
            \/ /\ ap[a] = "store" /\ val_test1' = reg_val[a]
               /\ reg_val' = [reg_val EXCEPT ![a] = tmp[a]]
               /\ broken' = (broken \/ val_test1 # tmp[a])
               /\ tmp' = [tmp EXCEPT ![a] = 0]
        BY <3>3, <3>h DEF lock_xchg_test
      <4>b. PICK b \in AP : b # a /\ AP = {a, b}
        BY DEF AP
      <4>e. EachRunOk <=> {val_test1, reg_val[a], reg_val[b]}
                            = {ORG_ATO_VAL0, ORG_ATO_VAL1, ORG_ATO_VAL2}
        BY <4>b DEF EachRunOk, AP
      <4>f. EachRunOk' <=> {val_test1', reg_val'[a], reg_val'[b]}
                             = {ORG_ATO_VAL0, ORG_ATO_VAL1, ORG_ATO_VAL2}
        BY <4>b DEF EachRunOk, AP
      <4>2. /\ broken' <=> ~EachRunOk'
            /\ ~broken' => ~broken
            /\ ap[b] = "store" /\ phase[b] = 2 =>
                 tmp[b] = reg_val'[a] /\ tmp'[b] = tmp[b]
        <5>s. ap[b] = "store" /\ phase[b] = 2 => tmp[b] = val_test1
          BY <3>y, <4>b
        <5>w. ASSUME val_test1' = reg_val[a], reg_val' = [reg_val EXCEPT ![a] = val_test1],
                     broken' <=> broken, tmp'[b] = tmp[b]
              PROVE  /\ broken' <=> ~EachRunOk'
                     /\ ~broken' => ~broken
                     /\ ap[b] = "store" /\ phase[b] = 2 =>
                          tmp[b] = reg_val'[a] /\ tmp'[b] = tmp[b]
          <6>1. reg_val'[a] = val_test1 /\ reg_val'[b] = reg_val[b]
            BY <4>b, <5>w DEF DataTypes
          <6>2. {reg_val[a], val_test1, reg_val[b]} = {val_test1, reg_val[a], reg_val[b]}
            OBVIOUS
          <6>3. EachRunOk' <=> EachRunOk
            BY <4>e, <4>f, <5>w, <6>1, <6>2
          <6> QED
            BY <3>x, <5>s, <5>w, <6>1, <6>3
        <5>1. CASE /\ val_test1' = reg_val[a] /\ reg_val' = [reg_val EXCEPT ![a] = val_test1]
                   /\ UNCHANGED <<tmp, broken>>
          BY <5>1, <5>w
        <5>2. CASE /\ ap[a] = "store" /\ val_test1' = reg_val[a]
                   /\ reg_val' = [reg_val EXCEPT ![a] = tmp[a]]
                   /\ broken' = (broken \/ val_test1 # tmp[a])
                   /\ tmp' = [tmp EXCEPT ![a] = 0]
          <6>0. tmp'[b] = tmp[b]
            BY <4>b, <5>2 DEF DataTypes
          <6>1. CASE tmp[a] = val_test1
            <7>1. broken' <=> broken
              BY <5>2, <6>1 DEF DataTypes
            <7> QED
              BY <5>2, <5>w, <6>0, <6>1, <7>1
          <6>2. CASE tmp[a] # val_test1
            <7>1. tmp[a] = reg_val[b] /\ Len(did[b]) = 1
              BY <3>i, <3>x, <3>3, <4>b, <5>2, <6>2
            <7>2. reg_val'[a] = reg_val[b] /\ reg_val'[b] = reg_val[b]
              BY <4>b, <5>2, <7>1 DEF DataTypes
            <7>3. ASSUME NEW x, NEW y PROVE {x, y, y} # {163, 240, 15}
              <8> SUFFICES ASSUME {x, y, y} = {163, 240, 15} PROVE FALSE
                OBVIOUS
              <8>1. 163 \in {x, y} /\ 240 \in {x, y} /\ 15 \in {x, y}
                OBVIOUS
              <8> QED
                BY <8>1
            <7>4. ~EachRunOk'
              BY <4>f, <5>2, <7>2, <7>3 DEF ORG_ATO_VAL0, ORG_ATO_VAL1,
                 ORG_ATO_VAL2
            <7>5. broken'
              BY <5>2, <6>2
            <7>6. ap[b] # "store"
              BY <3>n, <4>b, <7>1
            <7> QED
              BY <7>4, <7>5, <7>6
          <6> QED
            BY <6>1, <6>2
        <5> QED
          BY <4>1, <5>1, <5>2
      <4>3. ap'[b] = ap[b] /\ phase' = phase /\ Len(did'[a]) = 1
        BY <3>i, <3>3, <4>b
      <4>4. \A c, d \in AP : c # d /\ ap'[c] = "store" /\ phase'[c] = 2 =>
               tmp'[c] = val_test1' \/ (tmp'[c] = reg_val'[d] /\ Len(did'[d]) = 1)
        <5>1. \A c, d \in AP : c # d /\ ap'[c] = "store" => c = b /\ d = a
          BY <3>3, <4>b
        <5>2. ap'[b] = "store" /\ phase'[b] = 2 => tmp'[b] = reg_val'[a]
          BY <4>2, <4>3
        <5> QED
          BY <4>3, <5>1, <5>2
      <4> QED
        BY <3>i, <3>x, <4>2, <4>4 DEF XchgInv
    <3> QED
      BY <3>i, <3>1, <3>2, <3>3
  <2>5. CASE Elsewhere
    <3>1. EachRunOk' <=> EachRunOk
      BY <2>5 DEF Elsewhere, EachRunOk, Data
    <3>2. /\ broken <=> ~EachRunOk
          /\ ~broken => fail_ato_cnt = 0
          /\ broken /\ bp \in {"clear", "none", "report"} => fail_ato_cnt > 0
          /\ \A b, d \in AP : b # d /\ ap[b] = "store" /\ phase[b] = 2 =>
               tmp[b] = val_test1 \/ (tmp[b] = reg_val[d] /\ Len(did[d]) = 1)
      BY <2>5, <2>s DEF Elsewhere, XchgInv
    <3>3. /\ UNCHANGED <<broken, fail_ato_cnt, tmp, val_test1, reg_val, did>>
          /\ bp' \in {"clear", "none", "report"} <=>
               bp \in {"clear", "none", "report"}
          /\ \A b \in AP : ap'[b] = "store" <=> ap[b] = "store"
          /\ \A b \in AP : ap[b] = "store" => phase'[b] = phase[b]
      BY <2>5 DEF Elsewhere, Data
    <3>4. /\ broken' <=> ~EachRunOk'
          /\ ~broken' => fail_ato_cnt' = 0
          /\ broken' /\ bp' \in {"clear", "none", "report"} =>
               fail_ato_cnt' > 0
      BY <3>1, <3>2, <3>3
    <3>5. \A b, d \in AP : b # d /\ ap'[b] = "store" /\ phase'[b] = 2 =>
            tmp'[b] = val_test1' \/ (tmp'[b] = reg_val'[d] /\ Len(did'[d]) = 1)
      <4> SUFFICES ASSUME NEW b \in AP, NEW d \in AP, b # d,
                          ap'[b] = "store", phase'[b] = 2
                   PROVE  \/ tmp'[b] = val_test1'
                          \/ tmp'[b] = reg_val'[d] /\ Len(did'[d]) = 1
        OBVIOUS
      <4>1. ap[b] = "store" /\ phase[b] = 2
        BY <3>3
      <4>2. tmp[b] = val_test1 \/ (tmp[b] = reg_val[d] /\ Len(did[d]) = 1)
        BY <3>2, <4>1
      <4> QED
        BY <3>3, <4>2
    <3> QED
      BY <3>4, <3>5 DEF XchgInv
  <2> QED
    BY <2>1, <2>2, <2>3, <2>4, <2>5, RoundSteps
<1> QED
  BY <1>1, <1>2, HandInvariant, PlaceInvariant, DataInvariant, PTL DEF Spec

(* However many rounds there are, a patient BP counts every AP, 35972 and  *)
(* 35973 fail if and only if an update was lost, and 39720 fails only if a *)
(* store was split (the report calls of main's case functions).            *)
THEOREM VerdictsExact == Spec => []VerdictExact
<1>1. /\ HandInv /\ PlaceInv /\ DataTypes /\ CountInv /\ AddInv /\ XchgInv /\ MovInv
      => VerdictExact
  <2> SUFFICES ASSUME HandInv, Placed, DataTypes, CountInv, AddInv, XchgInv, MovInv,
                      setting.patient, bp = "report"
               PROVE  VerdictExact
    BY DEF PlaceInv, VerdictExact
  <2>1. case \in 1..7
    BY DEF HandInv, HandTypes
  <2>2. CASE case = 1
    <3>1. ap_run_nums = 2
      BY <2>2 DEF Placed, PlaceAt, CountInv, AP
    <3> QED
      BY <2>2, <3>1, CaseValues DEF VerdictExact, pass
  <2>3. CASE case = 2
    <3>1. \A a \in AP : Len(did[a]) = 0
      BY DEF HandInv, SignalInv, Told, AllIn, Unsent
    <3>2. Adds = 2 * LoopCount
      <4>1. RoundsOver = LoopCount
        BY <2>3 DEF Placed, RoundsOver
      <4> QED
        <5>1. Len(did[1]) = 0 /\ Len(did[2]) = 0
          BY <3>1 DEF AP
        <5>2. \A r \in Int : 2 * r + 0 + 0 = 2 * r
          OBVIOUS
        <5> QED
          BY <4>1, <5>1, <5>2, HsiAssumption DEF Adds
    <3>3. val_test0 = 2 * LoopCount <=> ~broken
      BY <2>3, <3>2 DEF AddInv
    <3> QED
      BY <2>3, <3>3, CaseValues DEF VerdictExact, pass
  <2>4. CASE case = 3
    <3>1. fail_ato_cnt = 0 <=> ~broken
      BY <2>4 DEF XchgInv
    <3> QED
      BY <2>4, <3>1, CaseValues DEF VerdictExact, pass
  <2>5. CASE case = 4
    <3>1. fail_ato_cnt = 0 \/ broken
      BY <2>5 DEF MovInv
    <3> QED
      BY <2>5, <3>1, CaseValues DEF VerdictExact, pass
  <2>6. CASE case \in {5, 6, 7}
    BY <2>6, CaseValues DEF VerdictExact
  <2> QED
    BY <2>1, <2>2, <2>3, <2>4, <2>5, <2>6
<1> QED
  BY <1>1, HandInvariant, PlaceInvariant, DataInvariant, CountInvariant,
     AddInvariant, XchgInvariant, MovInvariant, PTL
=============================================================================
