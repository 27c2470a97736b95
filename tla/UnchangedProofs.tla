-------------------------- MODULE UnchangedProofs --------------------------
(***************************************************************************)
(* Proofs about UnchangedCase: the "unchanged following INIT" cases run    *)
(* the boot protocol of ApBoot, what they report is exactly what INIT did  *)
(* to the register, and info_leakage.c puts the initial value back, for    *)
(* any number of APs and of resets.                                        *)
(*                                                                         *)
(* CaseInv is inductive relative to BootInv.  A case goes through three    *)
(* phases, separated by the two INITs; within a phase ServesFirst,         *)
(* ServesSecond and ServesThird say what the flags, the count and the      *)
(* values are at every place of the serving AP, whether it serves a        *)
(* request once or, its cur_case_id being cleared late, twice.             *)
(***************************************************************************)
EXTENDS UnchangedCase, ApBootProofs

MainLabels == {"start", "halt", "save", "poll", "count", "set", "found",
               "back", "inc", "answer", "clear"}
TestLabels == {"ask1", "wait1", "take1", "sipi1", "ask2", "wait2", "take2",
               "report", "sipi2", "ask3", "wait3", "take3", "zero", "end"}

CaseTypes ==
  /\ program \in {"avx", "info_leakage"} /\ tpc \in TestLabels
  /\ mpc \in [APs -> MainLabels]

(* The AP that serves the requests, and where its ap_main stands. *)
Serves(p) == recorded = NbCpus /\ p = Target
Stage == IF recorded = NbCpus /\ Target \in APs THEN mpc[Target] ELSE "start"

(* How the test case and the boot protocol are tied together.  With        *)
(* cstart64.S no AP but the last to record its id gets beyond the test of  *)
(* get_cpu_id in ap_main, also while others are still being started.       *)
CourseInv ==
  /\ \A p \in APs : ap_pc[p] # "main" => mpc[p] = "start"
  /\ bp_pc \in InSendSipi => tpc \in {"ask2", "ask3"}
  /\ tpc # "ask1" => bp_pc \in InSendSipi \cup {"main"}
  /\ tpc \notin {"ask1", "wait1", "take1", "sipi1"} =>
       ~CountFirst /\ NbCpus > 1
  /\ ~CountFirst => \A p \in APs :
       /\ mpc[p] \notin {"start", "halt"} => Serves(p)
       /\ mpc[p] = "halt" => ~Serves(p)

(* The phases of a case. *)
BeforeInit == bp_pc \in {"ss_count", "ss_init"}
Phase1 == \/ tpc \in {"ask1", "wait1", "take1", "sipi1"}
          \/ tpc = "ask2" /\ BeforeInit
Phase2 == \/ tpc = "ask2" /\ ~BeforeInit
          \/ tpc \in {"wait2", "take2", "report", "sipi2"}
          \/ tpc = "ask3" /\ BeforeInit
Phase3 == \/ tpc = "ask3" /\ ~BeforeInit
          \/ tpc \in {"wait3", "take3", "zero", "end"}

Restores == program = "info_leakage"

(* The first request: nothing is served before it is made, and it is       *)
(* served once.                                                            *)
ServesFirst ==
  /\ saved = Initial /\ preserved
  /\ \/ /\ Stage \in {"start", "save", "poll", "count", "set"}
        /\ ap_start_count = 0 /\ ~wait_ap /\ reg = Initial
        /\ tpc \in {"ask1", "wait1"}
        /\ tpc = "ask1" =>
             ~cur_case_id /\ Stage \in {"start", "save", "poll"}
     \/ /\ Stage \in {"inc", "answer"} /\ ~wait_ap /\ tpc = "wait1"
        /\ ap_start_count = IF Stage = "inc" THEN 0 ELSE 1
        /\ reg = Changed(Initial) /\ value1 = Changed(Initial)
     \/ /\ Stage \in {"clear", "poll"} /\ ap_start_count = 1
        /\ Stage = "poll" => ~cur_case_id
        /\ reg = Changed(Initial) /\ value1 = Changed(Initial)
        /\ tpc # "ask1" /\ (tpc = "wait1" => wait_ap)
        /\ tpc \in {"sipi1", "ask2"} => ~wait_ap

(* What INIT has done to the register set by the first request. *)
AfterInit == IF preserved THEN reg = Changed(Initial) ELSE reg = Initial
Found == (value1 = value2) <=> preserved

(* The second request: it may be the first, found again after INIT, and    *)
(* the AP may serve the third before it is made.                           *)
ServesSecond ==
  /\ value1 = Changed(Initial)
  /\ Restores => saved = Initial
  /\ \/ /\ Stage \in {"start", "save", "poll", "count", "found"}
        /\ ap_start_count = 1 /\ ~wait_ap /\ AfterInit
        /\ tpc \in {"ask2", "wait2"}
     \/ /\ Stage = "inc" /\ ap_start_count = 1 /\ ~wait_ap /\ Found
        /\ tpc \in {"ask2", "wait2"}
     \/ /\ Stage \in {"answer", "clear", "poll", "count", "back"}
        /\ ap_start_count = 2 /\ Found
        /\ tpc \in {"ask2", "wait2"} =>
             /\ ~wait_ap => Stage = "answer"
             /\ Restores /\ wait_ap /\ Stage = "answer" => reg = Initial
        /\ tpc \notin {"ask2", "wait2"} /\ Restores /\ Stage = "answer" =>
             reg = Initial
        /\ tpc \notin {"ask2", "wait2", "take2"} /\ Restores /\ wait_ap =>
             reg = Initial

(* The third request: an answer means that the value has been put back. *)
ServesThird ==
  /\ saved = Initial /\ ap_start_count = 2
  /\ Stage \in {"start", "save", "poll", "count", "back", "answer", "clear"}
  /\ Stage = "answer" \/ wait_ap \/ tpc \in {"take3", "zero", "end"} =>
       reg = Initial

ServeInv ==
  /\ Phase1 => ServesFirst
  /\ Phase2 => ServesSecond
  /\ Phase3 /\ Restores => ServesThird

CaseInv == CaseTypes /\ CourseInv /\ (~CountFirst => ServeInv)
-----------------------------------------------------------------------------
(* The cases leave the boot protocol to itself, but for calling send_sipi. *)
LEMMA UnchangedSteps ==
  ASSUME [Next]_vars
  PROVE  [BootNext]_bootVars
<1>1. CASE TestStep
  BY <1>1 DEF TestStep, Ask, WaitApReady, TakeAnswer, Reset, Report,
              ZeroCount, BootNext
<1>2. CASE ResetTarget \/ OtherBoot \/ Idle
  BY <1>2 DEF ResetTarget, OtherBoot, Idle, BootNext
<1>3. ASSUME NEW p \in APs, ApMainStep(p)
      PROVE  [BootNext]_bootVars
  BY <1>3 DEF ApMainStep, ApMain, EntrySave, Poll, ReadCount, SetValue,
              SaveFound, PutBack, CountServed, Answer, ClearCase, MainGoto
<1>4. CASE UNCHANGED vars
  BY <1>4 DEF vars
<1> QED
  BY <1>1, <1>2, <1>3, <1>4 DEF Next

(* The cases run the boot protocol of ApBoot: what ApBootProofs shows of   *)
(* stacks, lock, count and map holds of avx.c and info_leakage.c too.      *)
THEOREM UnchangedRunsBoot == Spec => BootRuns
<1>1. Init => BootInit
  BY DEF Init
<1>2. [Next]_vars => [BootNext]_bootVars
  BY UnchangedSteps
<1> QED
  BY <1>1, <1>2, PTL DEF Spec, BootRuns

(* There is never a record too many. *)
LEMMA RecordedBound ==
  ASSUME BootInv, ~CountFirst
  PROVE  recorded \in Nat /\ recorded <= NbCpus
<1>1. Recorded \in SUBSET APs
  BY DEF Recorded
<1>2. /\ Cardinality(Recorded) \in Nat
      /\ Cardinality(Recorded) <= Cardinality(APs)
  BY <1>1, ApCard
<1> QED
  BY <1>2, NbCpusNat DEF BootInv, MapInv, NbCpus

(* While APs are still being started get_cpu_id already gives an AP that   *)
(* is in ap_main the number it will keep, so only the last one to record   *)
(* its id passes the test of ap_main.                                      *)
LEMMA LastToRecord ==
  ASSUME BootInv, ~CountFirst, NEW p \in APs, ap_pc[p] = "main"
  PROVE  CpuId(p) = NbCpus - 1 <=> Serves(p)
<1>1. bp_pc # "record" /\ p \in Recorded
  BY DEF BootInv, PhaseInv, Recorded
<1>2. PICK i \in 1 .. recorded - 1 : lapicid_map[i] = p
  BY <1>1 DEF BootInv, MapInv
<1>3. recorded \in Nat /\ recorded <= NbCpus /\ NbCpus \in Nat
  BY RecordedBound, NbCpusNat
<1>4. \A j \in 1 .. recorded - 1 : lapicid_map[j] = p => j = i
  BY <1>2 DEF BootInv, MapInv
<1>5. lapicid_map[0] # p
  BY <1>1, ApBootAssumption DEF BootInv, MapInv
<1> DEFINE First(k) == /\ lapicid_map[k] = p
                       /\ \A j \in 0 .. k - 1 : lapicid_map[j] # p
<1>6. i \in Indices /\ First(i)
  BY <1>2, <1>3, <1>4, <1>5 DEF Indices
<1>7. \A k \in Indices : First(k) => k = i
  <2> TAKE k \in Indices
  <2>1. k \in Nat /\ i \in Nat
    BY <1>2, <1>3 DEF Indices
  <2>2. First(k) => ~(i < k)
    BY <1>2, <2>1
  <2>3. First(k) => ~(k < i)
    BY <1>6, <2>1
  <2> HIDE DEF First
  <2> QED
    BY <2>1, <2>2, <2>3
<1>8. CpuId(p) = i
  <2>1. (CHOOSE k \in Indices : First(k)) = i
    <3> HIDE DEF First
    <3> QED
      BY <1>6, <1>7
  <2> QED
    BY <1>6, <2>1 DEF CpuId
<1>9. ASSUME i = NbCpus - 1
      PROVE  Serves(p)
  BY <1>2, <1>3, <1>9 DEF Serves, Target, SipiDest
<1>10. ASSUME Serves(p)
       PROVE  i = NbCpus - 1
  BY <1>2, <1>3, <1>4, <1>10 DEF Serves, Target, SipiDest
<1> QED
  BY <1>8, <1>9, <1>10

(* INIT and the request change the register to different values. *)
LEMMA ChangedDiffers == Changed(Initial) # Initial
  BY DEF Changed, Initial

(* What a case past its first reset has from the boot protocol. *)
LEMMA PastReset ==
  ASSUME BootInv, CaseInv, bp_pc \in InSendSipi
  PROVE  /\ ~CountFirst /\ recorded = NbCpus /\ Target \in APs
         /\ Stage = mpc[Target]
<1>1. /\ ~CountFirst /\ NbCpus > 1 /\ ~Starting /\ is_all_cpu_init
      /\ start_file = "cstart64"
  BY DEF CaseInv, CourseInv, BootInv, BootTypes, PhaseInv, Starting,
         InSendSipi, CountFirst
<1>2. recorded = NbCpus
  BY <1>1 DEF BootInv, MapInv, Recorded, NbCpus
<1>3. NbCpus - 1 \in Indices \ {0}
  BY <1>1, NbCpusNat DEF Indices
<1>4. Target \in APs
  BY <1>1, <1>3, IdIsIndex DEF Target, SipiDest
<1> QED
  BY <1>1, <1>2, <1>4 DEF Stage

(* The steps of the test case on the BP.                                   *)
LEMMA TestKeeps ==
  ASSUME BootInv, CaseInv, TestStep
  PROVE  CaseInv'
<1>1. /\ bp_pc = "main" /\ UNCHANGED <<program, mpc, values>>
      /\ UNCHANGED <<ap_pc, lapicid_map, recorded, start_file>>
      /\ bp_pc' \in {"main", "ss_count"}
  BY DEF TestStep, Ask, WaitApReady, TakeAnswer, Reset, Report, ZeroCount,
         TestGoto, SendSipi, BpGoto, bootVars, bpVars, apVars
<1>2. /\ Stage' = Stage /\ CountFirst' = CountFirst /\ ~BeforeInit
      /\ \A p \in APs : Serves(p)' <=> Serves(p)
      /\ UNCHANGED <<program, mpc, saved, value1, value2, reg, preserved>>
  BY <1>1 DEF Stage, Serves, Target, SipiDest, CountFirst, BeforeInit, values
<1>3. CourseInv /\ CaseTypes
  BY DEF CaseInv
<1> DEFINE Moves(from, to) == tpc = from /\ tpc' = to
<1>4. ASSUME bp_pc' = "main",
             \/ Moves("ask1", "wait1") \/ Moves("wait1", "take1")
             \/ Moves("take1", "sipi1") \/ Moves("ask2", "wait2")
             \/ Moves("wait2", "take2") \/ Moves("take2", "report")
             \/ Moves("report", "sipi2") \/ Moves("ask3", "wait3")
             \/ Moves("wait3", "take3") \/ Moves("take3", "zero")
             \/ Moves("zero", "end")
      PROVE  CaseTypes' /\ CourseInv'
  BY <1>1, <1>2, <1>3, <1>4 DEF CourseInv, CaseTypes, TestLabels, InSendSipi
<1> HIDE DEF Moves
<1>5. ASSUME bp_pc' = "main"
      PROVE  ~BeforeInit'
  BY <1>5 DEF BeforeInit
<1>6. Restores' = Restores
  BY <1>2 DEF Restores
<1> USE DEF TestGoto
<1>7. CASE Ask("ask1", "wait1") \/ Ask("ask2", "wait2") \/ Ask("ask3", "wait3")
  <2>1. /\ bp_pc' = "main" /\ cur_case_id' = TRUE
        /\ UNCHANGED <<wait_ap, ap_start_count>>
        /\ \/ Moves("ask1", "wait1") \/ Moves("ask2", "wait2")
           \/ Moves("ask3", "wait3")
    BY <1>7 DEF Ask, bootVars, bpVars, Moves
  <2>2. ~CountFirst => ServeInv'
    <3> SUFFICES ASSUME ServeInv PROVE ServeInv'
      BY <1>2 DEF CaseInv
    <3>1. CASE Moves("ask1", "wait1")
      <4>1. ServesFirst
        BY <3>1 DEF Moves, ServeInv, Phase1
      <4>2. ServesFirst'
        BY <1>2, <2>1, <3>1, <4>1 DEF ServesFirst, Moves
      <4> QED
        BY <3>1, <4>2 DEF Moves, ServeInv, Phase2, Phase3
    <3>2. CASE Moves("ask2", "wait2")
      <4>1. ServesSecond
        BY <1>2, <3>2 DEF Moves, ServeInv, Phase2
      <4>2. ServesSecond'
        BY <1>2, <1>6, <2>1, <3>2, <4>1 DEF ServesSecond, AfterInit, Found,
           Moves
      <4> QED
        BY <3>2, <4>2 DEF Moves, ServeInv, Phase1, Phase3
    <3>3. CASE Moves("ask3", "wait3")
      <4>1. Restores => ServesThird
        BY <1>2, <3>3 DEF Moves, ServeInv, Phase3
      <4>2. Restores' => ServesThird'
        BY <1>2, <1>6, <2>1, <3>3, <4>1 DEF ServesThird, Moves
      <4> QED
        BY <3>3, <4>2 DEF Moves, ServeInv, Phase1, Phase2
    <3> QED
      BY <2>1, <3>1, <3>2, <3>3
  <2> QED
    BY <1>2, <1>4, <2>1, <2>2 DEF CaseInv
<1>8. CASE \/ WaitApReady("wait1", "take1") \/ WaitApReady("wait2", "take2")
           \/ WaitApReady("wait3", "take3")
  <2>1. /\ bp_pc' = "main" /\ wait_ap
        /\ UNCHANGED <<cur_case_id, wait_ap, ap_start_count>>
        /\ \/ Moves("wait1", "take1") \/ Moves("wait2", "take2")
           \/ Moves("wait3", "take3")
    BY <1>8 DEF WaitApReady, bootVars, bpVars, protocol, Moves
  <2>2. ~CountFirst => ServeInv'
    <3> SUFFICES ASSUME ServeInv PROVE ServeInv'
      BY <1>2 DEF CaseInv
    <3>1. CASE Moves("wait1", "take1")
      <4>1. ServesFirst
        BY <3>1 DEF Moves, ServeInv, Phase1
      <4>2. ServesFirst'
        BY <1>2, <2>1, <3>1, <4>1 DEF ServesFirst, Moves
      <4> QED
        BY <3>1, <4>2 DEF Moves, ServeInv, Phase2, Phase3
    <3>2. CASE Moves("wait2", "take2")
      <4>1. ServesSecond
        BY <3>2 DEF Moves, ServeInv, Phase2
      <4>2. ServesSecond'
        BY <1>2, <1>6, <2>1, <3>2, <4>1 DEF ServesSecond, Found, Moves
      <4> QED
        BY <3>2, <4>2 DEF Moves, ServeInv, Phase1, Phase3
    <3>3. CASE Moves("wait3", "take3")
      <4>1. Restores => ServesThird
        BY <3>3 DEF Moves, ServeInv, Phase3
      <4>2. Restores' => ServesThird'
        BY <1>2, <1>6, <2>1, <3>3, <4>1 DEF ServesThird, Moves
      <4> QED
        BY <3>3, <4>2 DEF Moves, ServeInv, Phase1, Phase2
    <3> QED
      BY <2>1, <3>1, <3>2, <3>3
  <2> QED
    BY <1>2, <1>4, <2>1, <2>2 DEF CaseInv
<1>9. CASE \/ TakeAnswer("take1", "sipi1") \/ TakeAnswer("take2", "report")
           \/ TakeAnswer("take3", "zero")
  <2>1. /\ bp_pc' = "main" /\ wait_ap' = FALSE
        /\ UNCHANGED <<cur_case_id, ap_start_count>>
        /\ \/ Moves("take1", "sipi1") \/ Moves("take2", "report")
           \/ Moves("take3", "zero")
    BY <1>9 DEF TakeAnswer, bootVars, bpVars, Moves
  <2>2. ~CountFirst => ServeInv'
    <3> SUFFICES ASSUME ServeInv PROVE ServeInv'
      BY <1>2 DEF CaseInv
    <3>1. CASE Moves("take1", "sipi1")
      <4>1. ServesFirst
        BY <3>1 DEF Moves, ServeInv, Phase1
      <4>2. ServesFirst'
        BY <1>2, <2>1, <3>1, <4>1 DEF ServesFirst, Moves
      <4> QED
        BY <3>1, <4>2 DEF Moves, ServeInv, Phase2, Phase3
    <3>2. CASE Moves("take2", "report")
      <4>1. ServesSecond
        BY <3>2 DEF Moves, ServeInv, Phase2
      <4>2. ServesSecond'
        BY <1>2, <1>6, <2>1, <3>2, <4>1 DEF ServesSecond, Found, Moves
      <4> QED
        BY <3>2, <4>2 DEF Moves, ServeInv, Phase1, Phase3
    <3>3. CASE Moves("take3", "zero")
      <4>1. Restores => ServesThird
        BY <3>3 DEF Moves, ServeInv, Phase3
      <4>2. Restores' => ServesThird'
        BY <1>2, <1>6, <2>1, <3>3, <4>1 DEF ServesThird, Moves
      <4> QED
        BY <3>3, <4>2 DEF Moves, ServeInv, Phase1, Phase2
    <3> QED
      BY <2>1, <3>1, <3>2, <3>3
  <2> QED
    BY <1>2, <1>4, <2>1, <2>2 DEF CaseInv
<1>10. CASE Reset("sipi1", "ask2") \/ Reset("sipi2", "ask3")
  <2>1. /\ bp_pc' = "ss_count" /\ NbCpus > 1 /\ start_file = "cstart64"
        /\ UNCHANGED <<cur_case_id, wait_ap, ap_start_count>>
        /\ Moves("sipi1", "ask2") \/ Moves("sipi2", "ask3")
    BY <1>10 DEF Reset, SendSipi, BpGoto, protocol, Moves
  <2>2. BeforeInit' /\ ~CountFirst /\ CaseTypes' /\ CourseInv'
    BY <1>1, <1>2, <1>3, <2>1 DEF BeforeInit, CountFirst, CaseTypes,
       CourseInv, TestLabels, InSendSipi, Moves
  <2>3. ServeInv'
    <3>1. ServeInv
      BY <2>2 DEF CaseInv
    <3>2. CASE Moves("sipi1", "ask2")
      <4>1. ServesFirst
        BY <3>1, <3>2 DEF Moves, ServeInv, Phase1
      <4>2. ServesFirst'
        BY <1>2, <2>1, <3>2, <4>1 DEF ServesFirst, Moves
      <4> QED
        BY <2>2, <3>2, <4>2 DEF Moves, ServeInv, Phase2, Phase3
    <3>3. CASE Moves("sipi2", "ask3")
      <4>1. ServesSecond
        BY <3>1, <3>3 DEF Moves, ServeInv, Phase2
      <4>2. ServesSecond'
        BY <1>2, <1>6, <2>1, <3>3, <4>1 DEF ServesSecond, Found, Moves
      <4> QED
        BY <2>2, <3>3, <4>2 DEF Moves, ServeInv, Phase1, Phase3
    <3> QED
      BY <2>1, <3>2, <3>3
  <2> QED
    BY <2>2, <2>3 DEF CaseInv
<1>11. CASE Report
  <2>1. /\ bp_pc' = "main" /\ Moves("report", "sipi2")
        /\ UNCHANGED <<cur_case_id, wait_ap, ap_start_count>>
    BY <1>11 DEF Report, bootVars, bpVars, protocol, Moves
  <2>2. ~CountFirst => ServeInv'
    <3> SUFFICES ASSUME ServeInv PROVE ServeInv'
      BY <1>2 DEF CaseInv
    <3>1. ServesSecond
      BY <2>1 DEF Moves, ServeInv, Phase2
    <3>2. ServesSecond'
      BY <1>2, <1>6, <2>1, <3>1 DEF ServesSecond, Found, Moves
    <3> QED
      BY <2>1, <3>2 DEF Moves, ServeInv, Phase1, Phase3
  <2> QED
    BY <1>2, <1>4, <2>1, <2>2 DEF CaseInv
<1>12. CASE ZeroCount
  <2>1. /\ bp_pc' = "main" /\ Moves("zero", "end")
        /\ UNCHANGED <<cur_case_id, wait_ap>>
        /\ Restores => UNCHANGED ap_start_count
    BY <1>12 DEF ZeroCount, bootVars, bpVars, Moves, SaveOnEntry, Restores
  <2>2. ~CountFirst => ServeInv'
    <3> SUFFICES ASSUME ServeInv PROVE ServeInv'
      BY <1>2 DEF CaseInv
    <3>1. Restores => ServesThird
      BY <2>1 DEF Moves, ServeInv, Phase3
    <3>2. Restores' => ServesThird'
      BY <1>2, <1>6, <2>1, <3>1 DEF ServesThird, Moves
    <3> QED
      BY <2>1, <3>2 DEF Moves, ServeInv, Phase1, Phase2
  <2> QED
    BY <1>2, <1>4, <2>1, <2>2 DEF CaseInv
<1> QED
  BY <1>7, <1>8, <1>9, <1>10, <1>11, <1>12 DEF TestStep

(* The steps of ap_main: the serving AP moves from stage to stage, another *)
(* AP that is in ap_main halts.                                            *)
Moves(from, to) == Stage = from /\ Stage' = to

(* What a step of ap_main keeps. *)
LEMMA MainFrame ==
  ASSUME CaseInv, NEW p \in APs, ApMainStep(p)
  PROVE  /\ UNCHANGED <<ap_pc, lapicid_map, recorded, start_file, bp_pc, tpc,
                        program, preserved, Target>>
         /\ ap_pc[p] = "main" /\ mpc[p] # "halt"
         /\ CaseTypes' /\ mpc'[p] # "start"
         /\ \A q \in APs : q # p => mpc'[q] = mpc[q]
         /\ CountFirst' = CountFirst
         /\ \A q \in APs : Serves(q)' <=> Serves(q)
<1>1. /\ UNCHANGED <<ap_pc, lapicid_map, recorded, start_file, bp_pc, tpc,
                     program, preserved>>
      /\ ap_pc[p] = "main" /\ mpc[p] # "halt"
      /\ \E l \in MainLabels \ {"start"} : mpc' = [mpc EXCEPT ![p] = l]
  BY DEF ApMainStep, ApMain, EntrySave, Poll, ReadCount, SetValue, SaveFound,
         PutBack, CountServed, Answer, ClearCase, MainGoto, MainLabels,
         bootVars, bpVars, apVars
<1>2. /\ UNCHANGED Target /\ CountFirst' = CountFirst
      /\ \A q \in APs : Serves(q)' <=> Serves(q)
  BY <1>1 DEF Target, SipiDest, CountFirst, Serves
<1>3. CaseTypes
  BY DEF CaseInv
<1>4. /\ CaseTypes' /\ mpc'[p] # "start"
      /\ \A q \in APs : q # p => mpc'[q] = mpc[q]
  BY <1>1, <1>3 DEF CaseTypes
<1> QED
  BY <1>1, <1>2, <1>4

(* A step of ap_main that keeps the phases keeps ServeInv if it keeps what *)
(* each phase says.                                                        *)
LEMMA SamePhase ==
  ASSUME ServeInv, UNCHANGED <<bp_pc, tpc, program>>,
         ServesFirst => ServesFirst', ServesSecond => ServesSecond',
         Restores /\ ServesThird => ServesThird'
  PROVE  ServeInv'
<1>1. /\ Phase1' => Phase1
      /\ Phase2' => Phase2
      /\ Phase3' => Phase3
      /\ Restores' => Restores
  BY DEF Phase1, Phase2, Phase3, Restores, BeforeInit
<1> QED
  BY <1>1 DEF ServeInv

(* The serving AP serves. *)
LEMMA StageKeeps ==
  ASSUME BootInv, CaseInv, NEW p \in APs, ApMainStep(p), ~CountFirst, Serves(p)
  PROVE  ServeInv'
<1>1. UNCHANGED <<bp_pc, tpc, program, preserved>> /\ ap_pc[p] = "main"
  BY MainFrame
<1>2. Stage = mpc[p] /\ Stage' = mpc'[p]
  BY MainFrame DEF Stage, Serves
<1>3. CpuId(p) = NbCpus - 1 /\ ServeInv /\ mpc \in [APs -> MainLabels]
  BY <1>1, LastToRecord DEF CaseInv, CaseTypes
<1>4. /\ Restores' = Restores
      /\ Restores => ~SaveOnEntry
  BY <1>1 DEF Restores, SaveOnEntry
<1> USE <1>1, <1>4
<1> SUFFICES /\ ServesFirst => ServesFirst'
             /\ ServesSecond => ServesSecond'
             /\ Restores /\ ServesThird => ServesThird'
  BY <1>3, SamePhase
<1>5. CASE ApMain(p)
  <2>1. /\ Moves("start", "save")
        /\ UNCHANGED <<cur_case_id, wait_ap, ap_start_count, saved,
                        value1, value2, reg>>
    BY <1>2, <1>3, <1>5 DEF ApMain, MainGoto, Moves, protocol
  <2>2. ServesFirst => ServesFirst'
    BY <2>1 DEF ServesFirst, Moves
  <2>3. ServesSecond => ServesSecond'
    BY <2>1 DEF ServesSecond, AfterInit, Found, Moves
  <2>4. Restores /\ ServesThird => ServesThird'
    BY <2>1 DEF ServesThird, Moves
  <2> QED
    BY <2>2, <2>3, <2>4
<1>6. CASE EntrySave(p)
  <2>1. /\ Moves("save", "poll")
        /\ UNCHANGED <<cur_case_id, wait_ap, ap_start_count, value1,
                        value2, reg>>
        /\ saved' = IF SaveOnEntry THEN reg ELSE saved
    BY <1>2, <1>3, <1>6 DEF EntrySave, MainGoto, Moves, protocol
  <2>2. ServesFirst => ServesFirst'
    BY <2>1 DEF ServesFirst, Moves
  <2>3. ServesSecond => ServesSecond'
    BY <2>1 DEF ServesSecond, AfterInit, Found, Moves
  <2>4. Restores /\ ServesThird => ServesThird'
    BY <2>1 DEF ServesThird, Moves
  <2> QED
    BY <2>2, <2>3, <2>4
<1>7. CASE Poll(p)
  <2>1. /\ Moves("poll", "count")
        /\ UNCHANGED <<cur_case_id, wait_ap, ap_start_count, saved,
                        value1, value2, reg>>
        /\ cur_case_id
    BY <1>2, <1>3, <1>7 DEF Poll, MainGoto, Moves, protocol
  <2>2. ServesFirst => ServesFirst'
    BY <2>1 DEF ServesFirst, Moves
  <2>3. ServesSecond => ServesSecond'
    BY <2>1 DEF ServesSecond, AfterInit, Found, Moves
  <2>4. Restores /\ ServesThird => ServesThird'
    BY <2>1 DEF ServesThird, Moves
  <2> QED
    BY <2>2, <2>3, <2>4
<1>8. CASE ReadCount(p)
  <2>1. /\ \/ Moves("count", "set") /\ ap_start_count = 0
           \/ Moves("count", "found") /\ ap_start_count = 1
           \/ /\ Moves("count", "back")
              /\ ap_start_count \notin {0, 1}
        /\ UNCHANGED <<cur_case_id, wait_ap, ap_start_count, saved,
                        value1, value2, reg>>
    BY <1>2, <1>3, <1>8 DEF ReadCount, MainGoto, Moves, protocol
  <2>2. ServesFirst => ServesFirst'
    BY <2>1 DEF ServesFirst, Moves
  <2>3. ServesSecond => ServesSecond'
    BY <2>1 DEF ServesSecond, AfterInit, Found, Moves
  <2>4. Restores /\ ServesThird => ServesThird'
    BY <2>1 DEF ServesThird, Moves
  <2> QED
    BY <2>2, <2>3, <2>4
<1>9. CASE SetValue(p)
  <2>1. /\ Moves("set", "inc")
        /\ UNCHANGED <<cur_case_id, wait_ap, ap_start_count, value2>>
        /\ saved = Initial /\ reg = Initial =>
             /\ saved' = Initial
             /\ reg' = Changed(Initial) /\ value1' = Changed(Initial)
    BY <1>2, <1>3, <1>9 DEF SetValue, MainGoto, Moves, protocol
  <2>2. ServesFirst => ServesFirst'
    BY <2>1 DEF ServesFirst, Moves
  <2>3. ServesSecond => ServesSecond'
    BY <2>1 DEF ServesSecond, AfterInit, Found, Moves
  <2>4. Restores /\ ServesThird => ServesThird'
    BY <2>1 DEF ServesThird, Moves
  <2> QED
    BY <2>2, <2>3, <2>4
<1>10. CASE SaveFound(p)
  <2>1. /\ Moves("found", "inc")
        /\ UNCHANGED <<cur_case_id, wait_ap, ap_start_count, saved,
                        value1, reg>>
        /\ value2' = reg
    BY <1>2, <1>3, <1>10 DEF SaveFound, MainGoto, Moves, protocol
  <2>2. ServesFirst => ServesFirst'
    BY <2>1 DEF ServesFirst, Moves
  <2>3. ServesSecond => ServesSecond'
    BY <2>1, ChangedDiffers DEF ServesSecond, AfterInit, Found, Moves
  <2>4. Restores /\ ServesThird => ServesThird'
    BY <2>1 DEF ServesThird, Moves
  <2> QED
    BY <2>2, <2>3, <2>4
<1>11. CASE PutBack(p)
  <2>1. /\ Moves("back", "answer")
        /\ UNCHANGED <<cur_case_id, wait_ap, ap_start_count, saved,
                        value1, value2>>
        /\ reg' = saved
    BY <1>2, <1>3, <1>11 DEF PutBack, MainGoto, Moves, protocol
  <2>2. ServesFirst => ServesFirst'
    BY <2>1 DEF ServesFirst, Moves
  <2>3. ServesSecond => ServesSecond'
    BY <2>1 DEF ServesSecond, AfterInit, Found, Moves
  <2>4. Restores /\ ServesThird => ServesThird'
    BY <2>1 DEF ServesThird, Moves
  <2> QED
    BY <2>2, <2>3, <2>4
<1>12. CASE CountServed(p)
  <2>1. /\ Moves("inc", "answer")
        /\ UNCHANGED <<cur_case_id, wait_ap, saved, value1, value2,
                        reg>>
        /\ ap_start_count' = ap_start_count + 1
    BY <1>2, <1>3, <1>12 DEF CountServed, MainGoto, Moves
  <2>2. ServesFirst => ServesFirst'
    BY <2>1 DEF ServesFirst, Moves
  <2>3. ServesSecond => ServesSecond'
    BY <2>1 DEF ServesSecond, AfterInit, Found, Moves
  <2>4. Restores /\ ServesThird => ServesThird'
    BY <2>1 DEF ServesThird, Moves
  <2> QED
    BY <2>2, <2>3, <2>4
<1>13. CASE Answer(p)
  <2>1. /\ Moves("answer", "clear")
        /\ UNCHANGED <<cur_case_id, ap_start_count, saved, value1,
                        value2, reg>>
        /\ wait_ap' = TRUE
    BY <1>2, <1>3, <1>13 DEF Answer, MainGoto, Moves
  <2>2. ServesFirst => ServesFirst'
    BY <2>1 DEF ServesFirst, Moves
  <2>3. ServesSecond => ServesSecond'
    BY <2>1 DEF ServesSecond, AfterInit, Found, Moves
  <2>4. Restores /\ ServesThird => ServesThird'
    BY <2>1 DEF ServesThird, Moves
  <2> QED
    BY <2>2, <2>3, <2>4
<1>14. CASE ClearCase(p)
  <2>1. /\ Moves("clear", "poll")
        /\ UNCHANGED <<wait_ap, ap_start_count, saved, value1,
                        value2, reg>>
        /\ cur_case_id' = FALSE
    BY <1>2, <1>3, <1>14 DEF ClearCase, MainGoto, Moves
  <2>2. ServesFirst => ServesFirst'
    BY <2>1 DEF ServesFirst, Moves
  <2>3. ServesSecond => ServesSecond'
    BY <2>1 DEF ServesSecond, AfterInit, Found, Moves
  <2>4. Restores /\ ServesThird => ServesThird'
    BY <2>1 DEF ServesThird, Moves
  <2> QED
    BY <2>2, <2>3, <2>4
<1> QED
  BY <1>5, <1>6, <1>7, <1>8, <1>9, <1>10, <1>11, <1>12, <1>13, <1>14
     DEF ApMainStep

LEMMA MainKeeps ==
  ASSUME BootInv, CaseInv, NEW p \in APs, ApMainStep(p)
  PROVE  CaseInv'
<1>0. CourseInv /\ CaseTypes
  BY DEF CaseInv
<1>1. CASE CountFirst
  <2>1. CourseInv'
    BY <1>0, <1>1, MainFrame DEF CourseInv
  <2> QED
    BY <1>1, <2>1, MainFrame DEF CaseInv
<1>2. CASE ~CountFirst /\ ~Serves(p)
  <2>1. mpc[p] = "start" /\ CpuId(p) # NbCpus - 1
    BY <1>0, <1>2, MainFrame, LastToRecord DEF CourseInv
  <2>2. ApMain(p)
    BY <2>1 DEF ApMainStep, EntrySave, Poll, ReadCount, SetValue, SaveFound,
       PutBack, CountServed, Answer, ClearCase, MainGoto
  <2>3. /\ mpc'[p] = "halt"
        /\ UNCHANGED <<cur_case_id, wait_ap, ap_start_count, saved, value1,
                       value2, reg>>
    BY <1>0, <2>1, <2>2 DEF ApMain, MainGoto, protocol, CaseTypes
  <2>4. Stage' = Stage
    BY <1>2, MainFrame DEF Stage, Serves
  <2>5. CourseInv'
    BY <1>0, <1>2, <2>3, MainFrame DEF CourseInv
  <2>6. UNCHANGED <<bp_pc, tpc, program, preserved>> /\ Restores' = Restores
    BY MainFrame DEF Restores
  <2>7. ServesFirst => ServesFirst'
    BY <2>3, <2>4, <2>6 DEF ServesFirst
  <2>8. ServesSecond => ServesSecond'
    BY <2>3, <2>4, <2>6 DEF ServesSecond, AfterInit, Found
  <2>9. ServesThird => ServesThird'
    BY <2>3, <2>4, <2>6 DEF ServesThird
  <2>10. ServeInv'
    BY <1>2, <2>6, <2>7, <2>8, <2>9, SamePhase DEF CaseInv
  <2> QED
    BY <2>5, <2>10, MainFrame DEF CaseInv
<1>3. CASE ~CountFirst /\ Serves(p)
  <2>1. mpc'[p] # "halt"
    <3>1. CpuId(p) = NbCpus - 1
      BY <1>3, MainFrame, LastToRecord
    <3> QED
      BY <1>0, <3>1 DEF ApMainStep, ApMain, EntrySave, Poll, ReadCount,
         SetValue, SaveFound, PutBack, CountServed, Answer, ClearCase,
         MainGoto, CaseTypes
  <2>2. CourseInv'
    BY <1>0, <1>3, <2>1, MainFrame DEF CourseInv
  <2> QED
    BY <1>3, <2>2, MainFrame, StageKeeps DEF CaseInv
<1> QED
  BY <1>1, <1>2, <1>3

(* INIT sent to the serving AP. *)
LEMMA ResetKeeps ==
  ASSUME BootInv, CaseInv, ResetTarget
  PROVE  CaseInv'
<1>0. CourseInv /\ CaseTypes
  BY DEF CaseInv
<1>1. /\ bp_pc = "ss_init" /\ bp_pc' = "ss_sipi"
      /\ UNCHANGED <<lapicid_map, recorded, start_file, program, cur_case_id,
                     wait_ap, ap_start_count, tpc, saved, value1, value2>>
      /\ mpc' = [mpc EXCEPT ![Target] = "start"]
      /\ ap_pc' = [p \in APs |-> IF p = Target THEN "wfs" ELSE ap_pc[p]]
  BY DEF ResetTarget, SipiInit, BpGoto, InitIpi, protocol, Target
<1>2. /\ ~CountFirst /\ recorded = NbCpus /\ Target \in APs
      /\ Stage = mpc[Target]
  BY <1>1, PastReset DEF InSendSipi
<1>3. /\ UNCHANGED Target /\ CountFirst' = CountFirst
      /\ \A p \in APs : Serves(p)' <=> Serves(p)
      /\ BeforeInit /\ ~BeforeInit' /\ Restores' = Restores
  BY <1>1 DEF Target, SipiDest, CountFirst, Serves, BeforeInit, Restores
<1>4. /\ mpc'[Target] = "start"
      /\ \A p \in APs : p # Target => mpc'[p] = mpc[p]
      /\ CaseTypes' /\ Stage' = "start"
  BY <1>0, <1>1, <1>2, <1>3 DEF CaseTypes, Stage, MainLabels
<1>5. tpc \in {"ask2", "ask3"} /\ CourseInv'
  BY <1>0, <1>1, <1>2, <1>3, <1>4 DEF CourseInv, InSendSipi, Serves
<1>6. CASE tpc = "ask2"
  <2>1. ServesFirst
    BY <1>2, <1>3, <1>6 DEF CaseInv, ServeInv, Phase1
  <2>2. /\ saved = Initial /\ preserved /\ ap_start_count = 1 /\ ~wait_ap
        /\ reg = Changed(Initial) /\ value1 = Changed(Initial)
    BY <1>6, <2>1 DEF ServesFirst
  <2>3. AfterInit'
    <3>1. CASE UNCHANGED <<reg, preserved>>
      BY <2>2, <3>1 DEF AfterInit
    <3>2. CASE reg' = Initial /\ preserved' = (preserved /\ reg = Initial)
      <4>1. ~preserved'
        BY <2>2, <3>2, ChangedDiffers
      <4> QED
        BY <3>2, <4>1 DEF AfterInit
    <3> QED
      BY <3>1, <3>2 DEF ResetTarget
  <2>4. ServesSecond'
    BY <1>1, <1>4, <1>6, <2>2, <2>3 DEF ServesSecond
  <2>5. ServeInv'
    BY <1>1, <1>3, <1>6, <2>4 DEF ServeInv, Phase1, Phase3
  <2> QED
    BY <1>4, <1>5, <2>5 DEF CaseInv
<1>7. CASE tpc = "ask3"
  <2>1. ServesSecond
    BY <1>2, <1>3, <1>7 DEF CaseInv, ServeInv, Phase2
  <2>2. ap_start_count = 2 /\ (Restores => saved = Initial)
        /\ (Restores /\ wait_ap => reg = Initial)
    BY <1>7, <2>1 DEF ServesSecond
  <2>3. reg = Initial => reg' = Initial
    BY DEF ResetTarget
  <2>4. Restores' => ServesThird'
    BY <1>1, <1>3, <1>4, <1>7, <2>2, <2>3 DEF ServesThird
  <2>5. ServeInv'
    BY <1>1, <1>3, <1>7, <2>4 DEF ServeInv, Phase1, Phase2
  <2> QED
    BY <1>4, <1>5, <2>5 DEF CaseInv
<1> QED
  BY <1>5, <1>6, <1>7

(* What the other steps of the boot protocol do to the serving AP: none,   *)
(* but that the last AP to record its id becomes it, before it enters      *)
(* ap_main.                                                                *)
LEMMA BootFrame ==
  ASSUME BootInv, BringUp \/ SendSipiSteps \/ \E p \in APs : ApSteps(p)
  PROVE  /\ UNCHANGED start_file
         /\ \A p \in APs : ap_pc'[p] # "main" => ap_pc[p] # "main"
         /\ bp_pc' \in InSendSipi => bp_pc \in InSendSipi
         /\ bp_pc \in InSendSipi \cup {"main"} =>
              bp_pc' \in InSendSipi \cup {"main"}
         /\ BeforeInit' <=> BeforeInit
         /\ \/ UNCHANGED <<lapicid_map, recorded>>
            \/ RecordBp
            \/ \E p \in APs : RecordId(p) /\ recorded < NbCpus
<1>0. BootTypes /\ PhaseInv
  BY DEF BootInv
<1>1. CASE BringUp
  <2>1. CASE RecordBp
    BY <2>1 DEF RecordBp, BpGoto, apVars, InSendSipi, BeforeInit
  <2>2. CASE BringupInit
    <3>1. \A p \in APs : ap_pc[p] # "main"
      BY <1>0, <2>2 DEF BringupInit, BpGoto, PhaseInv
    <3> QED
      BY <2>2, <3>1 DEF BringupInit, BpGoto, InSendSipi, BeforeInit
  <2>3. CASE BringupStartup
    BY <2>3 DEF BringupStartup, BpGoto, StartupIpi, InSendSipi, BeforeInit
  <2>4. CASE BringupWait \/ AllCpuInit
    BY <2>4 DEF BringupWait, AllCpuInit, BpGoto, apVars, InSendSipi,
       BeforeInit
  <2> QED
    BY <1>1, <2>1, <2>2, <2>3, <2>4 DEF BringUp
<1>2. CASE SendSipiSteps
  <2>1. CASE SipiStartup
    BY <2>1 DEF SipiStartup, BpGoto, StartupIpi, InSendSipi, BeforeInit
  <2>2. CASE SipiCount \/ SipiWait \/ SipiLock \/ SipiLoad \/ SipiStore
    BY <2>2 DEF SipiCount, SipiWait, SipiLock, SipiLoad, SipiStore, BpGoto,
       apVars, InSendSipi, BeforeInit
  <2>3. CASE SipiUnlock
    BY <2>3 DEF SipiUnlock, BpGoto, apVars, InSendSipi, BeforeInit
  <2> QED
    BY <1>2, <2>1, <2>2, <2>3 DEF SendSipiSteps
<1>3. ASSUME NEW p \in APs, ApSteps(p)
      PROVE  /\ UNCHANGED <<start_file, bp_pc>>
             /\ \A q \in APs : ap_pc'[q] # "main" => ap_pc[q] # "main"
             /\ \/ UNCHANGED <<lapicid_map, recorded>>
                \/ RecordId(p) /\ recorded < NbCpus
  <2>1. /\ UNCHANGED <<start_file, bp_pc>> /\ ap_pc[p] # "main"
        /\ \E l : ap_pc' = [ap_pc EXCEPT ![p] = l]
    BY <1>3 DEF ApSteps, SipiEntry, TakeStack, CheckAllInit, RecordLock,
       RecordId, RecordUnlock, CountOnline, ApGoto, bpVars
  <2>2. \A q \in APs : ap_pc'[q] # "main" => ap_pc[q] # "main"
    BY <1>0, <2>1 DEF BootTypes
  <2>3. \/ UNCHANGED <<lapicid_map, recorded>>
        \/ RecordId(p) /\ recorded < NbCpus
    BY <1>3 DEF ApSteps, SipiEntry, TakeStack, CheckAllInit, RecordLock,
       RecordId, RecordUnlock, CountOnline
  <2> QED
    BY <2>1, <2>2, <2>3
<1>4. ASSUME NEW p \in APs, ApSteps(p)
      PROVE  BeforeInit' <=> BeforeInit
  BY <1>3, <1>4 DEF BeforeInit
<1> QED
  BY <1>1, <1>2, <1>3, <1>4

LEMMA OtherBootKeeps ==
  ASSUME BootInv, CaseInv, OtherBoot
  PROVE  CaseInv'
<1>0. CourseInv /\ CaseTypes
  BY DEF CaseInv
<1>1. /\ UNCHANGED <<program, cur_case_id, wait_ap, ap_start_count, saved,
                     value1, value2, reg, preserved, tpc, mpc>>
      /\ CountFirst' = CountFirst
  BY BootFrame DEF OtherBoot, testVars, protocol, values, CountFirst
<1>2. ASSUME ~CountFirst
      PROVE  /\ Stage' = Stage
             /\ \A p \in APs : mpc[p] # "start" => (Serves(p)' <=> Serves(p))
  <2>1. CASE UNCHANGED <<lapicid_map, recorded>>
    BY <1>1, <2>1 DEF Stage, Serves, Target, SipiDest
  <2>2. CASE RecordBp
    <3>1. \A p \in APs : mpc[p] = "start"
      BY <1>0, <2>2 DEF RecordBp, BpGoto, CourseInv, BootInv, PhaseInv
    <3> QED
      BY <1>1, <3>1 DEF Stage
  <2>3. ASSUME NEW q \in APs, RecordId(q), recorded < NbCpus
        PROVE  /\ Stage' = Stage
               /\ \A p \in APs : mpc[p] # "start" => (Serves(p)' <=> Serves(p))
    <3>1. /\ recorded' = recorded + 1 /\ ap_pc[q] = "rec"
          /\ lapicid_map' = [lapicid_map EXCEPT ![recorded] = q]
      BY <2>3 DEF RecordId, ApGoto
    <3>2. recorded \in Nat \ {0} /\ lapicid_map \in [Indices -> Nat]
      BY DEF BootInv, BootTypes
    <3>3. recorded' = NbCpus => Target' = q
      BY <2>3, <3>1, <3>2, NbCpusNat DEF Target, SipiDest, Indices
    <3>4. mpc[q] = "start"
      BY <1>0, <3>1 DEF CourseInv
    <3>5. Stage = "start" /\ \A p \in APs : ~Serves(p)
      BY <2>3, <3>2, NbCpusNat DEF Stage, Serves
    <3>6. Stage' = "start"
      BY <1>1, <3>3, <3>4 DEF Stage
    <3>7. \A p \in APs : Serves(p)' => p = q
      BY <3>3 DEF Serves
    <3> QED
      BY <3>4, <3>5, <3>6, <3>7
  <2> QED
    BY <2>1, <2>2, <2>3, BootFrame DEF OtherBoot
<1>3. CaseTypes' /\ CourseInv'
  BY <1>0, <1>1, <1>2, BootFrame DEF OtherBoot, CaseTypes, CourseInv
<1>4. ASSUME ~CountFirst
      PROVE  ServeInv'
  <2>1. Stage' = Stage /\ Restores' = Restores
    BY <1>1, <1>2, <1>4 DEF Restores
  <2>2. ServesFirst => ServesFirst'
    BY <1>1, <2>1 DEF ServesFirst
  <2>3. ServesSecond => ServesSecond'
    BY <1>1, <2>1 DEF ServesSecond, AfterInit, Found
  <2>4. ServesThird => ServesThird'
    BY <1>1, <2>1 DEF ServesThird
  <2>5. /\ Phase1' => Phase1
        /\ Phase2' => Phase2
        /\ Phase3' => Phase3
    BY <1>1, BootFrame DEF OtherBoot, Phase1, Phase2, Phase3
  <2> QED
    BY <1>4, <2>1, <2>2, <2>3, <2>4, <2>5 DEF CaseInv, ServeInv
<1> QED
  BY <1>1, <1>3, <1>4 DEF CaseInv

(* A step in which nothing moves. *)
LEMMA StutterKeeps ==
  ASSUME CaseInv, UNCHANGED vars
  PROVE  CaseInv'
<1> USE DEF vars, bootVars, bpVars, apVars, testVars, protocol, values
<1>1. /\ Stage' = Stage /\ CountFirst' = CountFirst /\ Restores' = Restores
      /\ \A p \in APs : Serves(p)' <=> Serves(p)
      /\ BeforeInit' <=> BeforeInit
  BY DEF Stage, CountFirst, Restores, Serves, Target, SipiDest, BeforeInit
<1>2. CaseTypes' /\ CourseInv'
  BY <1>1 DEF CaseInv, CaseTypes, CourseInv
<1>3. ServeInv => ServeInv'
  <2>1. ServesFirst => ServesFirst'
    BY <1>1 DEF ServesFirst
  <2>2. ServesSecond => ServesSecond'
    BY <1>1 DEF ServesSecond, AfterInit, Found
  <2>3. ServesThird => ServesThird'
    BY <1>1 DEF ServesThird
  <2> QED
    BY <2>1, <2>2, <2>3, SamePhase
<1> QED
  BY <1>1, <1>2, <1>3 DEF CaseInv
-----------------------------------------------------------------------------
LEMMA CaseStep ==
  ASSUME BootInv, CaseInv, [Next]_vars
  PROVE  CaseInv'
<1>1. CASE Idle
  BY <1>1, StutterKeeps DEF Idle, Looping, vars
<1> QED
  BY <1>1, TestKeeps, MainKeeps, ResetKeeps, OtherBootKeeps, StutterKeeps
     DEF Next

(* Where BP and serving AP stand, the flags, the count and the values of   *)
(* the register fit together throughout a case, however late the AP clears *)
(* cur_case_id (CaseInv).                                                  *)
THEOREM CaseInvariance == Spec => []CaseInv
<1>1. Init => CaseInv
  <2> SUFFICES ASSUME Init PROVE CaseInv
    OBVIOUS
  <2>1. /\ tpc = "ask1" /\ bp_pc = "record" /\ ap_start_count = 0
        /\ mpc = [p \in APs |-> "start"] /\ program \in Programs
        /\ ~cur_case_id /\ ~wait_ap /\ saved = Initial /\ reg = Initial
        /\ preserved
    BY DEF Init, BootInit
  <2>2. CaseTypes
    BY <2>1, UnchangedAssumption DEF CaseTypes, TestLabels, MainLabels
  <2>3. CourseInv /\ Stage = "start"
    BY <2>1 DEF CourseInv, InSendSipi, Stage
  <2>4. ServeInv
    BY <2>1, <2>3 DEF ServeInv, Phase2, Phase3, ServesFirst
  <2> QED
    BY <2>2, <2>3, <2>4 DEF CaseInv
<1>2. BootInv /\ CaseInv /\ [Next]_vars => CaseInv'
  BY CaseStep
<1> QED
  BY <1>1, <1>2, UnchangedRunsBoot, Invariance, PTL DEF Spec

(* The verdict of case 37029 (avx.c) and of case 33870 (info_leakage.c) is *)
(* one about the hypervisor: at report() value1 is the value set and the   *)
(* comparison succeeds exactly if INIT preserved the register.             *)
THEOREM VerdictIsSound == Spec => []VerdictSound
<1>1. CaseInv => VerdictSound
  <2> SUFFICES ASSUME CaseInv, tpc = "report"
               PROVE  value1 = Changed(Initial)
                      /\ ((value1 = value2) <=> preserved)
    BY DEF VerdictSound
  <2>1. ServesSecond
    BY DEF CaseInv, CourseInv, ServeInv, Phase2
  <2> QED
    BY <2>1 DEF ServesSecond, Found
<1> QED
  BY <1>1, CaseInvariance, PTL

(* Case 33870 of info_leakage.c ends with the initial value back in the    *)
(* register, also when the AP has served the third request early.          *)
THEOREM ValuePutBack == Spec => []PutsBack
<1>1. CaseInv => PutsBack
  BY DEF CaseInv, CourseInv, ServeInv, Phase3, Restores, ServesThird,
         PutsBack
<1> QED
  BY <1>1, CaseInvariance, PTL
=============================================================================
