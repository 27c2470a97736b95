SPECIFICATION Spec
CONSTANTS
  Builds = {"non_safety_vm", "single_case", "hsi"}
  Rounds = 3
  LoopCases <- MCLoopCases
INVARIANTS
  VerdictSound
  DetectionReal
  HandOver
PROPERTY
  SuiteCompletes
CHECK_DEADLOCK FALSE
