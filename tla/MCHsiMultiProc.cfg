SPECIFICATION Spec
CONSTANTS
  Settings <- MCSettings
  LoopCount = 3
INVARIANTS
  RoundExact
  RightInstruction
  VerdictExact
PROPERTY
  SuiteCompletes
CHECK_DEADLOCK FALSE
