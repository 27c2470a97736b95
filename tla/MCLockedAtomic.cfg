SPECIFICATION Spec
CONSTANTS
  Settings <- MCSettings
  Times = 2
  Bits = 2
INVARIANTS
  VerdictExact
  InStep
PROPERTY
  SuiteCompletes
CHECK_DEADLOCK FALSE
