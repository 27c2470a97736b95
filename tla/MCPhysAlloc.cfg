SPECIFICATION Spec
CONSTANTS
  c1 = c1
  c2 = c2
  CPUs = {c1}
  SetupCPUs = {c1}
  Memory <- SomeMemory
  Limit = 28
  Word = 2
  DefaultAlign = 4
  Aligns = {1, 2, 4, 8}
  Wants = {1, 2, 3}
  NrRegions = 2
CHECK_DEADLOCK FALSE
INVARIANTS
  UnusedOwned
  
  IInv
