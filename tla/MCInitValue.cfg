SPECIFICATION Spec
CONSTANTS
  Bp = 0
  APs = {2, 4}
  StartFiles = {"cstart64", "cstart64_hsi"}
  MaxResets = 4
  Cases = {c1, c2}
  NoCase = NoCase
  MaxCases = 2
INVARIANTS
  StacksDisjoint
  MapComplete
  OnlineExact
  LockOwned
  VerdictSound
  LeavesClean
PROPERTIES
  BackInMain
  CaseCompletes
