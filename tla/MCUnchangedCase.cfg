SPECIFICATION Spec
CONSTANTS
  Bp = 0
  APs = {2, 4}
  StartFiles = {"cstart64"}
  MaxResets = 2
  Programs = {"avx", "info_leakage"}
INVARIANTS
  VerdictSound
  PutsBack
PROPERTY CaseCompletes
