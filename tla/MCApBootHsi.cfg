SPECIFICATION BootSpec
CONSTANTS
  Bp = 0
  APs = {2, 4}
  StartFiles = {"cstart64_hsi"}
  MaxResets = 0
INVARIANT Ap1Exists
