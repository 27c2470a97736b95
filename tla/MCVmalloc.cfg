SPECIFICATION VmSpec
CONSTANTS
  c1 = c1
  c2 = c2
  CPUs = {c1, c2}
  First = 4
  NrPages = 6
  Usages <- SafeUse
  Orders = {0, 1, 2}
  Junk = Junk
  PageSize = 4
  Word = 1
  Aligns = {1, 4}
  Wants = {2}
  VirtPages = 5
  TableSpan = 3
INVARIANTS
  OneOwner
  NoneLost
  HeapIntact
CHECK_DEADLOCK FALSE
