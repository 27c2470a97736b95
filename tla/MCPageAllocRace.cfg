SPECIFICATION Spec
CONSTANTS
  c1 = c1
  c2 = c2
  CPUs = {c1, c2}
  First = 2
  NrPages = 4
  Usages <- RaceUse
  Orders = {1}
  Junk = Junk
INVARIANT
  OneOwner
