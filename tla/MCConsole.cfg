SPECIFICATION FairSpec
CONSTANTS
  Procs = {p1, p2}
  KernelPrintf = FALSE
  LEN = 2
  NONE = NONE
INVARIANTS TextOwned 
 
