SPECIFICATION MCSpec
CONSTANTS
  NTASK = 2
  CALLS = 2
  PcMax = 3
  Inlined = TRUE
CHECK_DEADLOCK FALSE
INVARIANTS   LibraryRight
 
