SPECIFICATION MCSpec
CONSTANTS
  NFILE = 2
  NOFILE = 2
  Procs = {p1, p2}
  Writers = {p1}
  Forks = FALSE
  Loads = TRUE
  Inodes = {i1}
  SizeMax = 2
  CallMax = 2
  NONE = NONE
CHECK_DEADLOCK FALSE
INVARIANTS CountExact InodeRefs  RefsExact ResolvesRight 
PROPERTY ExecReturns
