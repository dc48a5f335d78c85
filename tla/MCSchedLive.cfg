SPECIFICATION FairSpec
CONSTANTS
  MAX_TASK = 4
  MAX_ORDER = 1
  SLICE = 1
  STEP = 1
  MAX_PID = 4
  DISK_PIDS = {2, 3}
  NULL = NULL
PROPERTIES DiskWaitEnds 
