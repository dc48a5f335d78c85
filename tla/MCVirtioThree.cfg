SPECIFICATION Spec
CONSTANTS
  NIL = NIL
  Procs = {1, 2, 3}
  Mounter = 1
  Bufs = {1, 2, 3}
  BufsOf <- OwnBufs
  QUEUE_SIZE = 8
  IDX = 16
INVARIANT DescsAwaited
CHECK_DEADLOCK FALSE
