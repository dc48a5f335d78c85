SPECIFICATION Spec
CONSTANTS
  NIL = NIL
  Procs = {1, 2}
  Mounter = 1
  Bufs = {1, 2}
  BufsOf <- SharedBufs
  QUEUE_SIZE = 8
  IDX = 16
INVARIANT DmaOwned
CHECK_DEADLOCK FALSE
