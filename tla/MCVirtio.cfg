SPECIFICATION FairSpec
CONSTANTS
  NIL = NIL
  Procs = {1, 2}
  Mounter = 1
  Bufs = {1, 2}
  BufsOf <- OwnBufs
  QUEUE_SIZE = 8
  IDX = 16
INVARIANTS DescsAccounted DmaOwned NeverHalts
PROPERTY CallsReturn
CHECK_DEADLOCK FALSE
