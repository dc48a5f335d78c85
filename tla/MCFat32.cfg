SPECIFICATION MCSpec
CONSTANTS
  f1 = f1
  f2 = f2
INVARIANTS DiskSound InodeKnowsChain ReadExact NamesExact InsertFits
 
CHECK_DEADLOCK FALSE
