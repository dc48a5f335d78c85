SPECIFICATION MCSpec
CONSTANTS
  p1 = p1
  b1 = b1
  b2 = b2
  b3 = b3
  v1 = v1
  BUFFER_NUM = 3
  Blocks = {b1, b2}
  Vals = {v1, v2}
  Procs = {p1, p2}
  Writers = {}
  RefMax = 3
  NONE = NONE
PROPERTIES Coherent WriterCoherent
CHECK_DEADLOCK FALSE
