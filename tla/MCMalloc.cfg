SPECIFICATION MCSpec
CONSTANTS
  NUM_PAGES = 6
  MAX_NPAGES = 3
  SIZES = {1, 2}
  PAGE_SIZE = 2
  NDESC = 3
  NULL = NULL
INVARIANTS BlocksIntact ObjectsApart LivePagesHeld KeptOverTick
CHECK_DEADLOCK FALSE
