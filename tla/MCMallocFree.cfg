SPECIFICATION MallocSpec
CONSTANTS
  NUM_PAGES = 5
  MAX_NPAGES = 1
  SIZES = {1, 2}
  PAGE_SIZE = 2
  NDESC = 3
INVARIANT FreeFindsPage
CHECK_DEADLOCK FALSE
