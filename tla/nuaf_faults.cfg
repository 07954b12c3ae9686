SPECIFICATION Spec
CONSTANTS
  PAGE_SIZE = 8
  BYTE_ALIGNMENT = 1
  MAGIC_NUMBER = 0
  NUM_BLOCK_TYPES = 3
  LARGE_HEADER = 1
  Threads = {t1, t2}
  Sizes = {1, 3, 9}
  MMAP_MIN_ADDR = 1
  LARGE_OBJ_VADDR_START = 4
  VADDR_END = 7
  LARGE_OBJ_START_MAGIC = 99
  MAX_TRIES = 4
  SMALL_CAP = 4
  UserWords = {0, 99}
  MMAP_MAY_FAIL = TRUE
  MREMAP_MAY_FAIL = TRUE
  MUNMAP_MAY_FAIL = TRUE
  PERROR_ALLOCATES = TRUE
  CLIENT_MAY_MISUSE = TRUE
  NoThread = NoThread
  UNMAPPED = UNMAPPED
SYMMETRY Symmetry
INVARIANTS SlotsDisjoint
PROPERTIES NoReuse
CHECK_DEADLOCK FALSE
