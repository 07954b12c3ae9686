SPECIFICATION FairSpec
CONSTANTS
  PAGE_SIZE = 8
  BYTE_ALIGNMENT = 1
  MAGIC_NUMBER = 0
  NUM_BLOCK_TYPES = 3
  LARGE_HEADER = 1
  Threads = {t1, t2}
  Sizes = {3, 9}
  MMAP_MIN_ADDR = 1
  LARGE_OBJ_VADDR_START = 4
  VADDR_END = 7
  LARGE_OBJ_START_MAGIC = 99
  MAX_TRIES = 4
  SMALL_CAP = 4
  UserWords = {0}
  MMAP_MAY_FAIL = FALSE
  MREMAP_MAY_FAIL = FALSE
  MUNMAP_MAY_FAIL = FALSE
  PERROR_ALLOCATES = TRUE
  CLIENT_MAY_MISUSE = TRUE
  NoThread = NoThread
  UNMAPPED = UNMAPPED
PROPERTIES SecondFreeTerminates
CHECK_DEADLOCK FALSE
