SPECIFICATION Spec
CONSTANTS
  PAGE_SIZE = 32
  BYTE_ALIGNMENT = 4
  MAGIC_NUMBER = 2
  NUM_BLOCK_TYPES = 3
  LARGE_HEADER = 4
  WIDTH = 10
  SIZEOF_DOUBLE = 2
  MMAP_MIN_ADDR = 2
  LARGE_OBJ_VADDR_START = 7
  VADDR_END = 25
  Sizes = {0, 5, 13, 29, 512}
  Alignments = {0, 2, 3, 8, 64}
  PATH_MAX = 29
  MAX_HELD = 2
  ALIGNED_ARE_RESIZED = TRUE
INVARIANTS HeldFits
CHECK_DEADLOCK FALSE
