SPECIFICATION Spec
CONSTANTS
  PAGE_SIZE = 4096
  BYTE_ALIGNMENT = 16
  MAGIC_NUMBER = 4
  NUM_BLOCK_TYPES = 8
  LARGE_HEADER = 16
  MAX_SIZE = 16500
  FILE_PAGES = 24
INVARIANTS SmallestClass LargeFitsAndUnmapsExactly SlotInItsPage EveryByteFindsItsStart
PROPERTIES SlotsAdvance
CHECK_DEADLOCK FALSE
