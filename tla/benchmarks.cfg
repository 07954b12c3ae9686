CONSTANTS
  Threads = {1, 2}
  Programs = {"threadtest", "cache-scratch", "cache-thrash", "linux-scalability", "phong", "larson"}
  ROUNDS = 2
  OBJECTS = 3
  WARMUP = 1
  MIN_ARG = 1
  MAX_ARG = 2
  CREATE_MAY_FAIL = TRUE
  MIN_THREADS = 1
  MAX_THREADS = 2
  CHPERTHREAD = 2
  NUM_ROUNDS = 2
  SLEEP_OUTLASTS_START = TRUE
  GRACE_OUTLASTS_THREADS = TRUE
SPECIFICATION FairSpec
INVARIANTS TypeOK HeapUsedCorrectly ResizedWithinBounds
PROPERTIES ImplementsBarrier Completes
CHECK_DEADLOCK FALSE
