SPECIFICATION FairSpec
CONSTANTS
  Threads = {t1, t2}
  MainThread = t1
  EarlyThreads = {t1}
  MAX_PAGES = 3
  STDIN_CLOSED = TRUE
  EARLY_FORK = FALSE
  FORK_LOCKS = FALSE
  NoThread = NoThread
  CLOSED = CLOSED
PROPERTIES NoReuse
CHECK_DEADLOCK FALSE
