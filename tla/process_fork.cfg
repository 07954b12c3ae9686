SPECIFICATION FairSpec
CONSTANTS
  Threads = {t1, t2}
  MainThread = t1
  EarlyThreads = {t1}
  MAX_PAGES = 2
  STDIN_CLOSED = FALSE
  EARLY_FORK = FALSE
  FORK_LOCKS = FALSE
  NoThread = NoThread
  CLOSED = CLOSED
PROPERTIES ChildCallsComplete
CHECK_DEADLOCK FALSE
