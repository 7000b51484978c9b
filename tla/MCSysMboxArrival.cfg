CONSTANTS
  init = init
  a = a
  b = b
  p1 = p1
  p2 = p2
  m1 = m1
  m2 = m2
  NULL = NULL
  Heap = Heap
  Task <- MCTask
  BootTask = init
  Port <- MCPort
  Message <- MCMessage
  SIGNALS_WIDTH = 3
  FreedByFetcher = TRUE
SYMMETRY Symmetry
SPECIFICATION MboxSpec
INVARIANTS FetchBlocksUntilArrival
CHECK_DEADLOCK FALSE
