CONSTANTS
  init = init
  a = a
  b = b
  c = c
  Task <- MCTask
  BootTask = init
  SIGNALS_WIDTH = 3
  InitCount = 1
  MaxHeld = 1
  MaxPosted = 0
  GiveUp = FALSE
SYMMETRY Symmetry
SPECIFICATION SysSemSpec
INVARIANTS sem_verify
CHECK_DEADLOCK FALSE
