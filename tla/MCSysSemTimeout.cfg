CONSTANTS
  init = init
  a = a
  b = b
  c = c
  Task <- TwoUsers
  BootTask = init
  SIGNALS_WIDTH = 3
  InitCount = 0
  MaxHeld = 1
  MaxPosted = 1
  GiveUp = TRUE
SPECIFICATION SysSemSpec
INVARIANTS SemAsserts
CHECK_DEADLOCK FALSE
