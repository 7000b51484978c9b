CONSTANTS
  init = init
  a = a
  b = b
  c = c
  Task <- MCTask
  BootTask = init
  SIGNALS_WIDTH = 3
  InitCount = 1
  MaxHeld = 2
  MaxPosted = 2
  GiveUp = FALSE
SYMMETRY Symmetry
SPECIFICATION SysSemSpec
INVARIANTS SemTypeOK SemExclusion SemAccounting SemHandover SemAsserts SysFrames
CHECK_DEADLOCK FALSE
