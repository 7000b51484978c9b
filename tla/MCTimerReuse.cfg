CONSTANTS
  init = init
  a = a
  b = b
  Task <- MCTask
  BootTask = init
  SIGNALS_WIDTH = 2
  TicksMod = 16
  Delays <- UpToTwo
  MaxTime = 3
  AlarmLoop = TRUE
SYMMETRY Symmetry
SPECIFICATION TimerSpec
PROPERTIES WaitMeansDone
CHECK_DEADLOCK FALSE
