CONSTANTS
  init = init
  a = a
  b = b
  Task <- MCTask
  BootTask = init
  SIGNALS_WIDTH = 2
  TicksMod = 16
  Delays <- UpToTwo
  MaxTime = 3
  AlarmLoop = FALSE
SYMMETRY Symmetry
SPECIFICATION TimerSpec
INVARIANTS TimerTypeOK RequestsLinked NeverEarly
PROPERTIES FiresOnTime WaitMeansDone ImplementsAlarms
CHECK_DEADLOCK FALSE
