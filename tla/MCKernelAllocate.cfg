CONSTANTS
  init = init
  a = a
  b = b
  Task <- OneTask
  InitTask = init
  name <- OwnName
  NULL = NULL
  TaskPrio <- TwoPrios
  TASK_PRIO_MIN = 0
  TASK_PRIO_EXCLUSIVE = 3
  SIGNALS_WIDTH = 2
  QUANTUM = 2
  ElapsedMod = 3
  MaxNest = 0
  SetPrioStates <- NoState
SPECIFICATION Spec
PROPERTIES SignalsKept
CHECK_DEADLOCK FALSE
