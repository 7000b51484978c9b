CONSTANTS
  init = init
  a = a
  b = b
  Task <- OneTask
  InitTask = init
  name <- OwnName
  NULL = NULL
  TaskPrio <- TwoPrios
  TASK_PRIO_MIN = 0
  TASK_PRIO_EXCLUSIVE = 3
  SIGNALS_WIDTH = 2
  QUANTUM = 1
  ElapsedMod = 2
  MaxNest = 1
  SetPrioStates <- NoState
SPECIFICATION FairSpec
INVARIANTS NoMissedSignal
PROPERTIES ImplementsSignals RoundRobin
CHECK_DEADLOCK FALSE
