CONSTANTS
  init = init
  a = a
  b = b
  Task <- MCTask
  InitTask = init
  name <- OwnName
  NULL = NULL
  TaskPrio <- ThreePrios
  TASK_PRIO_MIN = 0
  TASK_PRIO_EXCLUSIVE = 3
  SIGNALS_WIDTH = 1
  QUANTUM = 1
  ElapsedMod = 2
  MaxNest = 1
  SetPrioStates <- NotReady
SYMMETRY Symmetry
SPECIFICATION Spec
INVARIANTS TypeOK QueuesConsistent PriorityInvariant NoMissedSignal NestingPrivate SwitchSafe SearchFindsScheduled
PROPERTIES CriticalSection HaltIsFinal NobodyOvertakes
CHECK_DEADLOCK FALSE
