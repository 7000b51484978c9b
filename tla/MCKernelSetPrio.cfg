CONSTANTS
  init = init
  a = a
  b = b
  Task <- MCTask
  InitTask = init
  name <- OwnName
  NULL = NULL
  TaskPrio <- ThreePrios
  TASK_PRIO_MIN = 0
  TASK_PRIO_EXCLUSIVE = 3
  SIGNALS_WIDTH = 1
  QUANTUM = 1
  ElapsedMod = 2
  MaxNest = 0
  SetPrioStates <- AnyState
SYMMETRY Symmetry
SPECIFICATION Spec
INVARIANTS PriorityInvariant
CHECK_DEADLOCK FALSE
