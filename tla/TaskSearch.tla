----------------------------- MODULE TaskSearch -----------------------------
(***************************************************************************)
(* task_find() of src/task.c over the lists of module Kernel, and the      *)
(* assert of task_init() that rests on it.                                 *)
(***************************************************************************)
EXTENDS Kernel

CONSTANTS
  name,   \* the name that each task has or is to be given
  NULL

\* No task is given the name of another, or none.
ASSUME NamesAssumption ==
  /\ \A t \in Task : name[t] # NULL
  /\ \A t, u \in Task : name[t] = name[u] => t = u

\* Slip: the waiting tasks are not searched.
SearchReady(n) == list_find(ready, name, n)

\* The search of both lists, as a set: empty if it finds nothing.
Search(n) ==
  IF list_find(ready, name, n) # {} THEN list_find(ready, name, n)
                                    ELSE list_find(waiting, name, n)

\* "Try self": n is compared with the name field of the Task at address NULL,
\* not of `running`.  What strcmp() finds there is undefined, so the result is
\* the running task or NULL, whatever n is.
TrySelf == {running, NULL}

\* The results that task_find(n) may have.
task_find(n) ==
  IF n = NULL THEN {running}
  ELSE IF Search(n) # {} THEN Search(n) ELSE TrySelf

\* A task is found, and no other, from the moment task_schedule() has queued it
\* and whenever it is ready or waiting, also in the windows of signal_wait()
\* and of the task switch; for a name that is on neither list no ready or
\* waiting task is returned but, at worst, the running one.
SearchFindsScheduled ==
  \A t \in Task :
    IF state[t] \in {"ready", "waiting"}
    THEN task_find(name[t]) = {t}
    ELSE task_find(name[t]) \subseteq {running, NULL}

\* "Pointer to the task with corresponding name" (martos.h), "Try self"
\* (task.c): every task that has been scheduled is found by its name, the
\* running one too.
FindsByName ==
  \A t \in Task :
    state[t] \in {"running", "ready", "waiting"} => task_find(name[t]) = {t}
=============================================================================
