------------------------------- MODULE Kernel -------------------------------
(***************************************************************************)
(* The scheduler and the signal system of MARTOS on the Cortex-M port:     *)
(* src/task.c, src/init.c, src/data.c and the interrupt handlers of        *)
(* platforms/stm32f4-discovery/platform.c.                                 *)
(*                                                                         *)
(* One processor runs one task at a time.  Code between disable() and the  *)
(* matching enable() has PRIMASK set and cannot be interrupted, so it is   *)
(* one step; wherever PRIMASK is clear an interrupt may come between two   *)
(* steps of a task.  A task switch is done by the PendSV handler, the      *)
(* lowest of all interrupts: reschedule() only makes PendSV pending, and   *)
(* the processor takes it before the next instruction that a task would    *)
(* execute with PRIMASK clear.                                             *)
(***************************************************************************)
EXTENDS Integers, ListOps

CONSTANTS
  Task,                 \* all Task objects of the system
  InitTask,             \* the static init_task of init.c
  TaskPrio,             \* the priorities TASK_PRIO_MIN .. TASK_PRIO_MAX
  TASK_PRIO_MIN,
  TASK_PRIO_EXCLUSIVE,  \* above every TaskPrio, init's priority while booting
  SIGNALS_WIDTH,        \* bits in a Signals word
  QUANTUM,              \* SysTick periods in a time slice
  ElapsedMod,           \* `elapsed` is an unsigned counter modulo this
  MaxNest,              \* bound: how deep an application nests disable()
  SetPrioStates         \* states in which an application changes a priority

TaskState == {"invalid", "initialized", "running", "ready", "waiting"}

SignalNumber == 0 .. SIGNALS_WIDTH - 1

\* SIGF_SINGLE, the signal bit every task owns from the start.
SIGF_SINGLE == {0}

ASSUME KernelAssumption ==
  /\ InitTask \in Task
  /\ TaskPrio \subseteq Int
  /\ TASK_PRIO_MIN \in TaskPrio
  /\ TASK_PRIO_EXCLUSIVE \in Int
  /\ \A p \in TaskPrio : TASK_PRIO_MIN <= p /\ p < TASK_PRIO_EXCLUSIVE
  /\ SIGNALS_WIDTH \in Nat \ {0}
  /\ ElapsedMod \in Nat
  /\ QUANTUM \in 1 .. ElapsedMod - 1
  /\ MaxNest \in Nat
  /\ SetPrioStates \subseteq TaskState \ {"invalid"}

VARIABLES
  \* The kernel's global data (src/data.c).
  running,     \* the running task
  ready,       \* list of ready tasks, in priority order
  waiting,     \* list of tasks blocked in signal_wait()
  id_nestcnt,  \* depth of disable() less one
  elapsed,     \* ticks left of the running task's time slice
  \* The fields of each Task.
  state, prio, sig_alloc, sig_wait, sig_recvd,
  task_nestcnt,  \* task->id_nestcnt, saved while the task is switched out
  \* The processor.
  primask,     \* TRUE while interrupts are masked
  pendsv,      \* TRUE while PendSV is pending
  handler,     \* TRUE while the PendSV handler is active
  \* Each task's own control state.
  pc,
  nestcnt,     \* the local variable of signal_wait()
  \* Auxiliary: how many disable() calls of the task itself are open.
  depth

globals == <<running, ready, waiting, elapsed>>
taskVars == <<state, prio, task_nestcnt>>
sigVars == <<sig_alloc, sig_wait, sig_recvd>>
irqVars == <<id_nestcnt, primask>>
localVars == <<pc, nestcnt, depth>>
vars == <<globals, taskVars, sigVars, irqVars, pendsv, handler, localVars>>

\* Where a task is in its own code.
\*   boot     init_task_f() before task_set_prio()
\*   user     application code, not in a kernel call that can be interrupted
\*   sched    task_schedule() between enable() and reschedule()
\*   window   signal_wait() between enable() and reschedule()
\*   resched  signal_wait() after reschedule(), before disable()
\*   halt     user_halt()
Location == {"boot", "user", "sched", "window", "resched", "halt"}

TypeOK ==
  /\ running \in Task
  /\ ready \in Seq(Task)
  /\ waiting \in Seq(Task)
  /\ id_nestcnt \in Int
  /\ elapsed \in 0 .. ElapsedMod - 1
  /\ state \in [Task -> TaskState]
  /\ prio \in [Task -> Int]
  /\ sig_alloc \in [Task -> SUBSET SignalNumber]
  /\ sig_wait \in [Task -> SUBSET SignalNumber]
  /\ sig_recvd \in [Task -> SUBSET SignalNumber]
  /\ task_nestcnt \in [Task -> Int]
  /\ primask \in BOOLEAN
  /\ pendsv \in BOOLEAN
  /\ handler \in BOOLEAN
  /\ pc \in [Task -> Location]
  /\ nestcnt \in [Task -> Int]
  /\ depth \in [Task -> Nat]

-----------------------------------------------------------------------------
(* Boot: martos_pre() up to the first instruction of init_task_f(). *)

Init ==
  /\ running = InitTask
  /\ ready = << >>
  /\ waiting = << >>
  /\ id_nestcnt = -1
  /\ elapsed = QUANTUM
  /\ state = [t \in Task |-> IF t = InitTask THEN "running" ELSE "invalid"]
  /\ prio = [t \in Task |-> IF t = InitTask THEN TASK_PRIO_EXCLUSIVE
                                            ELSE TASK_PRIO_MIN]
  /\ sig_alloc = [t \in Task |-> SIGF_SINGLE]
  /\ sig_wait = [t \in Task |-> {}]
  /\ sig_recvd = [t \in Task |-> {}]
  /\ task_nestcnt = [t \in Task |-> -1]
  /\ primask = FALSE
  /\ pendsv = FALSE
  /\ handler = FALSE
  /\ pc = [t \in Task |-> IF t = InitTask THEN "boot" ELSE "user"]
  /\ nestcnt = [t \in Task |-> -1]
  /\ depth = [t \in Task |-> 0]

-----------------------------------------------------------------------------
(* Who may take the next step. *)

\* Task t is at `loc` and its next instruction can be executed: it has the
\* processor and no unmasked PendSV comes first.
At(t, loc) ==
  /\ running = t
  /\ ~ handler
  /\ pendsv => primask
  /\ pc[t] = loc

\* An interrupt above PendSV can be taken.
Interruptible == ~ primask

Goto(t, loc) == pc' = [pc EXCEPT ![t] = loc]

\* Slip: enable() unmasks interrupts whatever the nesting depth is.
UnmaskAlways(n) == FALSE

\* PRIMASK after a disable() ... enable() pair, an outermost enable(), or the
\* end of the PendSV handler, when n is the value of id_nestcnt.
MaskedAt(n) == n >= 0

\* The body of a kernel call between disable() and enable().
Protected ==
  /\ primask' = MaskedAt(id_nestcnt)
  /\ UNCHANGED id_nestcnt

\* The asserts of task_verify().
task_verify(t) ==
  /\ SIGF_SINGLE \subseteq sig_alloc[t]
  /\ task_nestcnt[t] >= -1
  /\ state[t] # "invalid"

-----------------------------------------------------------------------------
(* disable() and enable() called by an application. *)

disable(t) ==
  /\ At(t, "user")
  /\ depth[t] < MaxNest
  /\ primask' = TRUE
  /\ id_nestcnt' = id_nestcnt + 1
  /\ depth' = [depth EXCEPT ![t] = @ + 1]
  /\ UNCHANGED <<globals, taskVars, sigVars, pendsv, handler, pc, nestcnt>>

enable(t) ==
  /\ At(t, "user")
  /\ depth[t] > 0
  /\ id_nestcnt' = id_nestcnt - 1
  /\ primask' = (primask /\ MaskedAt(id_nestcnt - 1))
  /\ depth' = [depth EXCEPT ![t] = @ - 1]
  /\ UNCHANGED <<globals, taskVars, sigVars, pendsv, handler, pc, nestcnt>>

\* Slip: user_halt() loops without disable().
user_halt_unmasked(t) ==
  /\ At(t, "user")
  /\ Goto(t, "halt")
  /\ UNCHANGED <<globals, taskVars, sigVars, irqVars, pendsv, handler, nestcnt,
                 depth>>

\* Halt kernel: disable() and loop.
user_halt(t) ==
  /\ At(t, "user")
  /\ primask' = TRUE
  /\ id_nestcnt' = id_nestcnt + 1
  /\ Goto(t, "halt")
  /\ UNCHANGED <<globals, taskVars, sigVars, pendsv, handler, nestcnt, depth>>

-----------------------------------------------------------------------------
(* Tasks. *)

\* The application keeps task names distinct.  If the assert on task_find()
\* fails all the same (see TaskSearch), the system halts.
task_init(t, new, p) ==
  /\ At(t, "user")
  /\ state[new] = "invalid"
  /\ state' = [state EXCEPT ![new] = "initialized"]
  /\ prio' = [prio EXCEPT ![new] = p]
  /\ sig_alloc' = [sig_alloc EXCEPT ![new] = SIGF_SINGLE]
  /\ sig_wait' = [sig_wait EXCEPT ![new] = {}]
  /\ sig_recvd' = [sig_recvd EXCEPT ![new] = {}]
  /\ task_nestcnt' = [task_nestcnt EXCEPT ![new] = -1]
  /\ Protected
  /\ UNCHANGED <<globals, pendsv, handler, localVars>>

\* task_schedule() up to enable(): the new task is on the ready list but
\* PendSV is not pending yet.
task_schedule(t, new) ==
  /\ At(t, "user")
  /\ state[new] = "initialized"
  /\ task_verify(new)
  /\ state' = [state EXCEPT ![new] = "ready"]
  /\ ready' = list_enqueue(ready, prio, new)
  /\ Goto(t, "sched")
  /\ Protected
  /\ UNCHANGED <<running, waiting, elapsed, prio, task_nestcnt, sigVars,
                 pendsv, handler, nestcnt, depth>>

\* reschedule(), the last statement of task_schedule().
task_schedule_end(t) ==
  /\ At(t, "sched")
  /\ pendsv' = TRUE
  /\ Goto(t, "user")
  /\ UNCHANGED <<globals, taskVars, sigVars, irqVars, handler, nestcnt, depth>>

\* Slip: a task that lowers its own priority keeps the processor.
SetPrioPreemptsOthersOnly(t, p) == state[t] = "ready" /\ prio[running] < p

\* Must the new priority p of task t lead to a task switch?
SetPrioReschedules(t, p) ==
  \/ t = running
  \/ state[t] = "ready" /\ prio[running] < p

\* The effect of task_set_prio() on the scheduler.
ChangePrio(t, p) ==
  /\ prio' = [prio EXCEPT ![t] = p]
  /\ pendsv' = (pendsv \/ SetPrioReschedules(t, p))
  /\ Protected
  /\ UNCHANGED <<globals, state, task_nestcnt, sigVars, handler>>

task_set_prio(t, target, p) ==
  /\ At(t, "user")
  /\ state[target] \in SetPrioStates
  /\ ChangePrio(target, p)
  /\ UNCHANGED localVars

\* init_task_f(): the boot task gives up its exclusive priority, then
\* user_init() runs.
init_task_f ==
  /\ At(InitTask, "boot")
  /\ ChangePrio(InitTask, TASK_PRIO_MIN)
  /\ Goto(InitTask, "user")
  /\ UNCHANGED <<nestcnt, depth>>

-----------------------------------------------------------------------------
(* Signals. *)

\* Bit b is where the search of signal_allocate(n) ends: the bit asked for,
\* or the highest free one; bit 0 when the search runs out.
SearchEndsAt(t, n, b) ==
  \/ n = b
  \/ /\ n = -1
     /\ b \notin sig_alloc[t] \/ b = 0
     /\ \A m \in b + 1 .. SIGNALS_WIDTH - 1 : m \in sig_alloc[t]

\* The bit is marked and cleared whether or not it was free: `target` is
\* never 0 when the test (0 < target) is reached.
signal_allocate(t, n) ==
  /\ At(t, "user")
  /\ \E b \in SignalNumber :
       /\ SearchEndsAt(t, n, b)
       /\ sig_alloc' = [sig_alloc EXCEPT ![t] = @ \cup {b}]
       /\ sig_wait' = [sig_wait EXCEPT ![t] = @ \ {b}]
       /\ sig_recvd' = [sig_recvd EXCEPT ![t] = @ \ {b}]
  /\ Protected
  /\ UNCHANGED <<globals, taskVars, pendsv, handler, localVars>>

\* The asserts of signal_free(), which its callers respect.
Freeable(t, S) ==
  /\ S # {}
  /\ S \cap SIGF_SINGLE = {}
  /\ S \subseteq sig_alloc[t]

signal_free(t, S) ==
  /\ At(t, "user")
  /\ Freeable(t, S)
  /\ sig_alloc' = [sig_alloc EXCEPT ![t] = @ \ S]
  /\ UNCHANGED <<globals, taskVars, sig_wait, sig_recvd, irqVars, pendsv,
                 handler, localVars>>

\* Slip: a task that has not been switched out yet is not woken.
WakesOnlyOthers(t, S) ==
  state[t] = "waiting" /\ t # running /\ S \cap sig_wait[t] # {}

\* Slip: the wait ends only when all the signals are there.
WakesOnAll(t, S) == state[t] = "waiting" /\ sig_wait[t] \subseteq S

\* Do signals S end the wait of task t?
Wakes(t, S) == state[t] = "waiting" /\ S \cap sig_wait[t] # {}

\* Must the task t just made ready preempt the running one?
Preempts(t) == prio[running] < prio[t]

\* The body of signal_send(), in a task or in an interrupt.
Send(t, S) ==
  /\ sig_recvd' = [sig_recvd EXCEPT ![t] = @ \cup S]
  /\ \/ /\ Wakes(t, S)
        /\ waiting' = list_unlink(waiting, t)
        /\ state' = [state EXCEPT ![t] = "ready"]
        /\ ready' = list_enqueue(ready, prio, t)
        /\ pendsv' = (pendsv \/ Preempts(t))
     \/ /\ ~ Wakes(t, S)
        /\ UNCHANGED <<waiting, state, ready, pendsv>>
  /\ Protected
  /\ UNCHANGED <<running, elapsed, prio, task_nestcnt, sig_alloc, sig_wait,
                 handler, localVars>>

\* A task sends signals to an initialised task, possibly itself.
signal_send(t, target, S) ==
  /\ At(t, "user")
  /\ state[target] # "invalid"
  /\ S # {}
  /\ Send(target, S)

\* Some interrupt handler sends signals.
InterruptSend(target, S) ==
  /\ Interruptible
  /\ state[target] # "invalid"
  /\ S # {}
  /\ Send(target, S)

\* Slip: the signals taken stay received.
KeepTaken(t, S) == UNCHANGED sig_recvd

\* signal_wait() returns the awaited signals it has received, and consumes
\* them.
Take(t, S) == sig_recvd' = [sig_recvd EXCEPT ![t] = @ \ S]

\* The body of the loop of signal_wait() up to enable(): n is the nesting
\* depth to come back to.
Block(t, n) ==
  /\ state' = [state EXCEPT ![t] = "waiting"]
  /\ waiting' = Append(waiting, t)
  /\ nestcnt' = [nestcnt EXCEPT ![t] = n]
  /\ id_nestcnt' = -1
  /\ primask' = FALSE
  /\ Goto(t, "window")

\* signal_wait(S) finds a signal of S already received.
signal_wait_take(t, S) ==
  /\ At(t, "user")
  /\ S \cap sig_recvd[t] # {}
  /\ sig_wait' = [sig_wait EXCEPT ![t] = S]
  /\ Take(t, S)
  /\ Protected
  /\ UNCHANGED <<globals, taskVars, sig_alloc, pendsv, handler, localVars>>

\* signal_wait(S) has to block.  user_init() must not do this, and init_task
\* calls nothing afterwards.
signal_wait_block(t, S) ==
  /\ At(t, "user")
  /\ t # InitTask
  /\ S \cap sig_recvd[t] = {}
  /\ sig_wait' = [sig_wait EXCEPT ![t] = S]
  /\ Block(t, id_nestcnt + 1)
  /\ UNCHANGED <<running, ready, elapsed, prio, task_nestcnt, sig_alloc,
                 sig_recvd, pendsv, handler, depth>>

\* reschedule() in signal_wait(): interrupts are unmasked, so PendSV comes
\* before the next step of the task.
signal_wait_reschedule(t) ==
  /\ At(t, "window")
  /\ pendsv' = TRUE
  /\ Goto(t, "resched")
  /\ UNCHANGED <<globals, taskVars, sigVars, irqVars, handler, nestcnt, depth>>

\* Slip: the nesting depth of the caller is not restored.
RestoredToZero(t) == 0

\* id_nestcnt of a task that resumes in signal_wait(), after disable().
Restored(t) == nestcnt[t]

\* The task runs again: disable(), restore the depth, test the loop condition
\* once more.  sig_wait[t] still is the argument of the call.
signal_wait_resume(t) ==
  /\ At(t, "resched")
  /\ \/ /\ sig_wait[t] \cap sig_recvd[t] # {}
        /\ Take(t, sig_wait[t])
        /\ id_nestcnt' = Restored(t) - 1
        /\ primask' = MaskedAt(Restored(t) - 1)
        /\ nestcnt' = [nestcnt EXCEPT ![t] = -1]  \* out of scope
        /\ Goto(t, "user")
        /\ UNCHANGED <<state, waiting>>
     \/ /\ sig_wait[t] \cap sig_recvd[t] = {}
        /\ Block(t, Restored(t))
        /\ UNCHANGED sig_recvd
  /\ UNCHANGED <<running, ready, elapsed, prio, task_nestcnt, sig_alloc,
                 sig_wait, pendsv, handler, depth>>

-----------------------------------------------------------------------------
(* Interrupt handlers of the port. *)

\* Slip: the counter is taken for a signed one.
SignedDecrement(n) == n - 1

\* elapsed-- on an unsigned counter.
Decrement(n) == (n - 1) % ElapsedMod

\* One tick less of the time slice; PendSV when it is used up.
SysTick_Handler ==
  /\ Interruptible
  /\ elapsed' = Decrement(elapsed)
  /\ pendsv' = (pendsv \/ elapsed' = 0)
  /\ UNCHANGED <<running, ready, waiting, taskVars, sigVars, irqVars, handler,
                 localVars>>

\* PendSV is taken: PendSV_Handler() saves the registers and
\* PendSV_Handler_user() verifies the old task.  Interrupts are still
\* unmasked, so other handlers may run before the switch.
PendSV_Handler ==
  /\ pendsv
  /\ ~ primask
  /\ ~ handler
  /\ task_verify(running)
  /\ handler' = TRUE
  /\ pendsv' = FALSE
  /\ UNCHANGED <<globals, taskVars, sigVars, irqVars, localVars>>

\* Slip: the old task goes on the ready list even if it has blocked.
ReadyWithAnyOld == list_enqueue(ready, prio, running)

\* Slip: a task that is still running is not put back on the ready list.
ReadyWithoutOld == ready

\* The ready list once the old task is switched out: a task that did not
\* block goes back on it, behind the tasks of its own priority.
ReadyWithOld ==
  IF state[running] = "running" THEN list_enqueue(ready, prio, running)
                                ELSE ready

\* The switch itself, with interrupts masked.
PendSV_Handler_user ==
  LET q    == ReadyWithOld
      next == Head(q)
      old  == [state EXCEPT ![running] = IF @ = "running" THEN "ready" ELSE @]
  IN  /\ handler
      /\ ~ primask
      /\ state[running] \in {"running", "ready", "waiting"}
      /\ q # << >>
      /\ task_nestcnt' = [task_nestcnt EXCEPT ![running] = id_nestcnt]
      /\ running' = next
      /\ ready' = Tail(q)
      /\ state' = [old EXCEPT ![next] = "running"]
      /\ id_nestcnt' = task_nestcnt'[next]
      /\ elapsed' = QUANTUM
      /\ primask' = MaskedAt(task_nestcnt'[next])
      /\ handler' = FALSE
      /\ UNCHANGED <<waiting, prio, sigVars, pendsv, localVars>>

-----------------------------------------------------------------------------
(* The specification. *)

\* The next step of task t in a kernel call it has begun.
InKernel(t) ==
  \/ task_schedule_end(t)
  \/ signal_wait_reschedule(t)
  \/ signal_wait_resume(t)

\* Application code of task t calls the kernel.
Call(t) ==
  \/ disable(t)
  \/ enable(t)
  \/ user_halt(t)
  \/ \E u \in Task :
       \/ \E p \in TaskPrio : task_init(t, u, p) \/ task_set_prio(t, u, p)
       \/ task_schedule(t, u)
       \/ \E S \in SUBSET SignalNumber : signal_send(t, u, S)
  \/ \E n \in SignalNumber \cup {-1} : signal_allocate(t, n)
  \/ \E S \in SUBSET SignalNumber :
       \/ signal_free(t, S)
       \/ S # {} /\ S \subseteq sig_alloc[t] /\ signal_wait_take(t, S)
       \/ S # {} /\ S \subseteq sig_alloc[t] /\ signal_wait_block(t, S)

Interrupt ==
  \/ SysTick_Handler
  \/ \E u \in Task, S \in SUBSET SignalNumber : InterruptSend(u, S)

Switch == PendSV_Handler \/ PendSV_Handler_user

Next ==
  \/ init_task_f
  \/ \E t \in Task : InKernel(t) \/ Call(t)
  \/ Interrupt
  \/ Switch

Spec == Init /\ [][Next]_vars

\* The processor takes a pending exception, a task executes its next kernel
\* instruction, a critical section ends, and SysTick keeps counting: a tick
\* that comes while PRIMASK is set stays pending until it is cleared.
Fairness ==
  /\ WF_vars(init_task_f)
  /\ WF_vars(Switch)
  /\ \A t \in Task : WF_vars(InKernel(t)) /\ WF_vars(enable(t))
  /\ SF_vars(SysTick_Handler)

FairSpec == Spec /\ Fairness

-----------------------------------------------------------------------------
(* Safety. *)

\* Every ready task is linked on the ready list exactly once, every waiting
\* task on the waiting list exactly once, and no other task is on either.
\* Only the running task is in state TASK_RUNNING.  The list functions
\* corrupt both lists when a node is linked twice, so every path through
\* signal_send(), signal_wait(), task_schedule() and the PendSV handler has
\* to keep the state field and the lists in step, also when an interrupt
\* makes a task ready that has not been switched out yet.
QueuesConsistent ==
  /\ NoDuplicates(ready)
  /\ NoDuplicates(waiting)
  /\ \A t \in Task :
       /\ state[t] = "ready" <=> OnList(ready, t)
       /\ state[t] = "waiting" <=> OnList(waiting, t)
       /\ state[t] = "running" => t = running
  /\ state[running] \in {"running", "ready", "waiting"}

\* "The running task always has a priority at least as high as every other
\* task ready for execution" (README.md): so it is whenever no switch is
\* pending or under way, and reschedule() is not the very next thing that
\* task_schedule() does.
PriorityInvariant ==
  ~ handler /\ ~ pendsv /\ pc[running] # "sched" =>
    \A t \in Task : state[t] = "ready" => prio[t] <= prio[running]

\* No wake-up is lost: a task blocked in signal_wait() has not received any
\* of the signals it waits for, although senders and interrupts act between
\* its test of sig_recvd and the switch.
NoMissedSignal ==
  \A t \in Task :
    state[t] = "waiting" => sig_wait[t] \cap sig_recvd[t] = {}

\* The interrupt-disable depth belongs to the task: whatever other tasks did
\* in between, application code of a task runs with as many disable() levels
\* as it has opened itself, PRIMASK agrees with the count, and a task that is
\* switched out has left interrupts enabled.
NestingPrivate ==
  /\ primask <=> id_nestcnt >= 0
  /\ \A t \in Task : t # running => task_nestcnt[t] = -1
  /\ ~ handler /\ pc[running] \in {"user", "sched"}
       => id_nestcnt = depth[running] - 1

\* The asserts of task_verify() hold in every task, and the PendSV handler
\* finds a task to run: list_rem_head() never returns NULL there.
SwitchSafe ==
  /\ \A t \in Task : state[t] # "invalid" => task_verify(t)
  /\ handler => ReadyWithOld # << >>

\* A task switch never breaks a critical section, except that of a task that
\* blocks in signal_wait().
CriticalSection ==
  [][running' # running =>
       depth[running] = 0 \/ pc[running] \in {"window", "resched"}]_vars

\* user_halt() stops everything: no task, no interrupt and no switch follows.
HaltIsFinal == [][pc[running] # "halt"]_vars

\* Task u comes before task t on list q.
Ahead(q, u, t) == \E i, j \in 1 .. Len(q) : i < j /\ q[i] = u /\ q[j] = t

\* First come, first served within a priority: while a task is ready, no task
\* of its own or a lower priority gets ahead of it on the ready list or gets
\* the processor in its place, whichever of signal_send(), an interrupt,
\* task_schedule() and the end of a time slice makes that task ready.
NobodyOvertakes ==
  [][\A t, u \in Task :
       /\ OnList(ready, t) /\ OnList(ready', t)
       /\ Ahead(ready', u, t) \/ (handler /\ ~ handler' /\ u = running')
       => Ahead(ready, u, t) \/ prio[u] > prio[t]]_vars

\* "We can only receive this signal after it is allocated" (task.c): a
\* received signal is only ever given up by signal_wait() returning it, or by
\* allocating a bit that was free.
SignalsKept ==
  [][\A t \in Task : state[t] # "invalid" =>
       sig_recvd[t] \ sig_recvd'[t]
         \subseteq sig_wait'[t] \cup (SignalNumber \ sig_alloc[t])]_vars

-----------------------------------------------------------------------------
(* The kernel implements the abstract signal system. *)

SigStatus ==
  [t \in Task |->
     CASE state[t] = "invalid" -> "none"
       [] state[t] # "invalid" /\ pc[t] \notin {"window", "resched"} -> "active"
       [] state[t] = "waiting" /\ pc[t] \in {"window", "resched"} -> "blocked"
       [] state[t] \notin {"invalid", "waiting"}
            /\ pc[t] \in {"window", "resched"} -> "woken"]

Sig == INSTANCE Signals WITH BootTask <- InitTask, status <- SigStatus

\* Preemption, interrupts between any two instructions and the windows in
\* signal_wait() are invisible to the tasks: signal_send() wakes a blocked
\* task with the first signal it waits for, and signal_wait() never returns
\* empty-handed, never consumes a signal it was not asked for and never goes
\* round its loop a second time.
ImplementsSignals == Sig!SigSpec

-----------------------------------------------------------------------------
(* Liveness. *)

Top(t) ==
  \A u \in Task : state[u] \in {"ready", "running"} => prio[u] <= prio[t]

\* Round robin: a ready task gets the processor unless a task of higher
\* priority appears (or the kernel is halted).
RoundRobin ==
  \A t \in Task :
    (state[t] = "ready" /\ Top(t))
      ~> (running = t \/ ~ Top(t) \/ pc[running] = "halt")
=============================================================================
