# A verification project for MARTOS

MARTOS is a preemptive, priority-based microkernel in C with a port to the ARM
Cortex-M4.  The modules here model its scheduler, its signal system, its lists and the
services built on signals (semaphores, message ports, timers, and the lwIP port on top of
them), check them with TLC on
small instances, and prove all their safety properties and refinements with TLAPS for every
value of the constants.  Paths below are relative to the repository.

## 1. Inventory

| Component | State | Operations | Interaction |
|---|---|---|---|
| Lists (`src/list.c`) | `next`, `prev`, `prio` of nodes, two sentinels per list | init, add_tail, enqueue, insert, unlink, rem_head, get_head, find | every other component keeps its queues in them, inside `disable()` |
| Scheduler and tasks (`src/task.c`, `src/init.c`, `src/data.c`) | `running`, `ready`, `waiting`, `elapsed`; `state` and `prio` of each task | `martos_pre`, `init_task_f`, `task_init`, `task_schedule`, `task_set_prio`, `task_find`, `user_halt` | makes PendSV pending with `reschedule()` |
| Signals (`src/task.c`) | `sig_alloc`, `sig_wait`, `sig_recvd` of each task | `signal_allocate`, `signal_free`, `signal_send`, `signal_wait` | called by tasks and by interrupt handlers; blocks and wakes tasks |
| STM32F4 port (`platforms/stm32f4-discovery`) | PRIMASK, `id_nestcnt`, pending PendSV, stack frames, `timer_now` | `disable`, `enable`, `reschedule`, SysTick, PendSV and TIM2 handlers, `taskcontext_*`, reset | interrupts come between any two instructions that run with PRIMASK clear |
| Semaphores (`src/semaphore.c`) | `count`, queue of requests (on the waiters' stacks) | `sem_init`, `sem_wait`, `sem_add_request`, `sem_signal` | wakes waiters with `signal_send` |
| Message ports (`src/msgport.c`) | queue of messages, owner, signal, action | `msgport_init`, `_wait`, `_get`, `_send`, `_reply` | signals the owner |
| Timers (`src/timer.c`) | list of requests by tick; status, tick, signal of each | `timer_delay`, `_allocate`, `_free`, `_add`, `_abort`, `_poll` | TIM2 calls `timer_poll`, which signals tasks |
| lwIP port (`lwip_martos/sys_arch.c`) | mailboxes, semaphores with timeouts | `sys_arch_*`, `sys_mbox_*`, `sys_sem_*` | uses all services above |
| Examples and tests (`netproj`, `test_*`) | | | callers of the API |

What is hard here: interrupts between any two unmasked instructions; the windows in which
`signal_wait()`, `task_schedule()` and the PendSV handler have interrupts enabled with a
task half moved; the interrupt-disable depth that `signal_wait()` breaks and restores;
requests on stacks; signals left over from an earlier use of a bit; counters at 0 and at
their wrap-around.  `PROJECT.json` lists these hazards with their lines.

What makes each part correct: lists behave as sequences in both directions; the state
field of a task and the lists agree; the running task has the highest ready priority; no
wake-up is lost; the disable depth is private to a task; equals share the processor; a
semaphore never hands out more units than it has and its count accounts for all; messages
are neither lost nor linked twice and nobody sleeps on one; timers end neither early nor
late, and a timer's signal means that this timer has fired; a wait with a timeout returns
every signal bit and leaves neither a timer nor a request behind, and a mailbox's signal
means that there is a message.

## 2. Modules

| Module | Models | Uses |
|---|---|---|
| `ListOps` | each list function as an operator on sequences | |
| `ListSpec`, `LinkedList` | abstract lists; the pointer manipulation of `list.c`, which implements them | `ListOps` |
| `Kernel` | scheduler, signals, interrupts and task switch | `ListOps` |
| `Signals` | what the kernel promises about signals, without scheduling | |
| `TaskSearch` | `task_find()` over the kernel's lists | `Kernel` |
| `Semaphore`, `MsgPort`, `Timer` | the services | `Signals`, `ListOps` |
| `Alarms` | what the timer service promises, without clock and list; `Timer` implements it | `Signals` |
| `SysSem` | semaphores of the lwIP port, `sys_arch_sem_wait()` | `Semaphore`, `Alarms` |
| `SysMbox` | mailboxes of the lwIP port | `MsgPort`, `Alarms` |
| `ListOpsProofs` | lemmas on lists as sequences | `ListOps` |
| `LinkedListProofs` | theorems on the pointer lists | `LinkedList`, `ListSpec` |
| `KernelProofs`, `KernelRefinement`, `TaskSearchProofs` | theorems on the kernel | `Kernel`, `Signals`, `TaskSearch` |
| `SysSemProofs`, `SysMboxProofs`, `TimerProofs` | theorems on the services and the lwIP port | `SysSem`, `SysMbox`, `Timer` |
| `MC*` | instances for TLC | |

The services are composed with `Signals`, not with `Kernel`: `KernelRefinement` proves
that `Kernel` implements `Signals`, where any task may take the next step at any time.
That covers every preemption and every order in which the scheduler can run the tasks.
In the same way the lwIP port is composed with `Alarms`, where a queued timer may fire at
any time; `TimerProofs` proves that `Timer` implements `Alarms`.

Definitions whose comment begins with "Slip:" are plausible mistakes.  No specification
uses them; `PROJECT.json` pairs each with the property that notices it.

### Kernel

State: the globals of `data.c`, the fields of `Task`, PRIMASK (`primask`), the pending bit
of PendSV (`pendsv`), whether the PendSV handler is active (`handler`), and for each task
where it is in a kernel call (`pc`), the local variable `nestcnt` of `signal_wait()` and,
as an auxiliary, how many of its own `disable()` calls are open (`depth`).  `Signals`
words are sets of bit numbers.

Actions: one for each call, and one for each part of a call that an interrupt can
separate.  Code between `disable()` and `enable()` is one step.  `signal_wait()` is
`signal_wait_take`, or `signal_wait_block` (up to `enable()`), `signal_wait_reschedule`
and `signal_wait_resume` (from `disable()` through the test of the loop).
`task_schedule()` has its window before `reschedule()`.  The PendSV handler is two steps,
because interrupts are unmasked until `__disable_irq()`.  Any handler may call
`signal_send()` whenever PRIMASK is clear (`InterruptSend`).

Assumptions: a pending PendSV is taken before the task's next step with PRIMASK clear
(`At`); task names are distinct, so the assert in `task_init()` holds;
`signal_wait()` and `signal_free()` are called with allocated signals; init does not call
`signal_wait()` (martos.h says so); a task is scheduled once.  A task that is switched out
always saves `id_nestcnt` -1, so "We are already protected" in the handler is never taken;
`NestingPrivate` shows it.

### LinkedList, ListSpec

`next`, `prev` and `prio` of nodes and sentinels; unlinked nodes keep stale pointers.
`owner` is what the callers know: which list a node was put on.  Callers only add free
nodes and only unlink linked ones.  The refinement mapping reads a list off its `next`
pointers.  `list_find()` walks the same pointers; names are model values, and two nodes of
the instance share one.

### TaskSearch

`task_find()` for a name that is not NULL: the ready list, then the waiting list.  When
both searches fail the code means to "Try self", but compares the name with
`task->node.name` where `task` is NULL.  What is read there is undefined, so the comparison
may or may not succeed and the result is the running task or NULL (`TrySelf`), whatever the
name is.  The operator gives the set of possible results.  `SearchFindsScheduled` says what
is certain all the same; `FindsByName` says what the comment and martos.h promise, and run
`task_find_self` refutes it.

### Semaphore, MsgPort, Timer

Each has the service's own data, the `Signals` variables, and where each task is.
`Semaphore` counts `held`, `posted` and `granted` units as auxiliaries; SIGF_SINGLE is
taken to be used by semaphores only; `req_signal` is the field `signal` of the request.
In `MsgPort` any task may take messages from a port,
and only the owner waits.  `msgport_wait()` holds `disable()` except while it sleeps, so a
round of its loop is one step.  `Timer` splits `timer_add()` into its two reads of the
clock and the insertion; `time` is the true time and `timer_get_clock` the counter modulo
`TicksMod`.  The tasks use a timer as `timer_delay()` and `sys_arch.c` do (`AlarmLoop =
FALSE`) or as the loops of `n.c` do (`TRUE`).  The kernel's README lets interrupt
routines send messages; a sender in the model may act between any two steps of the other
tasks, which is all an interrupt routine can do.

### SysSem, SysMbox

`sys_arch_sem_wait()` is one action for each call it makes: allocate the request's bit, add
the request, allocate and add the timer, wait, abort and free the timer, free the bit.  The
timer is optional (timeout 0), and `timer_add()` may find its tick elapsed and queue
nothing.  Tasks use `sem_wait()` and `sys_arch_sem_wait()` on the same semaphore.  `GiveUp`
says whether a wait may end by its timeout alone.  What the code does then is the subject
of run `sys_sem_timeout`; the properties of run `semaphore` are for waits that get their
unit, at the same time as the timeout or before it.

`SysMbox` has objects that serve as message ports or as mailboxes (`use`).  A mailbox
starts with MSGPORT_IGNORE, becomes MSGPORT_SIGNAL in the first fetch, and is invalid after
it was freed, so that the object, the bit and the messages are used again.  Messages come
from and go to lwIP's heap (`Heap` as their `holder`).  Assumptions, from how lwIP uses the
port: one task fetches from a mailbox (`Fetcher`); a mailbox is empty when it is freed, and
nobody is in a fetch from it (`MayFree`); a mailbox that a task waits at is polled with
`sys_arch_mbox_tryfetch()` only to drain it before it is freed (`AfterPoll`); nobody posts to
a freed mailbox.

`sys_mbox_free()` frees the mailbox's bit in the task that calls it, which need not be the
one that allocated it.  `FreedByFetcher` says whether it is.  If not, the asserts of
`signal_free()` may fail (`MCSysMboxFree.cfg`) and the system halts; or they hold by chance,
because the caller owns a bit of the same number, and it loses that one.  Between
`sys_mbox_free()` and `sys_mbox_set_invalid()` other tasks run, with the mailbox still set to
signal its task; the calls are two actions, and the mailbox is in use "freed" between them.

## 3. Runs

| Run | Shows | Instance |
|---|---|---|
| `kernel_sched` | `TypeOK`, `QueuesConsistent`, `PriorityInvariant`, `NoMissedSignal`, `NestingPrivate`, `SwitchSafe`, `CriticalSection`, `HaltIsFinal`, `NobodyOvertakes`, `SearchFindsScheduled` | init + 2 tasks, 3 priorities, 1 signal bit, slice 1, nesting 1; priorities of ready tasks are not changed |
| `kernel_signals` | `NoMissedSignal`, `ImplementsSignals`, and `RoundRobin` under fairness | init + 1 task, 2 priorities that do not change, 2 bits, slice 1, nesting 1 |
| `linked_list` | `LinkTypeOK`, `BothWays`, `OnOwnersList`, `FindsFirst`, refinement of `ListSpec` | 3 nodes, 2 lists, 2 priorities |
| `semaphore` | `SemTypeOK`, `SemExclusion`, `SemAccounting`, `SemHandover`, `SemAsserts`, `SysFrames` | `SysSem`: init + 3 tasks, 1 unit + 2 posted, 2 held, 3 bits |
| `msgport` | `MboxTypeOK`, `MessagesKept`, `NobodySleepsOnMessages`, `TimersReturned`, `OwnSignals`, `FetchFindsMessage`, `FreeAsserts` | `SysMbox`: init + 2 tasks, 2 ports or mailboxes, 2 messages, 3 bits; `FreedByFetcher` |
| `timer` | `TimerTypeOK`, `RequestsLinked`, `NeverEarly`, `FiresOnTime`, `WaitMeansDone`, refinement of `Alarms` | 2 tasks, delays to 2, 3 ticks, no wrap-around |

Runs that find a disagreement between the code and what the repository says:

| Run | Property | What happens |
|---|---|---|
| `kernel_set_prio` | `PriorityInvariant` | `task_set_prio()` on a ready task does not move it in the ready list |
| `kernel_allocate` | `SignalsKept` | a failed `signal_allocate()` clears a pending signal: `(0 < target)` is always true |
| `task_find_self` | `FindsByName` | `task_find()` with the running task's name compares it with what is at address NULL |
| `semaphore_verify` | `sem_verify` | `sem_signal()` leaves the last waiter on the queue: it tests the count after the increment with `<` |
| `sys_sem_timeout` | `SemAsserts` | after a timeout the request of `sys_arch_sem_wait()` stays queued on a dead stack frame; the task's own `sem_signal()` meets it |
| `sys_mbox_arrival` | `FetchBlocksUntilArrival` | `sys_arch_mbox_fetch()` sleeps on a message that was posted before the mailbox was bound, or second under one signal |

Two configurations are kept for what goes wrong outside the assumptions of the passing
runs, and TLC finds the property of each violated.  `MCSysMboxFree.cfg` (module `MCSysMbox`,
`FreeAsserts`, `FreedByFetcher = FALSE`): a task frees a mailbox that another one has fetched
from, and with it a signal it has not allocated ("Do not free unallocated signals.",
`task.c`); lwIP, which is not part of the repository, ends a connection in a thread of its
own.  `MCTimerReuse.cfg` (module `MCTimer`, `WaitMeansDone`, `AlarmLoop = TRUE`): if the alarm
fires before the loop of `n.c` tests its status, the loop skips the wait ("Already
elapsed."), and the signal left over ends the next wait while the new request is queued.

More disagreements show without TLC.  `list_insert()` with a NULL `prev` inserts
nothing (martos.h: "If NULL, then node is inserted at head of list"); no caller passes
NULL.  `timer_abort()` leaves the status TIMER_ADDED, which the assert in `timer_add()`
refuses although it accepts TIMER_ABORTED; all callers free the timer instead.
Delays across the wrap-around of the clock end at once, as the code admits ("FIXME: Handle
wrap-around!", `timer.c`); with `TicksMod` below the time that is reached, `NeverEarly`
fails.  `task_init()` with a
NULL name fails its assert, since `task_find(NULL)` is the running task, although martos.h
says "It may be NULL".  If a task is preempted for its whole timeout inside `timer_add()`,
the waits of `sys_arch.c` have no timeout at all: they do not look at the status.

Bounds.  Two application tasks and init give every case of the scheduler: the old task,
the new one and a third in a list, with equal, higher and lower priorities; nesting 1 has a
task that blocks inside `disable()`, and a kernel call inside it makes a second level (the
proofs are for any depth); slice 1 and `ElapsedMod` 2 make the
slice end at every point and the counter wrap.  One signal bit is enough for the scheduler;
two tell "any" from "all" and an owned bit from a free one.  Three nodes have a first, a
middle and a last.  Three users of a semaphore with one unit queue up two requests; two
bits besides SIGF_SINGLE are what `sys_arch_sem_wait()` needs at most.  The same two bits
allow a task two ports, or a mailbox and the timer of a fetch, and make it run out of bits
if one is not returned.  Two ports and two messages allow a left-over signal, a message taken by another task and two
ports of one owner.  In `timer` the clock does not wrap (`TicksMod` 16 against 3 ticks and
delays to 2).  Round robin is checked for init and one task of the same
or another priority; `NobodyOvertakes` adds the order within a priority for three tasks.  `MaxNest`, `MaxHeld`,
`MaxPosted` and `MaxTime` only bound the search.

Deadlock is not an error where the system may really stop: `user_halt()`, tasks that all
sleep because nobody holds a message, a fetch from an empty mailbox, a semaphore whose last waiter is not woken, the end
of bounded time.  The lists never stop and are checked for deadlock.

Symmetry is used for interchangeable application tasks in runs without liveness
properties.

Fairness.  `FairSpec`: the processor takes a pending exception (weak fairness of `Switch`),
a task in a kernel call executes its next instruction, critical sections end (`enable`),
and SysTick keeps counting.  SysTick is strongly fair: PRIMASK is cleared again and again,
and a tick that comes while it is set stays pending.  That critical sections end is meant
for one level: with two, a task may go back and forth between them for ever, and nobody
else runs.

## 4. Proofs

| Module | Theorem | Property | Hypothesis |
|---|---|---|---|
| `LinkedListProofs` | `LinkTypeCorrect` | `LinkTypeOK` | |
| | `BothWaysCorrect` | `BothWays` | |
| | `OnOwnersListCorrect` | `OnOwnersList` | |
| | `FindsFirstCorrect` | `FindsFirst` | |
| | `ListsImplemented` | `ImplementsLists` | |
| `KernelProofs` | `TypeCorrect` | `TypeOK` | |
| | `QueuesCorrect` | `QueuesConsistent` | |
| | `SignalsCorrect` | `NoMissedSignal` | |
| | `NestingCorrect` | `NestingPrivate` | |
| | `SwitchCorrect` | `SwitchSafe` | |
| | `CriticalSectionCorrect` | `CriticalSection` | |
| | `HaltCorrect` | `HaltIsFinal` | |
| | `PriorityCorrect` | `PriorityInvariant` | `"ready" \notin SetPrioStates` |
| | `NobodyOvertakesCorrect` | `NobodyOvertakes` | `"ready" \notin SetPrioStates` |
| `KernelRefinement` | `SignalsImplemented` | `ImplementsSignals` | |
| `TaskSearchProofs` | `SearchCorrect` | `SearchFindsScheduled` | |
| `SysSemProofs` | `SemTypeCorrect` | `SemTypeOK` | `~ GiveUp` |
| | `SemExclusionCorrect` | `SemExclusion` | `~ GiveUp` |
| | `SemAccountingCorrect` | `SemAccounting` | `~ GiveUp` |
| | `SemHandoverCorrect` | `SemHandover` | `~ GiveUp` |
| | `SemAssertsCorrect` | `SemAsserts` | `~ GiveUp` |
| | `SysFramesCorrect` | `SysFrames` | |
| `SysMboxProofs` | `MboxTypeCorrect` | `MboxTypeOK` | |
| | `MessagesKeptCorrect` | `MessagesKept` | |
| | `NobodySleepsCorrect` | `NobodySleepsOnMessages` | |
| | `TimersReturnedCorrect` | `TimersReturned` | |
| | `OwnSignalsCorrect` | `OwnSignals` | `FreedByFetcher` |
| | `FetchFindsMessageCorrect` | `FetchFindsMessage` | `FreedByFetcher` |
| | `FreeAssertsCorrect` | `FreeAsserts` | `FreedByFetcher` |
| `TimerProofs` | `TimerTypeCorrect` | `TimerTypeOK` | `~ AlarmLoop` |
| | `RequestsLinkedCorrect` | `RequestsLinked` | `~ AlarmLoop` |
| | `WaitMeansDoneCorrect` | `WaitMeansDone` | `~ AlarmLoop` |
| | `NeverEarlyCorrect` | `NeverEarly` | `~ AlarmLoop`, `NoWrap` |
| | `FiresOnTimeCorrect` | `FiresOnTime` | `~ AlarmLoop`, `NoWrap` |
| | `AlarmsImplemented` | `ImplementsAlarms` | `~ AlarmLoop` |

Beside the hypotheses of the table a proof uses only the named assumptions of the modules:
that the constants are numbers and sets of the right kind, that nodes, sentinels and NULL
are different objects and there are finitely many (`LinkedListAssumption`), that tasks have distinct names
other than NULL (`NamesAssumption`), that `NULL` and lwIP's heap are neither a task nor a port
(`MsgPortAssumption`), and, where units are counted, that there are finitely many tasks
(`SemaphoreAssumption`).

The hypotheses exclude what the code does not get right, and a configuration shows that each
is needed: applications that change the priority of a ready task (`MCKernelSetPrio.cfg`), waits
that end by their timeout alone and leave their request queued (`MCSysSemTimeout.cfg`),
mailboxes that another task frees than the one that fetches (`MCSysMboxFree.cfg`), and the
loops of `n.c`, which add a timer again that they found elapsed, with its signal still
received (`MCTimerReuse.cfg`).  `NoWrap`
says that the clock does not wrap around before the last request ends; ticks are compared as
plain numbers.

### Lists

`ListOpsProofs`: `list_enqueue`, `list_unlink`, append, and removal of the head or of a
whole front part change the members of a list by exactly the nodes given, keep it free of
duplicates and, where they should, sorted.  The ready list, the queue of requests, the
messages and the timers all use these lemmas; the timers with the negated tick as priority.

`LinkedListProofs`: the inductive invariant `LinkInv` says that for each list there is a
sequence `q` of nodes with `Linked(l, q)`: `next` and `prev` lead from the head sentinel
through `q` to the tail sentinel and back, no node comes twice, and the nodes are those the
callers have put there.  `BothWays` and `OnOwnersList` are not inductive: they speak of
`Contents`, which follows the pointers one after the other.  So each step is proved about
`q`: the assignments of a link are an insertion at one position (`LinkInserts`), those of
`list_unlink()` a removal (`UnlinkRemoves`), and no cell of another list is written, because
two lists have no cell in common.  That the walks yield `q` (`WalkIs`, `WalkBackIs`,
`ContentsIs`) is proved apart: the walk along `q` satisfies the equation that defines the
recursive function, and only one function does, by the least position where two would
differ (`WalkUnique`, with the least-number lemma `LeastNatural`).  From there
`ListsImplemented` has one step for each call; for `list_enqueue()` the position where the
walk stops is the one `ListOps` chooses.

### Kernel

None of the invariants is inductive by itself.  The inductive invariant `Inv` adds:
- `LocationInv`: the state field against the location.  A task leaves the state
  TASK_RUNNING while it has the processor only inside `signal_wait()`, and when it goes on
  after `reschedule()` it is running again or PendSV is pending.  Init is never in
  `signal_wait()`, so it is always running or ready, and the handler never finds the ready
  list empty.
- `NestingInv`: the value of `id_nestcnt` at each location, that every task switched out
  has saved -1, that the local `nestcnt` of `signal_wait()` is the caller's depth, and that
  a task outside `signal_wait()` can be switched out only at depth 0.
- `SignalInv`: every task owns SIGF_SINGLE; a task in `signal_wait()` is TASK_WAITING
  exactly as long as it has received none of the signals, so the loop is not entered a
  second time.

For `PriorityCorrect`, `PrioInv` adds that the ready list is sorted.
`NobodyOvertakesCorrect` follows from it with two lemmas on who is ahead of whom after
`list_enqueue()` and `list_rem_head()`.  `SearchCorrect` follows from `QueuesConsistent`
and the distinct names; it holds for either outcome of the read through NULL.

`KernelRefinement`: `SignalsImplemented` shows from `Inv` that each kernel step is a step
of `Signals` or leaves its variables unchanged, with each task's status read off its state
and location (`SigStatus`).

### Semaphores

`SysInv` has for each task what `SemHandover` and `SysFrames` say of it, and `WaitInv`:
which signals the task waits for and which one its request carries, that this signal is not
there before the request is, and that there is room for the unit it asks for.  With the
queue free of duplicates these are inductive together with `SemAccounting` and
`SemExclusion`.  The count itself says nothing about the queue: `sem_signal()` leaves the
last request unserved (`MCSemaphoreVerify.cfg`), so exclusion is kept step by step, a unit
going out only where the accounting has one.  Counting rests on
two lemmas on `UnitsHeld`: a unit taken or given back is one element.  `SysFrames` needs
none of the handover, so it is proved again with an invariant of its own, `FramesInv`, for
waits that give up too.

### Message ports and mailboxes

`SafeInv` holds whichever task frees a mailbox.  It has four layers, each proved from those
before it.  `ListInv`: types, what each object serves as, `MessagesKept`, and that only one
task frees a mailbox.  `BitInv`: a task owns the bit of its timer and SIGF_SINGLE, and these
are different.  `WaitInv`: where each task is and which bits it sleeps on.  The fourth is
`NobodySleepsOnMessages`.

`MboxInv` adds two layers if `FreedByFetcher` holds.  `OwnInv`: a task owns the bits of its ports
too, and they differ from each other and from its timer's; a wrong task's `sys_mbox_free()`
would take one of them away.  `NewsInv`: a mailbox whose signal has been received has a message,
and once a fetch has taken the signal the message is still there, beside another one if
the signal has come again.  `FetchFindsMessage` alone is not inductive for that reason: a
post between the wait and the fetch sets the signal for a second message.

### Timers

`TimerInv` has the types, `RequestsLinked`, and for each task `CtlInv`: the status field fits
the place in the code, a request that has not ended has not been signalled, and the signal
is a bit the task owns.  It says nothing about the clock, so `RequestsLinked`,
`WaitMeansDone` and the refinement hold across the wrap-around.  `ClockInv` adds that a
request's tick is the time it is due.  `AlarmsImplemented` maps the list to the set of armed
alarms; one run of `timer_poll()` ends a front part of the list, which is one `AlarmFire` of
several alarms.

### Only model-checked

Liveness (`RoundRobin`), which needs fairness and ENABLED.  The disagreements, which are
counterexamples.

## 5. Not modelled

Register saving, stack frames and `taskcontext_verify()`; reset and hardware set-up; failed
asserts (they call `user_halt()`): where an assert matters it is a property (`SwitchSafe`,
`SemAsserts`, `FetchFindsMessage`, `FreeAsserts`), elsewhere a guard; a PendSV that is taken late
(`reschedule()` has no barrier after its write), a second unlink of a node, a second send of
a queued message and a fetch after a poll, which the callers are assumed not to do; other users of
SIGF_SINGLE; `sem_signal()` from interrupts, which nothing in the repository does; what
follows a timeout in `sys_arch_sem_wait()` once the task waits again, because the same stack
frame would be linked twice; a failing `mem_malloc()` in `sys_mbox_post()` (its result is
not tested) and in `sys_thread_new()` (it loops forever), which otherwise is `task_init()`
and `task_schedule()`; payloads and the times the waits return; lwIP itself.

## 6. Plan

1. Done: lists, kernel, signals, semaphore, message ports, timers.
2. Done: the lwIP port over `Alarms`, the searches by name, `NobodyOvertakes`.
3. Done: the theorems on the services, on the lwIP port, on the searches and on
   `NobodyOvertakes`, and the refinement of `Alarms`.
4. Done: the theorems on the pointer lists and the refinement of `ListSpec`.

Left: an instance of `Timer` whose clock wraps around, once the code handles it (`FIXME` in
`timer.c`); `sem_signal()` from interrupts and a failing `mem_malloc()`, once something in
the repository does or handles them.
