------------------------------ MODULE Semaphore ------------------------------
(***************************************************************************)
(* The counting semaphore of src/semaphore.c.  A task calls sem_wait() to  *)
(* get a unit, and sem_signal() to give a unit back or to post a new one.  *)
(* Module SysSem adds the waits of the lwIP port.                          *)
(*                                                                         *)
(* It is built on the abstract signal system that module Kernel            *)
(* implements: any task may take the next step at any time, which covers   *)
(* every preemption.  Code between disable() and enable() is one step.     *)
(* SIGF_SINGLE is used by nothing but sem_wait().                           *)
(***************************************************************************)
EXTENDS Signals, Sequences, FiniteSets

CONSTANTS
  InitCount,   \* the count given to sem_init()
  MaxHeld,     \* bound: units a task holds at the same time
  MaxPosted    \* bound: units posted by tasks that hold none

ASSUME SemaphoreAssumption ==
  /\ IsFiniteSet(Task)
  /\ InitCount \in Nat /\ MaxHeld \in Nat /\ MaxPosted \in Nat

VARIABLES
  count,       \* sem->count
  req_queue,   \* waiters of the requests in sem->req_queue
  req_signal,  \* the field signal of each task's last request
  pc,
  held,        \* units each task has got and not given back
  posted,      \* auxiliary: units posted so far
  granted      \* auxiliary: tasks whose request was taken off the queue and
               \* that have not taken the signal yet

semVars == <<count, req_queue, req_signal, held, posted, granted>>
allVars == <<sigVars, semVars, pc>>

\* Where a task is: "out", or in sem_wait(): "added" a request, "asleep" in
\* signal_wait().  The others are in sys_arch_sem_wait(), module SysSem.
SysLocation == {"s_request", "s_added", "s_timer", "s_wait", "s_asleep", "s_end",
                "s_stopped", "s_free"}
Location == {"out", "added", "asleep"} \cup SysLocation

\* In particular the count cannot overflow: its range is that of the number
\* of tasks and of units.
SemTypeOK ==
  /\ SigTypeOK
  /\ count \in - Cardinality(Task) .. InitCount + MaxPosted
  /\ req_queue \in Seq(Task)
  /\ req_signal \in [Task -> SUBSET SignalNumber]
  /\ pc \in [Task -> Location]
  /\ held \in [Task -> Nat]
  /\ posted \in 0 .. MaxPosted
  /\ granted \subseteq Task

\* sem_init() by the boot task, before any other task runs.
SemInit ==
  /\ SigInit
  /\ count = InitCount
  /\ req_queue = << >>
  /\ req_signal = [t \in Task |-> {}]
  /\ pc = [t \in Task |-> "out"]
  /\ held = [t \in Task |-> 0]
  /\ posted = 0
  /\ granted = {}

Goto(t, loc) == pc' = [pc EXCEPT ![t] = loc]

\* Task t runs application code.
CanCall(t) == status[t] = "active" /\ pc[t] = "out"

Queued(t) == \E i \in 1 .. Len(req_queue) : req_queue[i] = t

\* Task t may begin to wait.  user_init() must not wait for signals; and the
\* model does not follow a task that has left a request on a dead stack frame
\* into a second wait, which would link the same node twice.
CanWait(t) == t # BootTask /\ CanCall(t) /\ held[t] < MaxHeld /\ ~ Queued(t)

Start(t) == SigCreate(t) /\ UNCHANGED <<semVars, pc>>

-----------------------------------------------------------------------------

\* Slip: sem_wait() decrements the count, and so does sem_add_request().
LowerTwice(c) == c - 2

\* count--
Lower(c) == c - 1

\* Slip: a request is queued one too late.
MustQueueLate(c) == c < -1

\* Does sem_add_request() queue the request?  c is the count after count--.
MustQueue(c) == c < 0

\* The body of sem_add_request(); the caller goes on at `wait` if the request
\* was queued, and at `got` if it has the unit.
sem_add_request(t, wait, got) ==
  /\ count' = Lower(count)
  /\ \/ /\ MustQueue(count')
        /\ req_queue' = Append(req_queue, t)
        /\ Goto(t, wait)
        /\ UNCHANGED held
     \/ /\ ~ MustQueue(count')
        /\ held' = [held EXCEPT ![t] = @ + 1]
        /\ Goto(t, got)
        /\ UNCHANGED req_queue
  /\ UNCHANGED <<sigVars, posted, granted>>

\* sem_wait() up to the return from sem_add_request().
sem_wait(t) ==
  /\ CanWait(t)
  /\ req_signal' = [req_signal EXCEPT ![t] = SIGF_SINGLE]
  /\ sem_add_request(t, "added", "out")

\* The task has the unit that came with the signal.
GetUnit(t, loc) ==
  /\ Goto(t, loc)
  /\ held' = [held EXCEPT ![t] = @ + 1]
  /\ granted' = granted \ {t}
  /\ UNCHANGED <<count, req_queue, req_signal, posted>>

\* signal_wait(SIGF_SINGLE) in sem_wait(): the signal may have come already.
sem_wait_signal(t) ==
  /\ pc[t] = "added"
  /\ \/ SigWaitTake(t, SIGF_SINGLE) /\ GetUnit(t, "out")
     \/ SigWaitBlock(t, SIGF_SINGLE) /\ Goto(t, "asleep") /\ UNCHANGED semVars

sem_wait_return(t) ==
  /\ pc[t] = "asleep"
  /\ SigResume(t)
  /\ GetUnit(t, "out")

\* Slip: the head of the queue is signalled but stays on the queue.
KeepHead == req_queue

\* Slip: the request at the other end is removed.
DropLast == SubSeq(req_queue, 1, Len(req_queue) - 1)

\* The queue after list_rem_head().
RestOfQueue == Tail(req_queue)

\* Slip: a request is looked for whatever the count is.
WakeAlways(c) == TRUE

\* Does sem_signal() take a request off the queue?  c is the count after
\* count++.
MustWake(c) == c < 0

\* The asserts of sem_signal() when there is a request to serve.
sem_signal_asserts(t) ==
  req_queue # << >> /\ Head(req_queue) # t /\ req_signal[Head(req_queue)] # {}

\* The body of sem_signal(), called by task t.
sem_signal(t) ==
  /\ count' = count + 1
  /\ \/ /\ MustWake(count + 1)
        /\ sem_signal_asserts(t)
        /\ req_queue' = RestOfQueue
        /\ granted' = granted \cup {Head(req_queue)}
        /\ SigSend(Head(req_queue), req_signal[Head(req_queue)])
     \/ /\ ~ MustWake(count + 1)
        /\ UNCHANGED <<req_queue, granted, sigVars>>
  /\ UNCHANGED <<req_signal, pc>>

\* Task t gives back a unit it got from sem_wait().
GiveBack(t) ==
  /\ CanCall(t)
  /\ held[t] > 0
  /\ held' = [held EXCEPT ![t] = @ - 1]
  /\ sem_signal(t)
  /\ UNCHANGED posted

\* Task t posts a unit, as a producer does.
Post(t) ==
  /\ CanCall(t)
  /\ posted < MaxPosted
  /\ posted' = posted + 1
  /\ sem_signal(t)
  /\ UNCHANGED held

SemStep(t) ==
  \/ Start(t)
  \/ sem_wait(t)
  \/ sem_wait_signal(t)
  \/ sem_wait_return(t)
  \/ GiveBack(t)
  \/ Post(t)

SemNext == \E t \in Task : SemStep(t)

SemSpec == SemInit /\ [][SemNext]_allVars

-----------------------------------------------------------------------------

\* The units that sem_wait() has returned: the first, second ... of each task.
UnitsHeld(h) == {u \in Task \X (1 .. MaxHeld) : u[2] <= h[u[1]]}

\* How many units are in somebody's hands: returned by sem_wait(), or on the
\* way with a signal.
UnitsOut == Cardinality(UnitsHeld(held)) + Cardinality(granted)

\* Never more units out than the semaphore was created with and were posted
\* (mutual exclusion for InitCount = 1 and no posts), although a request is
\* queued in one critical section and served in another and its owner may not
\* even be asleep yet.
SemExclusion == UnitsOut <= InitCount + posted

\* The count accounts for every unit and every queued request, so no call of
\* sem_wait() or sem_signal() is counted twice or forgotten.
SemAccounting == count = InitCount + posted - UnitsOut - Len(req_queue)

\* Task t has made a request and has not seen its outcome.
InWait(t) == pc[t] \in {"added", "asleep", "s_added", "s_timer", "s_wait", "s_asleep"}

\* The signal and the queue tell the same story: a task that waits has the
\* request's signal exactly if its request was taken off the queue, its
\* request is on the queue exactly once otherwise, and nobody has SIGF_SINGLE
\* without a unit.  The request lives on the waiter's stack, so it must be off
\* the queue when sem_wait() or sys_arch_sem_wait() returns.
SemHandover ==
  /\ \A t \in Task :
       /\ t \in granted <=> InWait(t) /\ req_signal[t] \subseteq sig_recvd[t]
       /\ InWait(t) <=> t \in granted \/ Queued(t)
       /\ t \in granted => ~ Queued(t)
       /\ SIGF_SINGLE \subseteq sig_recvd[t] => t \in granted
  /\ \A i, j \in 1 .. Len(req_queue) : req_queue[i] = req_queue[j] => i = j

\* The asserts in sem_signal() never fire.
SemAsserts ==
  \A t \in Task :
    CanCall(t) /\ MustWake(count + 1) => sem_signal_asserts(t)

\* What sem_verify() is to assert: "number of nodes match sem->count if
\* negative", "list is empty if sem->count is 0 or greater".
sem_verify ==
  /\ count < 0 => Len(req_queue) = - count
  /\ count >= 0 => req_queue = << >>
=============================================================================
