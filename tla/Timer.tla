-------------------------------- MODULE Timer --------------------------------
(***************************************************************************)
(* The timer service of src/timer.c and the TIM2 interrupt of the port.    *)
(* Each task has one Timer, as timer_delay(), sys_arch.c and n.c do.       *)
(*                                                                         *)
(* The tasks use the abstract signal system of module Signals.  The        *)
(* interrupt may come between any two steps of a task; code between        *)
(* disable() and enable() is one step, and so is the interrupt handler.    *)
(* The clock is an unsigned counter; the model knows the true time as      *)
(* well.                                                                   *)
(***************************************************************************)
EXTENDS Signals, ListOps

CONSTANTS
  TicksMod,      \* timer_now counts modulo this (2^32 in the port)
  Delays,        \* values of timer->delay
  MaxTime,       \* bound: ticks since boot
  AlarmLoop      \* TRUE: the tasks use their timers as the loops of n.c do, and
                 \* add a timer again that they found "already elapsed"; FALSE:
                 \* they free it, as timer_delay() and sys_arch.c do

ASSUME TimerAssumption ==
  /\ TicksMod \in Nat \ {0}
  /\ Delays \subseteq 0 .. TicksMod - 1
  /\ MaxTime \in Nat
  /\ AlarmLoop \in BOOLEAN

VARIABLES
  time,       \* auxiliary: ticks since boot
  timers,     \* the list of requests, as the tasks they belong to
  tstatus,    \* timer->status of each task's timer
  tick,       \* timer->tick
  signal,     \* timer->signal
  due,        \* auxiliary: the time at which the request shall end
  pc

reqVars == <<timers, tstatus, tick, signal, due>>
allVars == <<sigVars, time, reqVars, pc>>

\* Where a task is.
\*   out      it has no timer
\*   idle     its timer is allocated and not in use
\*   check    in timer_add(): tick is set
\*   insert   in timer_add(): tick was in the future
\*   added    back from timer_add() with the request in the list
\*   wait     status was TIMER_ADDED, signal_wait() comes next
\*   asleep   in signal_wait()
\*   skipped  status was not TIMER_ADDED any more, no wait
\*   stopped  back from timer_abort()
Location == {"out", "idle", "check", "insert", "added", "wait", "asleep",
             "skipped", "stopped"}

timer_get_clock == time % TicksMod

TimerTypeOK ==
  /\ SigTypeOK
  /\ time \in 0 .. MaxTime
  /\ timers \in Seq(Task)
  /\ tstatus \in [Task -> {"invalid", "initialized", "added", "done", "aborted"}]
  /\ tick \in [Task -> 0 .. TicksMod - 1]
  /\ signal \in [Task -> SUBSET (SignalNumber \ SIGF_SINGLE)]
  /\ due \in [Task -> Nat]
  /\ pc \in [Task -> Location]

\* timer_init()
timer_init ==
  /\ SigInit
  /\ time = 0
  /\ timers = << >>
  /\ tstatus = [t \in Task |-> "invalid"]
  /\ tick = [t \in Task |-> 0]
  /\ signal = [t \in Task |-> {}]
  /\ due = [t \in Task |-> 0]
  /\ pc = [t \in Task |-> "out"]

At(t, loc) == status[t] = "active" /\ pc[t] = loc

Goto(t, loc) == pc' = [pc EXCEPT ![t] = loc]

Start(t) == SigCreate(t) /\ UNCHANGED <<time, reqVars, pc>>

-----------------------------------------------------------------------------

timer_allocate(t) ==
  /\ t # BootTask
  /\ At(t, "out")
  /\ \E b \in SignalNumber :
       /\ FindsBit(t, b)
       /\ SigAllocate(t, b)
       /\ signal' = [signal EXCEPT ![t] = {b}]
  /\ tstatus' = [tstatus EXCEPT ![t] = "initialized"]
  /\ Goto(t, "idle")
  /\ UNCHANGED <<time, timers, tick, due>>

\* A Timer is freed when it is in no list any more.
timer_free(t) ==
  /\ \E loc \in {"idle", "skipped", "stopped"} : At(t, loc)
  /\ SigFree(t, signal[t])
  /\ tstatus' = [tstatus EXCEPT ![t] = "invalid"]
  /\ Goto(t, "out")
  /\ UNCHANGED <<time, timers, tick, signal, due>>

\* The second assert of timer_add().
timer_add_assert(t) == tstatus[t] \in {"initialized", "done", "aborted"}

\* timer_get_clock() + timer->delay
Sum(d) == (timer_get_clock + d) % TicksMod

\* Where a task may begin a timer_add().
MayAdd(t) ==
  \E loc \in IF AlarmLoop THEN {"idle", "skipped"} ELSE {"idle"} : At(t, loc)

\* timer_add() up to the test whether tick has elapsed: TIMER_DELAY ...
timer_add_delay(t, d) ==
  /\ MayAdd(t)
  /\ timer_add_assert(t)
  /\ tick' = [tick EXCEPT ![t] = Sum(d)]
  /\ due' = [due EXCEPT ![t] = time + d]
  /\ Goto(t, "check")
  /\ UNCHANGED <<sigVars, time, timers, tstatus, signal>>

\* ... and TIMER_ALARM at the absolute time when.
timer_add_alarm(t, when) ==
  /\ MayAdd(t)
  /\ timer_add_assert(t)
  /\ tick' = [tick EXCEPT ![t] = when % TicksMod]
  /\ due' = [due EXCEPT ![t] = when]
  /\ Goto(t, "check")
  /\ UNCHANGED <<sigVars, time, timers, tstatus, signal>>

\* Has the tick of t elapsed?
Elapsed(t) == tick[t] <= timer_get_clock

\* The test, which reads the clock a second time.
timer_add_check(t) ==
  /\ At(t, "check")
  /\ \/ /\ Elapsed(t)
        /\ tstatus' = [tstatus EXCEPT ![t] = "aborted"]
        /\ Goto(t, "skipped")
     \/ /\ ~ Elapsed(t)
        /\ Goto(t, "insert")
        /\ UNCHANGED tstatus
  /\ UNCHANGED <<sigVars, time, timers, tick, signal, due>>

\* Slip: the list is sorted the wrong way round.
InsertsBeforeEarlier(t, u) == tick[t] > tick[u]

\* The test that ends the walk through the list.
InsertsBefore(t, u) == tick[t] < tick[u]

\* The rest of timer_add(), with interrupts disabled: t goes before the first
\* request with a later tick, or to the end.
timer_add_insert(t) ==
  /\ At(t, "insert")
  /\ tstatus' = [tstatus EXCEPT ![t] = "added"]
  /\ \E i \in 1 .. Len(timers) + 1 :
       /\ \A j \in 1 .. i - 1 : ~ InsertsBefore(t, timers[j])
       /\ i <= Len(timers) => InsertsBefore(t, timers[i])
       /\ timers' = InsertAt(timers, i, t)
  /\ Goto(t, "added")
  /\ UNCHANGED <<sigVars, time, tick, signal, due>>

\* timer_delay() and n.c look at the status, which the interrupt may have
\* changed.
TestStatus(t) ==
  /\ At(t, "added")
  /\ Goto(t, IF tstatus[t] = "added" THEN "wait" ELSE "skipped")
  /\ UNCHANGED <<sigVars, time, reqVars>>

\* signal_wait() for the timer, or (sys_arch.c) for the timer and something
\* else.
Wait(t, S) ==
  /\ \/ At(t, "wait") /\ S = {}
     \/ ~ AlarmLoop /\ At(t, "added") /\ S = SIGF_SINGLE
  /\ \/ /\ SigWaitTake(t, signal[t] \cup S)
        /\ Goto(t, IF signal[t] \subseteq sig_recvd[t] THEN "idle" ELSE "added")
     \/ /\ SigWaitBlock(t, signal[t] \cup S)
        /\ Goto(t, "asleep")
  /\ UNCHANGED <<time, reqVars>>

\* signal_wait() returns.
Wake(t) ==
  /\ pc[t] = "asleep"
  /\ SigResume(t)
  /\ Goto(t, IF signal[t] \subseteq sig_recvd[t] THEN "idle" ELSE "added")
  /\ UNCHANGED <<time, reqVars>>

\* Slip: timer_abort() does nothing.
timer_abort_nothing(t) ==
  /\ \E loc \in {"idle", "added", "skipped"} : At(t, loc)
  /\ Goto(t, "stopped")
  /\ UNCHANGED <<sigVars, time, reqVars>>

\* timer_abort(), which leaves the status alone, so that the timer could not
\* be added again; its callers free it.
timer_abort(t) ==
  /\ \E loc \in {"idle", "added", "skipped"} : At(t, loc)
  /\ timers' = IF tstatus[t] = "added" THEN list_unlink(timers, t) ELSE timers
  /\ Goto(t, "stopped")
  /\ UNCHANGED <<sigVars, time, tstatus, tick, signal, due>>

\* Something else a task waits for happens.
OtherEvent(t) == SigSend(t, SIGF_SINGLE) /\ UNCHANGED <<time, reqVars, pc>>

-----------------------------------------------------------------------------

\* Slip: the poll does not see a request that is due right now ...
NotYetOrNow(now, u) == now <= tick[u]

\* Slip: ... or ends a request one tick early.
NotYetNorNext(now, u) == now + 1 < tick[u]

\* The test that ends the walk of timer_poll().
NotYet(now, u) == now < tick[u]

\* How many requests timer_poll() takes off the front of the list.
Expired(now) ==
  CHOOSE k \in 0 .. Len(timers) :
    /\ \A i \in 1 .. k : ~ NotYet(now, timers[i])
    /\ k < Len(timers) => NotYet(now, timers[k + 1])

\* timer_poll(): those requests are done, and their tasks are signalled.
timer_poll(now) ==
  LET n    == Expired(now)
      gone == {timers[i] : i \in 1 .. n}
  IN  /\ timers' = SubSeq(timers, n + 1, Len(timers))
      /\ tstatus' = [t \in Task |-> IF t \in gone THEN "done" ELSE tstatus[t]]
      /\ sig_recvd' = [t \in Task |-> sig_recvd[t] \cup
                                        (IF t \in gone THEN signal[t] ELSE {})]
      /\ status' = [t \in Task |->
                      IF /\ t \in gone
                         /\ status[t] = "blocked"
                         /\ sig_wait[t] \cap signal[t] # {}
                      THEN "woken" ELSE status[t]]

TIM2_IRQHandler ==
  /\ time < MaxTime
  /\ time' = time + 1
  /\ timer_poll(time' % TicksMod)
  /\ UNCHANGED <<sig_alloc, sig_wait, tick, signal, due, pc>>

TimerNext ==
  \/ TIM2_IRQHandler
  \/ \E t \in Task :
       \/ Start(t)
       \/ timer_allocate(t)
       \/ timer_free(t)
       \/ \E d \in Delays : timer_add_delay(t, d)
       \/ \E when \in 0 .. MaxTime : timer_add_alarm(t, when)
       \/ timer_add_check(t)
       \/ timer_add_insert(t)
       \/ TestStatus(t)
       \/ \E S \in {{}, SIGF_SINGLE} : Wait(t, S)
       \/ Wake(t)
       \/ timer_abort(t)
       \/ status[t] # "none" /\ OtherEvent(t)

TimerSpec == timer_init /\ [][TimerNext]_allVars

-----------------------------------------------------------------------------

\* The list holds each request that was added and neither fired nor aborted,
\* once, by tick; and a request in the list belongs to a task that is still
\* inside the call whose stack frame holds the Timer.
RequestsLinked ==
  /\ NoDuplicates(timers)
  /\ \A i, j \in 1 .. Len(timers) : i < j => tick[timers[i]] <= tick[timers[j]]
  /\ \A t \in Task :
       /\ OnList(timers, t) <=> tstatus[t] = "added" /\ pc[t] # "stopped"
       /\ OnList(timers, t) => pc[t] \in {"added", "wait", "asleep"}

\* No request is overdue once the interrupt handler has run, even one that
\* was due before timer_add() had put it on the list.
FiresOnTime ==
  [][time' # time =>
       \A i \in 1 .. Len(timers') : due[timers'[i]] > time']_allVars

\* "Wait for a specified number of timer ticks" (martos.h): a request does
\* not end, by the interrupt or in timer_add() itself, before it is due.
NeverEarly ==
  \A t \in Task :
    tstatus[t] \in {"done", "aborted"} /\ pc[t] \notin {"check", "insert"}
      => time >= due[t]

\* "it can be waited for by issuing wait() on the timer->signal" (martos.h):
\* when the timer's signal ends the wait, the timer has fired, and it was not
\* the signal of an earlier request.
WaitMeansDone ==
  [][\A t \in Task :
       pc[t] \in {"wait", "added", "asleep"} /\ pc'[t] = "idle"
         => tstatus[t] = "done"]_allVars

Alarm == INSTANCE Alarms WITH
  armed <- {timers[i] : i \in 1 .. Len(timers)},
  alarm_signal <- [t \in Task |-> IF tstatus[t] = "invalid" THEN {} ELSE signal[t]]

\* The clock that is read twice, the list sorted by tick and the interrupt
\* between any two steps are invisible to the tasks: the interrupt signals a
\* task only for a request that is queued, and only once; no request outlives
\* timer_abort(), and no Timer is freed while it is linked.
ImplementsAlarms == Alarm!AlarmSpec
=============================================================================
