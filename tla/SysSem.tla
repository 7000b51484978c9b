------------------------------- MODULE SysSem -------------------------------
(***************************************************************************)
(* The semaphores of the lwIP port, lwip_martos/sys_arch.c.  A sys_sem_t   *)
(* is a Semaphore; sys_arch_sem_wait() adds a request with a signal of its *)
(* own and waits for that signal and, if it has a timeout, for a timer.    *)
(* It shares the semaphore with tasks that call sem_wait() and             *)
(* sem_signal(), of which sys_sem_signal() is another name.                *)
(***************************************************************************)
EXTENDS Semaphore, Alarms

CONSTANT
  GiveUp   \* FALSE: every wait gets its unit before its timeout is noticed

ASSUME SysSemAssumption == GiveUp \in BOOLEAN

sysVars == <<allVars, alarmVars>>

SysSemInit == SemInit /\ AlarmInit

At(t, loc) == status[t] = "active" /\ pc[t] = loc

\* sys_arch_sem_wait() gets a signal for its request ...
sys_arch_sem_wait(t) ==
  /\ CanWait(t)
  /\ \E b \in SignalNumber :
       /\ FindsBit(t, b)
       /\ SigAllocate(t, b)
       /\ req_signal' = [req_signal EXCEPT ![t] = {b}]
  /\ Goto(t, "s_request")
  /\ UNCHANGED <<count, req_queue, held, posted, granted, alarmVars>>

\* ... and adds the request.
sys_add_request(t) ==
  /\ At(t, "s_request")
  /\ sem_add_request(t, "s_added", "s_free")
  /\ UNCHANGED <<req_signal, alarmVars>>

\* With a timeout there is a timer ...
sys_timer_allocate(t) ==
  /\ At(t, "s_added")
  /\ \E b \in SignalNumber : AlarmAllocate(t, b)
  /\ Goto(t, "s_timer")
  /\ UNCHANGED semVars

\* ... which is not queued if its tick has elapsed by the time of the test.
sys_timer_add(t) ==
  /\ At(t, "s_timer")
  /\ AlarmSet(t) \/ UNCHANGED <<sigVars, alarmVars>>
  /\ Goto(t, "s_wait")
  /\ UNCHANGED semVars

\* got_signals & req.signal
GotSemaphore(t) == req_signal[t] \subseteq sig_recvd[t]

\* signal_wait() returns: the semaphore was signalled, or only the timer.
Decide(t) ==
  LET next == IF alarm_signal[t] = {} THEN "s_free" ELSE "s_end"
  IN  \/ GotSemaphore(t) /\ GetUnit(t, next)
      \/ ~ GotSemaphore(t) /\ GiveUp /\ Goto(t, next) /\ UNCHANGED semVars

sys_wait(t) ==
  LET S == req_signal[t] \cup alarm_signal[t]
  IN  /\ At(t, "s_added") \/ At(t, "s_wait")
      /\ \/ SigWaitTake(t, S) /\ Decide(t)
         \/ SigWaitBlock(t, S) /\ Goto(t, "s_asleep") /\ UNCHANGED semVars
      /\ UNCHANGED alarmVars

sys_wait_return(t) ==
  /\ pc[t] = "s_asleep"
  /\ SigResume(t)
  /\ Decide(t)
  /\ UNCHANGED alarmVars

\* Slip: the timer is left running.
sys_leave_timer(t) ==
  /\ At(t, "s_end")
  /\ Goto(t, "s_stopped")
  /\ UNCHANGED <<sigVars, alarmVars, semVars>>

sys_timer_abort(t) ==
  /\ At(t, "s_end")
  /\ AlarmStop(t)
  /\ Goto(t, "s_stopped")
  /\ UNCHANGED semVars

sys_timer_free(t) ==
  /\ At(t, "s_stopped")
  /\ AlarmFree(t)
  /\ Goto(t, "s_free")
  /\ UNCHANGED semVars

\* signal_free(req.signal), and the call returns.
sys_return(t) ==
  /\ At(t, "s_free")
  /\ SigFree(t, req_signal[t])
  /\ Goto(t, "out")
  /\ UNCHANGED <<semVars, alarmVars>>

SysSemNext ==
  \/ \E S \in SUBSET armed : AlarmFire(S) /\ UNCHANGED <<semVars, pc>>
  \/ \E t \in Task :
       \/ SemStep(t) /\ UNCHANGED alarmVars
       \/ sys_arch_sem_wait(t)
       \/ sys_add_request(t)
       \/ sys_timer_allocate(t)
       \/ sys_timer_add(t)
       \/ sys_wait(t)
       \/ sys_wait_return(t)
       \/ sys_timer_abort(t)
       \/ sys_timer_free(t)
       \/ sys_return(t)

SysSemSpec == SysSemInit /\ [][SysSemNext]_sysVars

-----------------------------------------------------------------------------

\* sys_arch_sem_wait() cleans up on every path: when it has returned, its
\* timer is not queued and both signal bits are free again, so that no number
\* of calls uses up the signals or leaves a timer behind on a dead stack
\* frame; and while it runs nothing else owns its bits.
SysFrames ==
  \A t \in Task :
    /\ t \in armed => pc[t] \in {"s_wait", "s_asleep", "s_end"}
    /\ alarm_signal[t] # {} => pc[t] \in {"s_timer", "s_wait", "s_asleep", "s_end",
                                          "s_stopped"}
    /\ pc[t] \in SysLocation => req_signal[t] \cap alarm_signal[t] = {}
    /\ sig_alloc[t] \ SIGF_SINGLE =
         IF pc[t] \in SysLocation THEN req_signal[t] \cup alarm_signal[t] ELSE {}
=============================================================================
