------------------------------- MODULE Alarms -------------------------------
(***************************************************************************)
(* What the timer service promises a task, without clock or list of        *)
(* requests: a request that is queued ends once, at some time, with the    *)
(* timer's signal, unless the task withdraws it first.  Module Timer       *)
(* implements this specification; the waits with a timeout of the lwIP     *)
(* port are built on it.                                                   *)
(***************************************************************************)
EXTENDS Signals

VARIABLES
  armed,         \* tasks that have a request queued
  alarm_signal   \* timer->signal of a task's allocated Timer, or {}

alarmVars == <<armed, alarm_signal>>

AlarmTypeOK ==
  /\ armed \subseteq Task
  /\ alarm_signal \in [Task -> SUBSET SignalNumber]

AlarmInit ==
  /\ armed = {}
  /\ alarm_signal = [t \in Task |-> {}]

AlarmAllocate(t, b) ==
  /\ alarm_signal[t] = {}
  /\ FindsBit(t, b)
  /\ SigAllocate(t, b)
  /\ alarm_signal' = [alarm_signal EXCEPT ![t] = {b}]
  /\ UNCHANGED armed

\* A Timer is only freed when it is not queued.
AlarmFree(t) ==
  /\ t \notin armed
  /\ SigFree(t, alarm_signal[t])
  /\ alarm_signal' = [alarm_signal EXCEPT ![t] = {}]
  /\ UNCHANGED armed

\* timer_add() queues the request, unless it has elapsed already: then nothing
\* happens and no signal will come.
AlarmSet(t) ==
  /\ alarm_signal[t] # {}
  /\ t \notin armed
  /\ armed' = armed \cup {t}
  /\ UNCHANGED <<sigVars, alarm_signal>>

AlarmStop(t) ==
  /\ armed' = armed \ {t}
  /\ UNCHANGED <<sigVars, alarm_signal>>

\* The interrupt ends the requests of the tasks S.
AlarmFire(S) ==
  /\ S # {} /\ S \subseteq armed
  /\ armed' = armed \ S
  /\ sig_recvd' = [t \in Task |-> sig_recvd[t] \cup
                                    (IF t \in S THEN alarm_signal[t] ELSE {})]
  /\ status' = [t \in Task |->
                  IF /\ t \in S
                     /\ status[t] = "blocked"
                     /\ sig_wait[t] \cap alarm_signal[t] # {}
                  THEN "woken" ELSE status[t]]
  /\ UNCHANGED <<sig_alloc, sig_wait, alarm_signal>>

AlarmNext ==
  \/ SigNext /\ UNCHANGED alarmVars
  \/ \E S \in SUBSET armed : AlarmFire(S)
  \/ \E t \in Task :
       \/ \E b \in SignalNumber : AlarmAllocate(t, b)
       \/ AlarmFree(t)
       \/ AlarmSet(t)
       \/ AlarmStop(t)

AlarmSpec == SigInit /\ AlarmInit /\ [][AlarmNext]_<<sigVars, alarmVars>>
=============================================================================
