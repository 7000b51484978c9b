-------------------------- MODULE KernelRefinement --------------------------
(***************************************************************************)
(* The kernel implements the abstract signal system of module Signals: no  *)
(* task can tell from its signals that it was preempted, interrupted in    *)
(* the middle of signal_wait(), or made ready before it was switched out.  *)
(* Every step of the kernel maps to one abstract step or to none, under    *)
(* the refinement mapping SigStatus.                                       *)
(***************************************************************************)
EXTENDS KernelProofs

\* The abstract status of a task.
LEMMA StatusValue ==
  /\ SigStatus = [t \in Task |-> SigStatus[t]]
  /\ \A t \in Task :
       /\ state[t] = "invalid" => SigStatus[t] = "none"
       /\ state[t] # "invalid" /\ ~ InWait(t) => SigStatus[t] = "active"
       /\ state[t] = "waiting" /\ InWait(t) => SigStatus[t] = "blocked"
       /\ state[t] # "invalid" /\ state[t] # "waiting" /\ InWait(t)
            => SigStatus[t] = "woken"
BY DEF SigStatus, InWait

\* The status depends only on whether the task exists, is in signal_wait(),
\* and is TASK_WAITING there.
LEMMA StatusSame ==
  ASSUME \A t \in Task : /\ state'[t] = "invalid" <=> state[t] = "invalid"
                         /\ InWait(t)' <=> InWait(t)
                         /\ InWait(t) =>
                              (state'[t] = "waiting" <=> state[t] = "waiting")
  PROVE  SigStatus' = SigStatus
BY DEF SigStatus, InWait

\* The status of one task changes.
LEMMA StatusOne ==
  ASSUME NEW u \in Task,
         \A t \in Task \ {u} : /\ state'[t] = state[t]
                               /\ pc'[t] = pc[t]
  PROVE  SigStatus' = [SigStatus EXCEPT ![u] = SigStatus'[u]]
BY ZenonT(30) DEF SigStatus

\* The kernel boots into the abstract initial state.
LEMMA SigInitOK == Init => Sig!SigInit
<1> SUFFICES ASSUME Init PROVE Sig!SigInit
  OBVIOUS
<1>1. SigStatus = [t \in Task |-> IF t = InitTask THEN "active" ELSE "none"]
  BY DEF Init, SigStatus
<1> QED
  BY <1>1 DEF Init, Sig!SigInit, SIGF_SINGLE, Sig!SIGF_SINGLE

\* Every step of the kernel is an abstract step or invisible.
LEMMA SigStepOK == Inv /\ [Next]_vars => [Sig!SigNext]_(Sig!sigVars)
<1> SUFFICES ASSUME Inv, [Next]_vars
             PROVE  Sig!SigNext \/ UNCHANGED Sig!sigVars
  OBVIOUS
<1> DEFINE Goal == Sig!SigNext \/ UNCHANGED Sig!sigVars
<1>0. /\ TypeOK /\ QueuesConsistent /\ NestingInv /\ LocationInv /\ SignalInv
      /\ SignalNumber = Sig!SignalNumber /\ SIGF_SINGLE = Sig!SIGF_SINGLE
  BY DEF Inv, SignalNumber, Sig!SignalNumber, SIGF_SINGLE, Sig!SIGF_SINGLE
<1> USE DEF globals, taskVars, sigVars, irqVars, localVars
\* Invisible steps.
<1>1. ASSUME UNCHANGED <<sig_alloc, sig_wait, sig_recvd, state, pc>>
      PROVE  Goal
  <2>1. SigStatus' = SigStatus
    BY <1>1 DEF SigStatus
  <2> QED
    BY <1>1, <2>1 DEF Sig!sigVars
<1>2. ASSUME NEW t \in Task, ~ InWait(t), NEW loc,
             loc \notin {"window", "resched"}, Goto(t, loc),
             UNCHANGED <<sig_alloc, sig_wait, sig_recvd, state>>
      PROVE  Goal
  <2>1. SigStatus' = SigStatus
    BY <1>0, <1>2, StatusSame DEF Goto, InWait, TypeOK
  <2> QED
    BY <1>2, <2>1 DEF Sig!sigVars
<1>3. ASSUME NEW t \in Task, disable(t) \/ enable(t) PROVE Goal
  BY <1>1, <1>3 DEF disable, enable
<1>4. ASSUME NEW t \in Task, user_halt(t) \/ task_schedule_end(t) PROVE Goal
  <2>1. ~ InWait(t)
    BY <1>0, <1>4, CallerRunning DEF user_halt, task_schedule_end
  <2> QED
    BY <1>2, <1>4, <2>1 DEF user_halt, task_schedule_end
<1>5. ASSUME NEW t \in Task, NEW u \in Task, NEW p \in TaskPrio,
             task_set_prio(t, u, p)
      PROVE  Goal
  BY <1>1, <1>5 DEF task_set_prio, ChangePrio
<1>6. ASSUME init_task_f PROVE Goal
  BY <1>0, <1>2, <1>6, KernelAssumption DEF init_task_f, ChangePrio, LocationInv
<1>7. ASSUME NEW t \in Task, NEW u \in Task, task_schedule(t, u) PROVE Goal
  <2>1. ~ InWait(t) /\ ~ InWait(u) /\ state[u] = "initialized"
    BY <1>0, <1>7, CallerRunning DEF task_schedule, LocationInv, InWait
  <2>2. /\ state' = [state EXCEPT ![u] = "ready"]
        /\ pc' = [pc EXCEPT ![t] = "sched"]
        /\ UNCHANGED <<sig_alloc, sig_wait, sig_recvd>>
    BY <1>7 DEF task_schedule, Goto
  <2>3. SigStatus' = SigStatus
    BY <1>0, <2>1, <2>2, StatusSame DEF InWait, TypeOK
  <2> QED
    BY <2>2, <2>3 DEF Sig!sigVars
<1>8. ASSUME NEW t \in Task, signal_wait_reschedule(t) PROVE Goal
  <2>1. SigStatus' = SigStatus
    BY <1>0, <1>8, StatusSame
       DEF signal_wait_reschedule, At, Goto, InWait, TypeOK
  <2> QED
    BY <1>8, <2>1 DEF signal_wait_reschedule, Sig!sigVars
<1>9. ASSUME SysTick_Handler \/ PendSV_Handler PROVE Goal
  BY <1>1, <1>9 DEF SysTick_Handler, PendSV_Handler
<1>10. ASSUME PendSV_Handler_user PROVE Goal
  <2>1. \A x \in Task : state'[x] = "waiting" <=> state[x] = "waiting"
    BY <1>0, <1>10, SwitchKeepsStatus
  <2>2. UNCHANGED <<sig_alloc, sig_wait, sig_recvd, pc>>
    BY <1>10, Zenon DEF PendSV_Handler_user
  <2>3. \A x \in Task : state'[x] = "invalid" <=> state[x] = "invalid"
    BY <1>0, <1>10, SwitchKeepsStatus
  <2>4. SigStatus' = SigStatus
    BY <2>1, <2>2, <2>3, StatusSame DEF InWait
  <2> QED
    BY <2>2, <2>4 DEF Sig!sigVars
\* Steps that implement an abstract step.
<1>11. ASSUME NEW t \in Task, NEW u \in Task, NEW p \in TaskPrio,
              task_init(t, u, p)
       PROVE  Goal
  <2>1. /\ state' = [state EXCEPT ![u] = "initialized"]
        /\ state[u] = "invalid" /\ pc[u] = "user" /\ UNCHANGED pc
    BY <1>0, <1>11 DEF task_init, LocationInv
  <2>2. SigStatus[u] = "none" /\ SigStatus'[u] = "active"
    BY <1>0, <2>1 DEF SigStatus, TypeOK
  <2>3. SigStatus' = [SigStatus EXCEPT ![u] = "active"]
    BY <1>0, <2>1, <2>2, StatusOne DEF TypeOK
  <2>4. Sig!SigCreate(u)
    BY <1>0, <1>11, <2>2, <2>3 DEF task_init, Sig!SigCreate
  <2> QED
    BY <2>4 DEF Sig!SigNext
<1>12. ASSUME NEW t \in Task, NEW n, signal_allocate(t, n) PROVE Goal
  <2>1. SigStatus' = SigStatus /\ SigStatus[t] = "active"
    BY <1>0, <1>12, CallerRunning, StatusValue DEF signal_allocate, SigStatus
  <2>2. PICK b \in SignalNumber :
          /\ sig_alloc' = [sig_alloc EXCEPT ![t] = @ \cup {b}]
          /\ sig_wait' = [sig_wait EXCEPT ![t] = @ \ {b}]
          /\ sig_recvd' = [sig_recvd EXCEPT ![t] = @ \ {b}]
    BY <1>12 DEF signal_allocate
  <2>3. Sig!SigAllocate(t, b)
    BY <2>1, <2>2 DEF Sig!SigAllocate
  <2> QED
    BY <1>0, <2>3 DEF Sig!SigNext
<1>13. ASSUME NEW t \in Task, NEW S \in SUBSET SignalNumber, signal_free(t, S)
       PROVE  Goal
  <2>1. SigStatus' = SigStatus /\ SigStatus[t] = "active"
    BY <1>0, <1>13, CallerRunning, StatusValue DEF signal_free, SigStatus
  <2>2. Sig!SigFree(t, S)
    BY <1>0, <1>13, <2>1 DEF signal_free, Freeable, Sig!SigFree
  <2> QED
    BY <1>0, <2>2 DEF Sig!SigNext
<1>14. ASSUME NEW u \in Task, NEW S \in SUBSET SignalNumber, Send(u, S),
              state[u] # "invalid"
       PROVE  Goal
  <2>1. SigStatus[u] # "none"
    BY <1>14, StatusValue
  <2>2. SigStatus' = [SigStatus EXCEPT ![u] =
                        IF @ = "blocked" /\ S \cap sig_wait[u] # {} THEN "woken"
                                                                    ELSE @]
    <3>1. CASE Wakes(u, S)
      <4>1. /\ state' = [state EXCEPT ![u] = "ready"]
            /\ state[u] = "waiting" /\ S \cap sig_wait[u] # {}
            /\ UNCHANGED pc /\ InWait(u)
        BY <1>0, <1>14, <3>1 DEF Send, Wakes, LocationInv
      <4>2. SigStatus[u] = "blocked" /\ SigStatus'[u] = "woken"
        BY <1>0, <4>1 DEF SigStatus, TypeOK, InWait
      <4>3. SigStatus' = [SigStatus EXCEPT ![u] = "woken"]
        BY <1>0, <4>1, <4>2, StatusOne DEF TypeOK
      <4> QED
        BY <4>1, <4>2, <4>3
    <3>2. CASE ~ Wakes(u, S)
      <4>1. SigStatus' = SigStatus
        BY <1>14, <3>2 DEF Send, SigStatus
      <4>2. ~ (SigStatus[u] = "blocked" /\ S \cap sig_wait[u] # {})
        BY <1>14, <3>2, StatusValue DEF Wakes
      <4> QED
        BY <4>1, <4>2, StatusValue
    <3> QED
      BY <3>1, <3>2
  <2>3. Sig!SigSend(u, S)
    BY <1>14, <2>1, <2>2 DEF Send, Sig!SigSend
  <2> QED
    BY <1>0, <2>3 DEF Sig!SigNext
<1>15. ASSUME NEW t \in Task, NEW S \in SUBSET SignalNumber,
              signal_wait_take(t, S)
       PROVE  Goal
  <2>1. SigStatus' = SigStatus /\ SigStatus[t] = "active"
    BY <1>0, <1>15, CallerRunning, StatusValue DEF signal_wait_take, SigStatus
  <2>2. Sig!SigWaitTake(t, S)
    BY <1>15, <2>1 DEF signal_wait_take, Take, Sig!SigWaitTake
  <2> QED
    BY <1>0, <2>2 DEF Sig!SigNext
<1>16. ASSUME NEW t \in Task, NEW S \in SUBSET SignalNumber,
              signal_wait_block(t, S)
       PROVE  Goal
  <2>1. SigStatus[t] = "active"
    BY <1>0, <1>16, CallerRunning, StatusValue DEF signal_wait_block
  <2>2. /\ state' = [state EXCEPT ![t] = "waiting"]
        /\ pc' = [pc EXCEPT ![t] = "window"]
    BY <1>16 DEF signal_wait_block, Block, Goto
  <2>3. SigStatus'[t] = "blocked"
    BY <1>0, <2>2 DEF SigStatus, TypeOK
  <2>4. SigStatus' = [SigStatus EXCEPT ![t] = "blocked"]
    BY <1>0, <2>2, <2>3, StatusOne DEF TypeOK
  <2>5. Sig!SigWaitBlock(t, S)
    BY <1>16, <2>1, <2>4 DEF signal_wait_block, Sig!SigWaitBlock
  <2> QED
    BY <1>0, <2>5 DEF Sig!SigNext
<1>17. ASSUME NEW t \in Task, signal_wait_resume(t) PROVE Goal
  <2>1. state[t] = "running" /\ pc[t] = "resched" /\ InWait(t)
    BY <1>0, <1>17, ResumedRunning DEF signal_wait_resume, At, InWait
  <2>2. sig_wait[t] \cap sig_recvd[t] # {}
    BY <1>0, <2>1 DEF SignalInv
  <2>3. /\ pc' = [pc EXCEPT ![t] = "user"]
        /\ sig_recvd' = [sig_recvd EXCEPT ![t] = @ \ sig_wait[t]]
        /\ UNCHANGED <<state, sig_alloc, sig_wait>>
    BY <1>17, <2>2 DEF signal_wait_resume, Take, Goto
  <2>4. SigStatus[t] = "woken" /\ SigStatus'[t] = "active"
    BY <1>0, <2>1, <2>3 DEF SigStatus, TypeOK, InWait
  <2>5. SigStatus' = [SigStatus EXCEPT ![t] = "active"]
    BY <1>0, <2>3, <2>4, StatusOne DEF TypeOK
  <2>6. Sig!SigResume(t)
    BY <2>2, <2>3, <2>4, <2>5 DEF Sig!SigResume
  <2> QED
    BY <2>6 DEF Sig!SigNext
<1>18. CASE UNCHANGED vars
  BY <1>1, <1>18 DEF vars
<1> QED
  BY <1>3, <1>4, <1>5, <1>6, <1>7, <1>8, <1>9, <1>10, <1>11, <1>12, <1>13,
     <1>14, <1>15, <1>16, <1>17, <1>18
     DEF Next, Call, InKernel, Interrupt, Switch, signal_send, InterruptSend

\* The kernel implements the abstract signal system.
THEOREM SignalsImplemented == Spec => ImplementsSignals
BY SigInitOK, SigStepOK, InvCorrect, PTL DEF Spec, ImplementsSignals, Sig!SigSpec
=============================================================================
