---------------------------- MODULE KernelProofs ----------------------------
(***************************************************************************)
(* Proofs about the kernel for any number of tasks, priorities, signals    *)
(* and nesting levels.                                                     *)
(*                                                                         *)
(* None of the invariants of module Kernel is inductive alone.  The        *)
(* inductive invariant Inv adds to them what ties the three views of a     *)
(* task together: where it is in its code (pc), the state field and the    *)
(* lists, and the interrupt-disable depth.                                 *)
(***************************************************************************)
EXTENDS Kernel, ListOpsProofs, TLAPS

\* Task t is blocked in signal_wait(), or has been and has not returned yet.
InWait(t) == pc[t] \in {"window", "resched"}

\* The interrupt-disable depth.  Outside signal_wait() a task that does not
\* run has no critical section open; inside, the depth to come back to is in
\* the local variable nestcnt.
NestingInv ==
  /\ id_nestcnt >= -1
  /\ primask <=> id_nestcnt >= 0
  /\ handler => ~ primask
  /\ \A t \in Task :
       /\ task_nestcnt[t] = -1
       /\ InWait(t) => nestcnt[t] = depth[t]
       /\ t # running => InWait(t) \/ depth[t] = 0
       /\ t # running => pc[t] # "halt"
  /\ InWait(running) => id_nestcnt = -1
  /\ pc[running] \in {"boot", "user", "sched"} => id_nestcnt = depth[running] - 1
  /\ pc[running] = "halt" => id_nestcnt >= 0

\* The state field and the code location.  A task is off the processor's
\* state TASK_RUNNING only inside signal_wait(), and when it goes on from the
\* reschedule() there, the switch has happened.
LocationInv ==
  /\ \A t \in Task :
       /\ state[t] \in {"invalid", "initialized"} => pc[t] = "user"
       /\ state[t] = "waiting" => InWait(t)
  /\ state[running] # "running" => InWait(running)
  /\ pc[running] = "resched" /\ ~ handler /\ state[running] # "running" => pendsv
  /\ state[InitTask] \in {"running", "ready"}
  /\ ~ InWait(InitTask)

\* Signals: a task in signal_wait() is waiting exactly as long as it has
\* received nothing it waits for.
SignalInv ==
  \A t \in Task :
    /\ SIGF_SINGLE \subseteq sig_alloc[t]
    /\ InWait(t) =>
         (state[t] = "waiting" <=> sig_wait[t] \cap sig_recvd[t] = {})

Inv ==
  /\ TypeOK
  /\ QueuesConsistent
  /\ NestingInv
  /\ LocationInv
  /\ SignalInv

\* The ready list is in priority order and no ready task is passed over.
PrioInv == SortedByPrio(ready, prio) /\ PriorityInvariant

-----------------------------------------------------------------------------
(* Types. *)

\* The unsigned counter `elapsed` stays in its range.
LEMMA DecrementInRange ==
  ASSUME NEW n \in Int
  PROVE  Decrement(n) \in 0 .. ElapsedMod - 1
BY KernelAssumption DEF Decrement

\* PRIMASK is set or clear.
LEMMA MaskedIsBoolean ==
  ASSUME NEW n
  PROVE  MaskedAt(n) \in BOOLEAN
BY DEF MaskedAt

\* SIGF_SINGLE is a set of signals.
LEMMA SingleIsSignal == SIGF_SINGLE \in SUBSET SignalNumber
BY KernelAssumption DEF SIGF_SINGLE, SignalNumber

\* The boot state satisfies the inductive invariant.
LEMMA InitInv == Init => Inv
<1> SUFFICES ASSUME Init PROVE Inv
  OBVIOUS
<1> USE KernelAssumption DEF Init
<1>1. TypeOK
  <2>1. elapsed \in 0 .. ElapsedMod - 1
    OBVIOUS
  <2>2. ready \in Seq(Task) /\ waiting \in Seq(Task)
    BY EmptySeq
  <2>3. /\ state \in [Task -> TaskState]
        /\ pc \in [Task -> Location]
    BY DEF TaskState, Location
  <2>4. prio \in [Task -> Int]
    OBVIOUS
  <2>5. sig_alloc \in [Task -> SUBSET SignalNumber]
    BY SingleIsSignal
  <2>6. /\ sig_wait \in [Task -> SUBSET SignalNumber]
        /\ sig_recvd \in [Task -> SUBSET SignalNumber]
    OBVIOUS
  <2>7. /\ task_nestcnt \in [Task -> Int]
        /\ nestcnt \in [Task -> Int]
        /\ depth \in [Task -> Nat]
        /\ id_nestcnt \in Int
    OBVIOUS
  <2>8. primask \in BOOLEAN /\ pendsv \in BOOLEAN /\ handler \in BOOLEAN
    OBVIOUS
  <2>9. running \in Task
    OBVIOUS
  <2> QED
    BY <2>1, <2>2, <2>3, <2>4, <2>5, <2>6, <2>7, <2>8, <2>9 DEF TypeOK
<1>2. QueuesConsistent
  BY DEF QueuesConsistent, NoDuplicates, OnList
<1>3. NestingInv
  BY DEF NestingInv, InWait
<1>4. LocationInv
  BY DEF LocationInv, InWait
<1>5. SignalInv
  BY DEF SignalInv, InWait
<1> QED
  BY <1>1, <1>2, <1>3, <1>4, <1>5 DEF Inv

\* Every step keeps the types.  Only list_unlink() and the boot state of the
\* lists need more than types: the node must be on the list.
LEMMA TypeStep == TypeOK /\ QueuesConsistent /\ [Next]_vars => TypeOK'
<1> SUFFICES ASSUME TypeOK, QueuesConsistent, [Next]_vars
             PROVE  TypeOK'
  OBVIOUS
<1> USE DEF TypeOK, globals, taskVars, sigVars, irqVars, localVars, Goto,
            Protected, MaskedAt, Location
<1>1. ASSUME NEW t \in Task, disable(t) PROVE TypeOK'
  BY <1>1 DEF disable
<1>2. ASSUME NEW t \in Task, enable(t) PROVE TypeOK'
  BY <1>2 DEF enable
<1>3. ASSUME NEW t \in Task, user_halt(t) PROVE TypeOK'
  BY <1>3 DEF user_halt
<1>4. ASSUME NEW t \in Task, NEW u \in Task, NEW p \in TaskPrio,
             task_init(t, u, p)
      PROVE  TypeOK'
  <2>1. prio' \in [Task -> Int]
    BY <1>4, KernelAssumption DEF task_init
  <2> QED
    BY <1>4, <2>1, SingleIsSignal, SMTT(30) DEF task_init, TaskState
<1>5. ASSUME NEW t \in Task, NEW u \in Task, task_schedule(t, u)
      PROVE  TypeOK'
  <2>1. list_enqueue(ready, prio, u) \in Seq(Task)
    BY EnqueueMembers
  <2> QED
    BY <1>5, <2>1 DEF task_schedule, TaskState
<1>6. ASSUME NEW t \in Task, task_schedule_end(t) PROVE TypeOK'
  BY <1>6 DEF task_schedule_end
<1>7. ASSUME NEW t \in Task, NEW u \in Task, NEW p \in TaskPrio,
             task_set_prio(t, u, p)
      PROVE  TypeOK'
  BY <1>7, KernelAssumption, SMTT(30) DEF task_set_prio, ChangePrio
<1>8. ASSUME init_task_f PROVE TypeOK'
  BY <1>8, KernelAssumption DEF init_task_f, ChangePrio
<1>9. ASSUME NEW t \in Task, NEW n, signal_allocate(t, n) PROVE TypeOK'
  BY <1>9 DEF signal_allocate
<1>10. ASSUME NEW t \in Task, NEW S, signal_free(t, S) PROVE TypeOK'
  BY <1>10 DEF signal_free
<1>11. ASSUME NEW u \in Task, NEW S \in SUBSET SignalNumber, Send(u, S)
       PROVE  TypeOK'
  <2>1. list_enqueue(ready, prio, u) \in Seq(Task)
    BY EnqueueMembers
  <2>2. Wakes(u, S) => list_unlink(waiting, u) \in Seq(Task)
    BY UnlinkMembers DEF Wakes, QueuesConsistent
  <2>3. CASE Wakes(u, S)
    <3>1. state' \in [Task -> TaskState]
      BY <1>11, <2>3 DEF Send, TaskState
    <3>2. sig_recvd' \in [Task -> SUBSET SignalNumber]
      BY <1>11 DEF Send
    <3>3. pendsv' \in BOOLEAN /\ primask' \in BOOLEAN
      BY <1>11, <2>3 DEF Send
    <3> QED
      BY <1>11, <2>1, <2>2, <2>3, <3>1, <3>2, <3>3 DEF Send
  <2>4. CASE ~ Wakes(u, S)
    BY <1>11, <2>4 DEF Send
  <2> QED
    BY <2>3, <2>4
<1>12. ASSUME NEW t \in Task, NEW S \in SUBSET SignalNumber,
              signal_wait_take(t, S)
       PROVE  TypeOK'
  BY <1>12 DEF signal_wait_take, Take
<1>13. ASSUME NEW t \in Task, NEW S \in SUBSET SignalNumber,
              signal_wait_block(t, S)
       PROVE  TypeOK'
  <2>1. Append(waiting, t) \in Seq(Task)
    BY AddTailMembers
  <2>2. state' \in [Task -> TaskState] /\ pc' \in [Task -> Location]
    BY <1>13 DEF signal_wait_block, Block, TaskState
  <2>3. /\ sig_wait' \in [Task -> SUBSET SignalNumber]
        /\ nestcnt' \in [Task -> Int]
    BY <1>13 DEF signal_wait_block, Block
  <2>4. waiting' \in Seq(Task)
    BY <1>13, <2>1, Zenon DEF signal_wait_block, Block
  <2>6. id_nestcnt' \in Int
    BY <1>13 DEF signal_wait_block, Block
  <2>7. primask' \in BOOLEAN
    BY <1>13, Zenon DEF signal_wait_block, Block
  <2>5. UNCHANGED <<running, ready, elapsed, prio, task_nestcnt, sig_alloc,
                    sig_recvd, pendsv, handler, depth>>
    BY <1>13 DEF signal_wait_block
  <2> QED
    BY <2>2, <2>3, <2>4, <2>5, <2>6, <2>7
<1>14. ASSUME NEW t \in Task, signal_wait_reschedule(t) PROVE TypeOK'
  BY <1>14 DEF signal_wait_reschedule
<1>15. ASSUME NEW t \in Task, signal_wait_resume(t) PROVE TypeOK'
  <2>1. Append(waiting, t) \in Seq(Task)
    BY AddTailMembers
  <2>4. UNCHANGED <<running, ready, elapsed, prio, task_nestcnt, sig_alloc,
                    sig_wait, pendsv, handler, depth>>
    BY <1>15 DEF signal_wait_resume
  <2>2. CASE sig_wait[t] \cap sig_recvd[t] # {}
    <3>1. /\ sig_recvd' = [sig_recvd EXCEPT ![t] = @ \ sig_wait[t]]
          /\ pc' = [pc EXCEPT ![t] = "user"]
      BY <1>15, <2>2 DEF signal_wait_resume, Take
    <3>5. /\ sig_recvd' \in [Task -> SUBSET SignalNumber]
          /\ pc' \in [Task -> Location]
      BY <3>1, SMTT(30)
    <3>2. nestcnt' \in [Task -> Int] /\ id_nestcnt' \in Int
      BY <1>15, <2>2, SMTT(30) DEF signal_wait_resume, Restored
    <3>3. primask' \in BOOLEAN
      <4> HIDE DEF MaskedAt
      <4> QED
        BY <1>15, <2>2, MaskedIsBoolean, Zenon DEF signal_wait_resume
    <3>4. UNCHANGED <<state, waiting>>
      BY <1>15, <2>2 DEF signal_wait_resume
    <3> QED
      BY <2>4, <3>2, <3>3, <3>4, <3>5
  <2>3. CASE sig_wait[t] \cap sig_recvd[t] = {}
    <3>1. state' \in [Task -> TaskState] /\ pc' \in [Task -> Location]
      BY <1>15, <2>3 DEF signal_wait_resume, Block, TaskState
    <3>2. nestcnt' \in [Task -> Int]
      BY <1>15, <2>3 DEF signal_wait_resume, Block, Restored
    <3>3. id_nestcnt' \in Int /\ UNCHANGED sig_recvd
      BY <1>15, <2>3 DEF signal_wait_resume, Block
    <3>5. primask' \in BOOLEAN
      BY <1>15, <2>3, Zenon DEF signal_wait_resume, Block
    <3>4. waiting' \in Seq(Task)
      BY <1>15, <2>1, <2>3, Zenon DEF signal_wait_resume, Block
    <3> QED
      BY <2>4, <3>1, <3>2, <3>3, <3>4, <3>5
  <2> QED
    BY <2>2, <2>3
<1>16. ASSUME SysTick_Handler PROVE TypeOK'
  <2>1. Decrement(elapsed) \in 0 .. ElapsedMod - 1
    BY DecrementInRange
  <2> QED
    BY <1>16, <2>1 DEF SysTick_Handler
<1>17. ASSUME PendSV_Handler PROVE TypeOK'
  BY <1>17 DEF PendSV_Handler
<1>18. ASSUME PendSV_Handler_user PROVE TypeOK'
  <2>1. ReadyWithOld \in Seq(Task)
    BY EnqueueMembers DEF ReadyWithOld
  <2>2. Head(ReadyWithOld) \in Task /\ Tail(ReadyWithOld) \in Seq(Task)
    BY <1>18, <2>1, RemHeadMembers DEF PendSV_Handler_user
  <2>3. elapsed' \in 0 .. ElapsedMod - 1
    BY <1>18, KernelAssumption DEF PendSV_Handler_user
  <2>4. state' \in [Task -> TaskState]
    BY <1>18, <2>2 DEF PendSV_Handler_user, TaskState
  <2>5. task_nestcnt' \in [Task -> Int] /\ id_nestcnt' \in Int
    BY <1>18, <2>2 DEF PendSV_Handler_user
  <2>6. running' \in Task /\ ready' \in Seq(Task)
    BY <1>18, <2>2 DEF PendSV_Handler_user
  <2>7. primask' \in BOOLEAN /\ handler' \in BOOLEAN
    <3> HIDE DEF MaskedAt
    <3> QED
      BY <1>18, MaskedIsBoolean, Zenon DEF PendSV_Handler_user
  <2>8. UNCHANGED <<waiting, prio, sig_alloc, sig_wait, sig_recvd, pendsv,
                    pc, nestcnt, depth>>
    BY <1>18 DEF PendSV_Handler_user
  <2> QED
    BY <2>3, <2>4, <2>5, <2>6, <2>7, <2>8
<1>19. CASE UNCHANGED vars
  BY <1>19 DEF vars
<1> QED
  BY <1>1, <1>2, <1>3, <1>4, <1>5, <1>6, <1>7, <1>8, <1>9, <1>10, <1>11,
     <1>12, <1>13, <1>14, <1>15, <1>16, <1>17, <1>18, <1>19
     DEF Next, Call, InKernel, Interrupt, Switch, signal_send, InterruptSend

-----------------------------------------------------------------------------
(* The interrupt-disable depth. *)

\* A disable() ... enable() pair leaves the interrupt state as it was.
LEMMA ProtectedKeeps ==
  TypeOK /\ NestingInv /\ Protected => UNCHANGED <<id_nestcnt, primask>>
<1> SUFFICES ASSUME TypeOK, NestingInv, Protected
             PROVE  primask' = primask
  BY DEF Protected
<1>1. primask \in BOOLEAN /\ (primask <=> id_nestcnt >= 0)
  BY DEF TypeOK, NestingInv
<1>2. primask' = (id_nestcnt >= 0)
  BY Zenon DEF Protected, MaskedAt
<1> QED
  BY <1>1, <1>2

\* Steps that touch none of what NestingInv is about.
LEMMA NestingFrame ==
  /\ NestingInv
  /\ UNCHANGED <<id_nestcnt, primask, handler, task_nestcnt, pc, nestcnt, depth,
                 running>>
  => NestingInv'
BY DEF NestingInv, InWait

\* Every step keeps NestingInv.
LEMMA NestingStep ==
  TypeOK /\ QueuesConsistent /\ NestingInv /\ LocationInv /\ [Next]_vars
    => NestingInv'
<1> SUFFICES ASSUME TypeOK, QueuesConsistent, NestingInv, LocationInv,
                    [Next]_vars
             PROVE  NestingInv'
  OBVIOUS
<1> USE DEF globals, taskVars, sigVars, irqVars, localVars
<1>1. ASSUME NEW t \in Task, disable(t) PROVE NestingInv'
  BY <1>1 DEF disable, At, TypeOK, NestingInv, InWait
<1>2. ASSUME NEW t \in Task, enable(t) PROVE NestingInv'
  BY <1>2 DEF enable, At, MaskedAt, TypeOK, NestingInv, InWait
<1>3. ASSUME NEW t \in Task, user_halt(t) PROVE NestingInv'
  BY <1>3 DEF user_halt, At, Goto, TypeOK, NestingInv, InWait
<1>4. ASSUME NEW t \in Task, NEW u \in Task, NEW p \in TaskPrio,
             task_init(t, u, p)
      PROVE  NestingInv'
  <2>1. UNCHANGED <<id_nestcnt, primask, handler, pc, nestcnt, depth, running>>
    BY <1>4, ProtectedKeeps DEF task_init
  <2>2. \A x \in Task : task_nestcnt'[x] = -1
    BY <1>4 DEF task_init, TypeOK, NestingInv
  <2> QED
    BY <2>1, <2>2 DEF NestingInv, InWait
<1>5. ASSUME NEW t \in Task, NEW u \in Task, task_schedule(t, u)
      PROVE  NestingInv'
  <2>1. UNCHANGED <<id_nestcnt, primask, handler, task_nestcnt, nestcnt, depth,
                    running>>
    BY <1>5, ProtectedKeeps DEF task_schedule
  <2>2. pc' = [pc EXCEPT ![t] = "sched"] /\ running = t /\ pc[t] = "user"
    BY <1>5 DEF task_schedule, Goto, At
  <2> QED
    BY <2>1, <2>2 DEF TypeOK, NestingInv, InWait
<1>6. ASSUME NEW t \in Task, task_schedule_end(t) PROVE NestingInv'
  BY <1>6 DEF task_schedule_end, At, Goto, TypeOK, NestingInv, InWait
<1>7. ASSUME NEW t \in Task, NEW u \in Task, NEW p \in TaskPrio,
             task_set_prio(t, u, p)
      PROVE  NestingInv'
  BY <1>7, ProtectedKeeps, NestingFrame DEF task_set_prio, ChangePrio
<1>8. ASSUME init_task_f PROVE NestingInv'
  <2>1. UNCHANGED <<id_nestcnt, primask, handler, task_nestcnt, nestcnt, depth,
                    running>>
    BY <1>8, ProtectedKeeps DEF init_task_f, ChangePrio
  <2>2. /\ pc' = [pc EXCEPT ![InitTask] = "user"]
        /\ running = InitTask /\ pc[InitTask] = "boot"
    BY <1>8 DEF init_task_f, Goto, At
  <2> QED
    BY <2>1, <2>2, KernelAssumption DEF TypeOK, NestingInv, InWait
<1>9. ASSUME NEW t \in Task, NEW n, signal_allocate(t, n) PROVE NestingInv'
  BY <1>9, ProtectedKeeps, NestingFrame DEF signal_allocate
<1>10. ASSUME NEW t \in Task, NEW S, signal_free(t, S) PROVE NestingInv'
  BY <1>10, NestingFrame DEF signal_free
<1>11. ASSUME NEW u \in Task, NEW S \in SUBSET SignalNumber, Send(u, S)
       PROVE  NestingInv'
  BY <1>11, ProtectedKeeps, NestingFrame DEF Send
<1>12. ASSUME NEW t \in Task, NEW S \in SUBSET SignalNumber,
              signal_wait_take(t, S)
       PROVE  NestingInv'
  BY <1>12, ProtectedKeeps, NestingFrame DEF signal_wait_take
<1>13. ASSUME NEW t \in Task, NEW S \in SUBSET SignalNumber,
              signal_wait_block(t, S)
       PROVE  NestingInv'
  BY <1>13, SMTT(30) DEF signal_wait_block, Block, Goto, At, TypeOK, NestingInv, InWait
<1>14. ASSUME NEW t \in Task, signal_wait_reschedule(t) PROVE NestingInv'
  BY <1>14 DEF signal_wait_reschedule, Goto, At, TypeOK, NestingInv, InWait
<1>15. ASSUME NEW t \in Task, signal_wait_resume(t) PROVE NestingInv'
  <2>1. CASE sig_wait[t] \cap sig_recvd[t] # {}
    <3>1. /\ id_nestcnt' = depth[t] - 1
          /\ running = t /\ pc[t] = "resched" /\ depth[t] \in Nat
          /\ pc' = [pc EXCEPT ![t] = "user"]
          /\ nestcnt' = [nestcnt EXCEPT ![t] = -1]
      BY <1>15, <2>1 DEF signal_wait_resume, Restored, Goto, At,
                         TypeOK, NestingInv, InWait
    <3>2. primask' <=> id_nestcnt' >= 0
      BY <1>15, <2>1, Zenon DEF signal_wait_resume, MaskedAt
    <3>3. ~ handler /\ UNCHANGED <<running, handler, task_nestcnt, depth>>
      BY <1>15 DEF signal_wait_resume, At
    <3> QED
      BY <3>1, <3>2, <3>3 DEF TypeOK, NestingInv, InWait
  <2>2. CASE sig_wait[t] \cap sig_recvd[t] = {}
    BY <1>15, <2>2 DEF signal_wait_resume, Block, Restored, Goto, At,
                       TypeOK, NestingInv, InWait
  <2> QED
    BY <2>1, <2>2
<1>16. ASSUME SysTick_Handler PROVE NestingInv'
  BY <1>16, NestingFrame DEF SysTick_Handler
<1>17. ASSUME PendSV_Handler PROVE NestingInv'
  BY <1>17 DEF PendSV_Handler, NestingInv, InWait
<1>18. ASSUME PendSV_Handler_user PROVE NestingInv'
  <2>1. ReadyWithOld \in Seq(Task)
    BY EnqueueMembers DEF ReadyWithOld, TypeOK
  <2>2. running' \in Task
    BY <1>18, <2>1, RemHeadMembers DEF PendSV_Handler_user
  <2>3. id_nestcnt = -1
    BY <1>18 DEF PendSV_Handler_user, TypeOK, NestingInv
  <2>4. \A x \in Task : task_nestcnt'[x] = -1
    BY <1>18, <2>3 DEF PendSV_Handler_user, TypeOK, NestingInv
  <2>5. id_nestcnt' = task_nestcnt'[running'] /\ UNCHANGED <<pc, nestcnt, depth>>
    BY <1>18, Zenon DEF PendSV_Handler_user
  <2>6. ~ handler' /\ (primask' <=> task_nestcnt'[running'] >= 0)
    BY <1>18, Zenon DEF PendSV_Handler_user, MaskedAt
  <2>7. \A x \in Task : ~ InWait(x) => depth[x] = 0 /\ pc[x] # "halt"
    BY <2>3 DEF TypeOK, NestingInv, InWait, Location
  <2> QED
    BY <2>2, <2>4, <2>5, <2>6, <2>7 DEF TypeOK, NestingInv, InWait
<1>19. CASE UNCHANGED vars
  BY <1>19, NestingFrame DEF vars
<1> QED
  BY <1>1, <1>2, <1>3, <1>4, <1>5, <1>6, <1>7, <1>8, <1>9, <1>10, <1>11,
     <1>12, <1>13, <1>14, <1>15, <1>16, <1>17, <1>18, <1>19
     DEF Next, Call, InKernel, Interrupt, Switch, signal_send, InterruptSend

-----------------------------------------------------------------------------
(* State field and code location. *)

\* A task that executes instructions outside signal_wait() is TASK_RUNNING.
LEMMA CallerRunning ==
  ASSUME TypeOK, LocationInv, NEW t \in Task, NEW loc, At(t, loc),
         loc \notin {"window", "resched"}
  PROVE  running = t /\ state[t] = "running" /\ ~ InWait(t)
BY DEF LocationInv, InWait, At

\* A task that goes on behind the reschedule() of signal_wait() has been
\* switched out and in again.
LEMMA ResumedRunning ==
  ASSUME TypeOK, NestingInv, LocationInv, NEW t \in Task, At(t, "resched")
  PROVE  running = t /\ state[t] = "running" /\ t # InitTask
<1>1. ~ primask /\ running = t /\ ~ handler /\ pc[t] = "resched"
  BY DEF NestingInv, InWait, At
<1> QED
  BY <1>1 DEF LocationInv, InWait, At

\* Steps that touch none of what LocationInv is about.
LEMMA LocationFrame ==
  LocationInv /\ UNCHANGED <<state, pc, running, handler>> /\ (pendsv => pendsv')
    => LocationInv'
BY DEF LocationInv, InWait

\* Every step keeps LocationInv.
LEMMA LocationStep ==
  TypeOK /\ QueuesConsistent /\ NestingInv /\ LocationInv /\ [Next]_vars
    => LocationInv'
<1> SUFFICES ASSUME TypeOK, QueuesConsistent, NestingInv, LocationInv,
                    [Next]_vars
             PROVE  LocationInv'
  OBVIOUS
<1> USE KernelAssumption DEF globals, taskVars, sigVars, irqVars, localVars
<1>1. ASSUME NEW t \in Task, disable(t) PROVE LocationInv'
  BY <1>1, LocationFrame DEF disable
<1>2. ASSUME NEW t \in Task, enable(t) PROVE LocationInv'
  BY <1>2, LocationFrame DEF enable
<1>3. ASSUME NEW t \in Task, user_halt(t) PROVE LocationInv'
  <2>1. running = t /\ state[t] = "running" /\ ~ InWait(t)
    BY <1>3, CallerRunning DEF user_halt
  <2> QED
    BY <1>3, <2>1 DEF user_halt, Goto, TypeOK, LocationInv, InWait
<1>4. ASSUME NEW t \in Task, NEW u \in Task, NEW p \in TaskPrio,
             task_init(t, u, p)
      PROVE  LocationInv'
  <2>1. /\ state' = [state EXCEPT ![u] = "initialized"]
        /\ state[u] = "invalid"
        /\ UNCHANGED <<pc, running, handler, pendsv>>
    BY <1>4 DEF task_init
  <2> QED
    BY <2>1 DEF TypeOK, LocationInv, QueuesConsistent, InWait
<1>5. ASSUME NEW t \in Task, NEW u \in Task, task_schedule(t, u)
      PROVE  LocationInv'
  <2>1. /\ state' = [state EXCEPT ![u] = "ready"]
        /\ state[u] = "initialized"
        /\ pc' = [pc EXCEPT ![t] = "sched"]
        /\ UNCHANGED <<running, handler, pendsv>>
    BY <1>5 DEF task_schedule, Goto
  <2>2. running = t /\ state[t] = "running" /\ ~ InWait(t)
    BY <1>5, CallerRunning DEF task_schedule
  <2> QED
    BY <2>1, <2>2 DEF TypeOK, LocationInv, InWait
<1>6. ASSUME NEW t \in Task, task_schedule_end(t) PROVE LocationInv'
  <2>1. running = t /\ state[t] = "running" /\ ~ InWait(t)
    BY <1>6, CallerRunning DEF task_schedule_end
  <2> QED
    BY <1>6, <2>1 DEF task_schedule_end, Goto, TypeOK, LocationInv, InWait
<1>7. ASSUME NEW t \in Task, NEW u \in Task, NEW p \in TaskPrio,
             task_set_prio(t, u, p)
      PROVE  LocationInv'
  BY <1>7, LocationFrame DEF task_set_prio, ChangePrio
<1>8. ASSUME init_task_f PROVE LocationInv'
  <2>1. running = InitTask /\ state[InitTask] = "running" /\ ~ InWait(InitTask)
    BY <1>8, CallerRunning DEF init_task_f
  <2>2. /\ pc' = [pc EXCEPT ![InitTask] = "user"]
        /\ UNCHANGED <<state, running, handler>>
    BY <1>8 DEF init_task_f, ChangePrio, Goto
  <2> QED
    BY <2>1, <2>2 DEF TypeOK, LocationInv, InWait
<1>9. ASSUME NEW t \in Task, NEW n, signal_allocate(t, n) PROVE LocationInv'
  BY <1>9, LocationFrame DEF signal_allocate
<1>10. ASSUME NEW t \in Task, NEW S, signal_free(t, S) PROVE LocationInv'
  BY <1>10, LocationFrame DEF signal_free
<1>11. ASSUME NEW u \in Task, NEW S \in SUBSET SignalNumber, Send(u, S)
       PROVE  LocationInv'
  <2>1. CASE Wakes(u, S)
    <3>1. /\ state' = [state EXCEPT ![u] = "ready"]
          /\ state[u] = "waiting"
          /\ UNCHANGED <<pc, running, handler>>
          /\ pendsv => pendsv'
      BY <1>11, <2>1 DEF Send, Wakes
    <3> QED
      BY <3>1 DEF TypeOK, LocationInv, InWait
  <2>2. CASE ~ Wakes(u, S)
    BY <1>11, <2>2, LocationFrame DEF Send
  <2> QED
    BY <2>1, <2>2
<1>12. ASSUME NEW t \in Task, NEW S \in SUBSET SignalNumber,
              signal_wait_take(t, S)
       PROVE  LocationInv'
  BY <1>12, LocationFrame DEF signal_wait_take
<1>13. ASSUME NEW t \in Task, NEW S \in SUBSET SignalNumber,
              signal_wait_block(t, S)
       PROVE  LocationInv'
  BY <1>13 DEF signal_wait_block, Block, Goto, At, TypeOK, LocationInv, InWait
<1>14. ASSUME NEW t \in Task, signal_wait_reschedule(t) PROVE LocationInv'
  BY <1>14 DEF signal_wait_reschedule, Goto, At, TypeOK, LocationInv, InWait
<1>15. ASSUME NEW t \in Task, signal_wait_resume(t) PROVE LocationInv'
  <2>1. running = t /\ state[t] = "running" /\ t # InitTask
    BY <1>15, ResumedRunning DEF signal_wait_resume
  <2>2. CASE sig_wait[t] \cap sig_recvd[t] # {}
    BY <1>15, <2>1, <2>2 DEF signal_wait_resume, Goto, TypeOK, LocationInv,
                             InWait
  <2>3. CASE sig_wait[t] \cap sig_recvd[t] = {}
    BY <1>15, <2>1, <2>3 DEF signal_wait_resume, Block, Goto, TypeOK,
                             LocationInv, InWait
  <2> QED
    BY <2>2, <2>3
<1>16. ASSUME SysTick_Handler PROVE LocationInv'
  BY <1>16, LocationFrame DEF SysTick_Handler
<1>17. ASSUME PendSV_Handler PROVE LocationInv'
  BY <1>17 DEF PendSV_Handler, LocationInv, InWait
<1>18. ASSUME PendSV_Handler_user PROVE LocationInv'
  <2>1. ReadyWithOld \in Seq(Task)
    BY EnqueueMembers DEF ReadyWithOld, TypeOK
  <2>2. Head(ReadyWithOld) \in Task
    BY <1>18, <2>1, RemHeadMembers DEF PendSV_Handler_user
  <2> DEFINE next == Head(ReadyWithOld)
             old == [state EXCEPT ![running] = IF @ = "running" THEN "ready"
                                                                ELSE @]
  <2>3. state' = [old EXCEPT ![next] = "running"] /\ running' = next
    BY <1>18, Zenon DEF PendSV_Handler_user
  <2>4. UNCHANGED pc
    BY <1>18, Zenon DEF PendSV_Handler_user
  <2> HIDE DEF next
  <2>5. next \in Task
    BY <2>2 DEF next
  <2> QED
    BY <2>3, <2>4, <2>5 DEF TypeOK, LocationInv, InWait
<1>19. CASE UNCHANGED vars
  BY <1>19, LocationFrame DEF vars
<1> QED
  BY <1>1, <1>2, <1>3, <1>4, <1>5, <1>6, <1>7, <1>8, <1>9, <1>10, <1>11,
     <1>12, <1>13, <1>14, <1>15, <1>16, <1>17, <1>18, <1>19
     DEF Next, Call, InKernel, Interrupt, Switch, signal_send, InterruptSend

-----------------------------------------------------------------------------
(* The lists. *)

\* Steps that touch no list, no state field and not the running task.
LEMMA QueuesFrame ==
  QueuesConsistent /\ UNCHANGED <<ready, waiting, state, running>>
    => QueuesConsistent'
BY DEF QueuesConsistent, OnList, NoDuplicates

\* The running task blocks: its state and the waiting list change together.
LEMMA BlockKeepsQueues ==
  ASSUME TypeOK, QueuesConsistent, NEW t \in Task, NEW n,
         running = t, state[t] = "running", Block(t, n),
         UNCHANGED <<running, ready>>
  PROVE  QueuesConsistent'
<1>1. ~ OnList(waiting, t) /\ NoDuplicates(waiting)
  BY DEF QueuesConsistent
<1>2. waiting \in Seq(Task)
  BY DEF TypeOK
<1> DEFINE w == Append(waiting, t)
<1>3. NoDuplicates(w) /\ \A x : OnList(w, x) <=> x = t \/ OnList(waiting, x)
  BY <1>1, <1>2, AddTailMembers
<1>4. waiting' = w /\ state' = [state EXCEPT ![t] = "waiting"]
  BY Zenon DEF Block
<1> HIDE DEF w
<1> QED
  BY <1>3, <1>4 DEF TypeOK, QueuesConsistent

\* Every step keeps the lists and the state fields in step.
LEMMA QueuesStep ==
  TypeOK /\ QueuesConsistent /\ NestingInv /\ LocationInv /\ [Next]_vars
    => QueuesConsistent'
<1> SUFFICES ASSUME TypeOK, QueuesConsistent, NestingInv, LocationInv,
                    [Next]_vars
             PROVE  QueuesConsistent'
  OBVIOUS
<1> USE DEF globals, taskVars, sigVars, irqVars, localVars
<1>1. ASSUME NEW t \in Task,
             \/ disable(t) \/ enable(t) \/ user_halt(t)
             \/ task_schedule_end(t) \/ signal_wait_reschedule(t)
      PROVE  QueuesConsistent'
  BY <1>1, QueuesFrame DEF disable, enable, user_halt, task_schedule_end,
                           signal_wait_reschedule
<1>2. ASSUME NEW t \in Task, NEW u \in Task, NEW p \in TaskPrio,
             task_init(t, u, p)
      PROVE  QueuesConsistent'
  <2>1. /\ state' = [state EXCEPT ![u] = "initialized"]
        /\ state[u] = "invalid"
        /\ UNCHANGED <<ready, waiting, running>>
    BY <1>2 DEF task_init
  <2> QED
    BY <2>1 DEF TypeOK, QueuesConsistent
<1>3. ASSUME NEW t \in Task, NEW u \in Task, task_schedule(t, u)
      PROVE  QueuesConsistent'
  <2> DEFINE e == list_enqueue(ready, prio, u)
  <2>1. /\ state' = [state EXCEPT ![u] = "ready"]
        /\ state[u] = "initialized"
        /\ ready' = e
        /\ UNCHANGED <<waiting, running>>
    BY <1>3 DEF task_schedule
  <2>2. ~ OnList(ready, u) /\ NoDuplicates(ready)
    BY <2>1 DEF QueuesConsistent
  <2>3. NoDuplicates(e) /\ \A x : OnList(e, x) <=> x = u \/ OnList(ready, x)
    BY <2>2, EnqueueMembers DEF TypeOK
  <2> HIDE DEF e
  <2> QED
    BY <2>1, <2>3 DEF TypeOK, QueuesConsistent
<1>4. ASSUME NEW t \in Task, NEW u \in Task, NEW p \in TaskPrio,
             task_set_prio(t, u, p)
      PROVE  QueuesConsistent'
  BY <1>4, QueuesFrame DEF task_set_prio, ChangePrio
<1>5. ASSUME init_task_f PROVE QueuesConsistent'
  BY <1>5, QueuesFrame DEF init_task_f, ChangePrio
<1>6. ASSUME NEW t \in Task, NEW n, signal_allocate(t, n)
      PROVE  QueuesConsistent'
  BY <1>6, QueuesFrame DEF signal_allocate
<1>7. ASSUME NEW t \in Task, NEW S, signal_free(t, S) \/ signal_wait_take(t, S)
      PROVE  QueuesConsistent'
  BY <1>7, QueuesFrame DEF signal_free, signal_wait_take
<1>8. ASSUME NEW u \in Task, NEW S \in SUBSET SignalNumber, Send(u, S)
      PROVE  QueuesConsistent'
  <2>1. CASE Wakes(u, S)
    <3> DEFINE e == list_enqueue(ready, prio, u)
               w == list_unlink(waiting, u)
    <3>1. /\ state' = [state EXCEPT ![u] = "ready"]
          /\ state[u] = "waiting"
          /\ ready' = e /\ waiting' = w
          /\ UNCHANGED running
      BY <1>8, <2>1 DEF Send, Wakes
    <3>2. /\ ~ OnList(ready, u) /\ NoDuplicates(ready)
          /\ OnList(waiting, u) /\ NoDuplicates(waiting)
      BY <3>1 DEF QueuesConsistent
    <3>3. NoDuplicates(e) /\ \A x : OnList(e, x) <=> x = u \/ OnList(ready, x)
      BY <3>2, EnqueueMembers DEF TypeOK
    <3>4. NoDuplicates(w) /\ \A x : OnList(w, x) <=> x # u /\ OnList(waiting, x)
      BY <3>2, UnlinkMembers DEF TypeOK
    <3> HIDE DEF e, w
    <3> QED
      BY <3>1, <3>3, <3>4 DEF TypeOK, QueuesConsistent
  <2>2. CASE ~ Wakes(u, S)
    BY <1>8, <2>2, QueuesFrame DEF Send
  <2> QED
    BY <2>1, <2>2
<1>9. ASSUME NEW t \in Task, NEW S, signal_wait_block(t, S)
      PROVE  QueuesConsistent'
  <2>1. running = t /\ state[t] = "running"
    BY <1>9, CallerRunning DEF signal_wait_block
  <2> QED
    BY <1>9, <2>1, BlockKeepsQueues DEF signal_wait_block
<1>10. ASSUME NEW t \in Task, signal_wait_resume(t) PROVE QueuesConsistent'
  <2>1. running = t /\ state[t] = "running"
    BY <1>10, ResumedRunning DEF signal_wait_resume
  <2>2. CASE sig_wait[t] \cap sig_recvd[t] # {}
    BY <1>10, <2>2, QueuesFrame DEF signal_wait_resume
  <2>3. CASE sig_wait[t] \cap sig_recvd[t] = {}
    BY <1>10, <2>1, <2>3, BlockKeepsQueues DEF signal_wait_resume
  <2> QED
    BY <2>2, <2>3
<1>11. ASSUME SysTick_Handler \/ PendSV_Handler PROVE QueuesConsistent'
  BY <1>11, QueuesFrame DEF SysTick_Handler, PendSV_Handler
<1>12. ASSUME PendSV_Handler_user PROVE QueuesConsistent'
  <2> DEFINE q == ReadyWithOld
             next == Head(q)
             rest == Tail(q)
             old == [state EXCEPT ![running] = IF @ = "running" THEN "ready"
                                                                ELSE @]
  <2>1. /\ state' = [old EXCEPT ![next] = "running"]
        /\ running' = next /\ ready' = rest /\ UNCHANGED waiting
        /\ q # << >>
    BY <1>12, Zenon DEF PendSV_Handler_user
  <2>2. /\ q \in Seq(Task)
        /\ NoDuplicates(q)
        /\ \A x \in Task : OnList(q, x) <=> old[x] = "ready"
    <3>1. CASE state[running] = "running"
      <4> DEFINE e == list_enqueue(ready, prio, running)
      <4>1. ~ OnList(ready, running) /\ NoDuplicates(ready)
        BY <3>1 DEF QueuesConsistent, TypeOK
      <4>2. /\ e \in Seq(Task) /\ NoDuplicates(e)
            /\ \A x : OnList(e, x) <=> x = running \/ OnList(ready, x)
        BY <4>1, EnqueueMembers DEF TypeOK
      <4>3. q = e
        BY <3>1 DEF ReadyWithOld
      <4> HIDE DEF e, q
      <4> QED
        BY <3>1, <4>2, <4>3 DEF TypeOK, QueuesConsistent
    <3>2. CASE state[running] # "running"
      <4>1. q = ready
        BY <3>2 DEF ReadyWithOld
      <4> HIDE DEF q
      <4> QED
        BY <3>2, <4>1 DEF TypeOK, QueuesConsistent
    <3> QED
      BY <3>1, <3>2
  <2> HIDE DEF q
  <2>3. /\ next \in Task
        /\ OnList(q, next)
        /\ NoDuplicates(rest)
        /\ \A x : OnList(rest, x) <=> x # next /\ OnList(q, x)
    BY <2>1, <2>2, RemHeadMembers
  <2> HIDE DEF next, rest
  <2>4. old \in [Task -> TaskState] /\ old[next] = "ready"
    BY <2>2, <2>3 DEF TypeOK, TaskState
  <2>5. \A x \in Task : /\ old[x] = "waiting" <=> OnList(waiting, x)
                        /\ old[x] # "running"
    BY DEF TypeOK, QueuesConsistent
  <2> HIDE DEF old
  <2> QED
    BY <2>1, <2>2, <2>3, <2>4, <2>5 DEF QueuesConsistent
<1>13. CASE UNCHANGED vars
  BY <1>13, QueuesFrame DEF vars
<1> QED
  BY <1>1, <1>2, <1>3, <1>4, <1>5, <1>6, <1>7, <1>8, <1>9, <1>10, <1>11,
     <1>12, <1>13
     DEF Next, Call, InKernel, Interrupt, Switch, signal_send, InterruptSend

-----------------------------------------------------------------------------
(* Signals. *)

\* Steps that touch no signal set, no state field and no code location.
LEMMA SignalFrame ==
  SignalInv /\ UNCHANGED <<sig_alloc, sig_wait, sig_recvd, pc, state>>
    => SignalInv'
BY DEF SignalInv, InWait

\* Steps of a task outside signal_wait() that only move its own pc.
LEMMA SignalMove ==
  ASSUME TypeOK, SignalInv, NEW t \in Task, ~ InWait(t),
         NEW loc, loc \notin {"window", "resched"}, Goto(t, loc),
         UNCHANGED <<sig_alloc, sig_wait, sig_recvd, state>>
  PROVE  SignalInv'
BY DEF Goto, SignalInv, InWait, TypeOK

\* The switch changes no task from or to TASK_WAITING or TASK_INVALID.
LEMMA SwitchKeepsStatus ==
  ASSUME TypeOK, QueuesConsistent, PendSV_Handler_user
  PROVE  \A x \in Task : /\ state'[x] = "waiting" <=> state[x] = "waiting"
                         /\ state'[x] = "invalid" <=> state[x] = "invalid"
<1> DEFINE next == Head(ReadyWithOld)
           old == [state EXCEPT ![running] = IF @ = "running" THEN "ready"
                                                              ELSE @]
<1>1. ReadyWithOld \in Seq(Task) /\ ReadyWithOld # << >>
  BY EnqueueMembers DEF ReadyWithOld, TypeOK, PendSV_Handler_user
<1>2. next \in Task /\ OnList(ReadyWithOld, next)
  BY <1>1, RemHeadMembers
<1>3. state' = [old EXCEPT ![next] = "running"]
  BY Zenon DEF PendSV_Handler_user
<1> HIDE DEF next
<1>4. state[next] \notin {"waiting", "invalid"}
  <2>1. CASE state[running] = "running"
    <3>1. next = running \/ OnList(ready, next)
      BY <1>2, <2>1, EnqueueMembers DEF ReadyWithOld, TypeOK
    <3> QED
      BY <1>2, <2>1, <3>1 DEF QueuesConsistent
  <2>2. CASE state[running] # "running"
    BY <1>2, <2>2 DEF ReadyWithOld, QueuesConsistent
  <2> QED
    BY <2>1, <2>2
<1> QED
  BY <1>2, <1>3, <1>4 DEF TypeOK

\* Every step keeps SignalInv.
LEMMA SignalStep == Inv /\ [Next]_vars => SignalInv'
<1> SUFFICES ASSUME Inv, [Next]_vars
             PROVE  SignalInv'
  OBVIOUS
<1>0. TypeOK /\ QueuesConsistent /\ NestingInv /\ LocationInv /\ SignalInv
  BY DEF Inv
<1> USE DEF globals, taskVars, sigVars, irqVars, localVars
<1>1. ASSUME NEW t \in Task, disable(t) \/ enable(t) PROVE SignalInv'
  BY <1>0, <1>1, SignalFrame DEF disable, enable
<1>2. ASSUME NEW t \in Task, user_halt(t) PROVE SignalInv'
  <2>1. ~ InWait(t)
    BY <1>0, <1>2, CallerRunning DEF user_halt
  <2> QED
    BY <1>0, <1>2, <2>1, SignalMove DEF user_halt
<1>3. ASSUME NEW t \in Task, NEW u \in Task, NEW p \in TaskPrio,
             task_init(t, u, p)
      PROVE  SignalInv'
  <2>1. pc[u] = "user"
    BY <1>0, <1>3 DEF task_init, LocationInv
  <2> QED
    BY <1>0, <1>3, <2>1 DEF task_init, SignalInv, TypeOK, InWait
<1>4. ASSUME NEW t \in Task, NEW u \in Task, task_schedule(t, u)
      PROVE  SignalInv'
  <2>1. ~ InWait(t) /\ ~ InWait(u)
    BY <1>0, <1>4, CallerRunning DEF task_schedule, LocationInv, InWait
  <2>2. /\ state' = [state EXCEPT ![u] = "ready"]
        /\ pc' = [pc EXCEPT ![t] = "sched"]
        /\ UNCHANGED <<sig_alloc, sig_wait, sig_recvd>>
    BY <1>4 DEF task_schedule, Goto
  <2> QED
    BY <1>0, <2>1, <2>2 DEF SignalInv, TypeOK, InWait
<1>5. ASSUME NEW t \in Task, task_schedule_end(t) PROVE SignalInv'
  <2>1. ~ InWait(t)
    BY <1>0, <1>5, CallerRunning DEF task_schedule_end
  <2> QED
    BY <1>0, <1>5, <2>1, SignalMove DEF task_schedule_end
<1>6. ASSUME NEW t \in Task, NEW u \in Task, NEW p \in TaskPrio,
             task_set_prio(t, u, p)
      PROVE  SignalInv'
  BY <1>0, <1>6, SignalFrame DEF task_set_prio, ChangePrio
<1>7. ASSUME init_task_f PROVE SignalInv'
  <2>1. ~ InWait(InitTask)
    BY <1>0 DEF LocationInv
  <2> QED
    BY <1>0, <1>7, <2>1, SignalMove, KernelAssumption
       DEF init_task_f, ChangePrio
<1>8. ASSUME NEW t \in Task, NEW n, signal_allocate(t, n) PROVE SignalInv'
  <2>1. ~ InWait(t)
    BY <1>0, <1>8, CallerRunning DEF signal_allocate
  <2> QED
    BY <1>0, <1>8, <2>1 DEF signal_allocate, SignalInv, TypeOK, InWait
<1>9. ASSUME NEW t \in Task, NEW S, signal_free(t, S) PROVE SignalInv'
  BY <1>0, <1>9 DEF signal_free, Freeable, SignalInv, TypeOK, InWait
<1>10. ASSUME NEW u \in Task, NEW S \in SUBSET SignalNumber, Send(u, S)
       PROVE  SignalInv'
  <2>1. CASE Wakes(u, S)
    BY <1>0, <1>10, <2>1 DEF Send, Wakes, SignalInv, TypeOK, InWait
  <2>2. CASE ~ Wakes(u, S)
    BY <1>0, <1>10, <2>2 DEF Send, Wakes, SignalInv, TypeOK, InWait
  <2> QED
    BY <2>1, <2>2
<1>11. ASSUME NEW t \in Task, NEW S \in SUBSET SignalNumber,
              signal_wait_take(t, S)
       PROVE  SignalInv'
  <2>1. ~ InWait(t)
    BY <1>0, <1>11, CallerRunning DEF signal_wait_take
  <2> QED
    BY <1>0, <1>11, <2>1 DEF signal_wait_take, Take, SignalInv, TypeOK, InWait
<1>12. ASSUME NEW t \in Task, NEW S \in SUBSET SignalNumber,
              signal_wait_block(t, S)
       PROVE  SignalInv'
  BY <1>0, <1>12 DEF signal_wait_block, Block, Goto, SignalInv, TypeOK, InWait
<1>13. ASSUME NEW t \in Task, signal_wait_reschedule(t) PROVE SignalInv'
  BY <1>0, <1>13 DEF signal_wait_reschedule, At, Goto, SignalInv, TypeOK, InWait
<1>14. ASSUME NEW t \in Task, signal_wait_resume(t) PROVE SignalInv'
  <2>1. CASE sig_wait[t] \cap sig_recvd[t] # {}
    BY <1>0, <1>14, <2>1 DEF signal_wait_resume, Take, Goto, SignalInv, TypeOK,
                             InWait
  <2>2. CASE sig_wait[t] \cap sig_recvd[t] = {}
    BY <1>0, <1>14, <2>2 DEF signal_wait_resume, Block, Goto, SignalInv, TypeOK,
                             InWait
  <2> QED
    BY <2>1, <2>2
<1>15. ASSUME SysTick_Handler \/ PendSV_Handler PROVE SignalInv'
  BY <1>0, <1>15, SignalFrame DEF SysTick_Handler, PendSV_Handler
<1>16. ASSUME PendSV_Handler_user PROVE SignalInv'
  <2>1. UNCHANGED <<sig_alloc, sig_wait, sig_recvd, pc>>
    BY <1>16, Zenon DEF PendSV_Handler_user
  <2>2. \A x \in Task : state'[x] = "waiting" <=> state[x] = "waiting"
    BY <1>0, <1>16, SwitchKeepsStatus
  <2> QED
    BY <1>0, <2>1, <2>2 DEF SignalInv, InWait
<1>17. CASE UNCHANGED vars
  BY <1>0, <1>17, SignalFrame DEF vars
<1> QED
  BY <1>1, <1>2, <1>3, <1>4, <1>5, <1>6, <1>7, <1>8, <1>9, <1>10, <1>11,
     <1>12, <1>13, <1>14, <1>15, <1>16, <1>17
     DEF Next, Call, InKernel, Interrupt, Switch, signal_send, InterruptSend

-----------------------------------------------------------------------------
(* The theorems of the inductive invariant. *)

\* Inv holds in every reachable state.
THEOREM InvCorrect == Spec => []Inv
<1>1. Inv /\ [Next]_vars => Inv'
  BY TypeStep, NestingStep, LocationStep, QueuesStep, SignalStep DEF Inv
<1> QED
  BY InitInv, <1>1, PTL DEF Spec

\* Every variable keeps its type; in particular the unsigned tick counter
\* stays in range although it may be decremented below zero.
THEOREM TypeCorrect == Spec => []TypeOK
<1>1. Inv => TypeOK
  BY DEF Inv
<1> QED
  BY <1>1, InvCorrect, PTL

\* task_schedule(), signal_send(), signal_wait() and the PendSV handler keep
\* the lists and the state fields in step, whatever interrupts come between
\* their steps.
THEOREM QueuesCorrect == Spec => []QueuesConsistent
<1>1. Inv => QueuesConsistent
  BY DEF Inv
<1> QED
  BY <1>1, InvCorrect, PTL

\* signal_wait() and signal_send() lose no wake-up.
THEOREM SignalsCorrect == Spec => []NoMissedSignal
<1>1. Inv => NoMissedSignal
  BY DEF Inv, LocationInv, SignalInv, NoMissedSignal
<1> QED
  BY <1>1, InvCorrect, PTL

\* The nesting depth of disable() is private to each task.
THEOREM NestingCorrect == Spec => []NestingPrivate
<1>1. Inv => NestingPrivate
  BY DEF Inv, NestingInv, NestingPrivate
<1> QED
  BY <1>1, InvCorrect, PTL

\* The asserts of task_verify() hold and the PendSV handler always finds a
\* task to run: init_task never blocks.
THEOREM SwitchCorrect == Spec => []SwitchSafe
<1>1. ASSUME Inv PROVE SwitchSafe
  <2>1. \A t \in Task : state[t] # "invalid" => task_verify(t)
    BY <1>1 DEF Inv, NestingInv, SignalInv, task_verify
  <2>2. ReadyWithOld # << >>
    <3>1. CASE state[running] = "running"
      BY <1>1, <3>1, EnqueueMembers DEF Inv, TypeOK, ReadyWithOld
    <3>2. CASE state[running] # "running"
      <4>1. state[InitTask] = "ready"
        BY <1>1, <3>2, KernelAssumption DEF Inv, LocationInv, QueuesConsistent
      <4>2. OnList(ready, InitTask)
        BY <1>1, <4>1, KernelAssumption DEF Inv, QueuesConsistent
      <4>3. ready # << >>
        BY <4>2 DEF OnList
      <4> QED
        BY <3>2, <4>3 DEF ReadyWithOld
    <3> QED
      BY <3>1, <3>2
  <2> QED
    BY <2>1, <2>2 DEF SwitchSafe
<1> QED
  BY <1>1, InvCorrect, PTL

\* A critical section is not broken by a task switch.
THEOREM CriticalSectionCorrect == Spec => CriticalSection
<1>1. Inv /\ [Next]_vars
        => [running' # running =>
              depth[running] = 0 \/ pc[running] \in {"window", "resched"}]_vars
  <2> SUFFICES ASSUME Inv, Next, running' # running
               PROVE  depth[running] = 0 \/ InWait(running)
    BY DEF InWait
  <2>1. PendSV_Handler_user
    BY DEF Next, Call, InKernel, Interrupt, Switch, disable, enable, user_halt,
           task_init, task_schedule, task_schedule_end, task_set_prio,
           ChangePrio, init_task_f, signal_allocate, signal_free, signal_send,
           InterruptSend, Send, signal_wait_take, signal_wait_block,
           signal_wait_reschedule, signal_wait_resume, SysTick_Handler,
           PendSV_Handler, globals
  <2>2. id_nestcnt = -1
    BY <2>1 DEF PendSV_Handler_user, Inv, TypeOK, NestingInv
  <2> QED
    BY <2>2 DEF Inv, TypeOK, NestingInv, InWait, Location
<1> QED
  BY <1>1, InvCorrect, PTL DEF Spec, CriticalSection

\* Nothing happens after user_halt().
THEOREM HaltCorrect == Spec => HaltIsFinal
<1>1. Inv /\ [Next]_vars => [pc[running] # "halt"]_vars
  <2> SUFFICES ASSUME Inv, Next, pc[running] = "halt"
               PROVE  FALSE
    OBVIOUS
  <2>1. primask /\ ~ handler
    BY DEF Inv, NestingInv
  <2> QED
    BY <2>1
       DEF Next, Call, InKernel, Interrupt, Switch, disable, enable, user_halt,
           task_init, task_schedule, task_schedule_end, task_set_prio,
           init_task_f, signal_allocate, signal_free, signal_send,
           InterruptSend, Interruptible, At, signal_wait_take,
           signal_wait_block, signal_wait_reschedule, signal_wait_resume,
           SysTick_Handler, PendSV_Handler, PendSV_Handler_user
<1> QED
  BY <1>1, InvCorrect, PTL DEF Spec, HaltIsFinal

-----------------------------------------------------------------------------
(* Priorities.  Unlike the rest this needs an assumption on applications:  *)
(* task_set_prio() is not called for a task that is ready, because it does *)
(* not move the task to its new place in the ready list.                   *)

\* The order of a list depends only on the priorities of its members.
LEMMA SortedSamePrio ==
  ASSUME NEW T, NEW q \in Seq(T), NEW pr, NEW pr2, SortedByPrio(q, pr),
         \A x : OnList(q, x) => pr2[x] = pr[x]
  PROVE  SortedByPrio(q, pr2)
<1>1. \A i \in 1 .. Len(q) : pr2[q[i]] = pr[q[i]]
  BY DEF OnList
<1> QED
  BY <1>1 DEF SortedByPrio

\* The priority of a task that is not ready changes.
LEMMA SortedSetPrio ==
  ASSUME TypeOK, QueuesConsistent, SortedByPrio(ready, prio),
         NEW u \in Task, state[u] # "ready", NEW p,
         prio' = [prio EXCEPT ![u] = p], UNCHANGED ready
  PROVE  SortedByPrio(ready, prio)'
<1>1. ~ OnList(ready, u)
  BY DEF QueuesConsistent
<1>2. ready \in Seq(Task) /\ prio \in [Task -> Int]
  BY DEF TypeOK
<1>3. \A x : OnList(ready, x) => x \in Task
  BY <1>2 DEF OnList
<1>4. \A x : OnList(ready, x) => prio'[x] = prio[x]
  BY <1>1, <1>2, <1>3
<1>5. SortedByPrio(ready, prio')
  BY <1>2, <1>4, SortedSamePrio
<1> QED
  BY <1>5

\* The ready list stays in priority order.
LEMMA SortedStep ==
  ASSUME "ready" \notin SetPrioStates
  PROVE  Inv /\ SortedByPrio(ready, prio) /\ [Next]_vars
           => SortedByPrio(ready, prio)'
<1> SUFFICES ASSUME Inv, SortedByPrio(ready, prio), [Next]_vars
             PROVE  SortedByPrio(ready, prio)'
  OBVIOUS
<1>0. TypeOK /\ QueuesConsistent /\ LocationInv
  BY DEF Inv
<1> USE DEF globals, taskVars, sigVars, irqVars, localVars
<1>1. ASSUME UNCHANGED <<ready, prio>> PROVE SortedByPrio(ready, prio)'
  BY <1>1
<1>2. ASSUME NEW t \in Task, NEW u \in Task, NEW p \in TaskPrio,
             task_init(t, u, p) \/ task_set_prio(t, u, p)
      PROVE  SortedByPrio(ready, prio)'
  BY <1>0, <1>2, SortedSetPrio DEF task_init, task_set_prio, ChangePrio
<1>3. ASSUME init_task_f PROVE SortedByPrio(ready, prio)'
  <2>1. state[InitTask] = "running"
    BY <1>0, <1>3, CallerRunning, KernelAssumption DEF init_task_f
  <2> QED
    BY <1>0, <1>3, <2>1, SortedSetPrio, KernelAssumption
       DEF init_task_f, ChangePrio
<1>4. ASSUME NEW u \in Task,
             ready' = list_enqueue(ready, prio, u), UNCHANGED prio
      PROVE  SortedByPrio(ready, prio)'
  <2>1. SortedByPrio(list_enqueue(ready, prio, u), prio)
    BY <1>0, EnqueueSorted DEF TypeOK
  <2> QED
    BY <1>4, <2>1
<1>5. ASSUME NEW u \in Task, NEW S \in SUBSET SignalNumber, Send(u, S)
      PROVE  SortedByPrio(ready, prio)'
  BY <1>1, <1>4, <1>5 DEF Send
<1>6. ASSUME PendSV_Handler_user PROVE SortedByPrio(ready, prio)'
  <2>1. ReadyWithOld \in Seq(Task) /\ SortedByPrio(ReadyWithOld, prio)
    BY <1>0, EnqueueMembers, EnqueueSorted DEF ReadyWithOld, TypeOK
  <2>2. SortedByPrio(Tail(ReadyWithOld), prio)
    BY <1>6, <2>1, RemHeadMembers DEF PendSV_Handler_user
  <2>3. ready' = Tail(ReadyWithOld) /\ UNCHANGED prio
    BY <1>6, Zenon DEF PendSV_Handler_user
  <2> QED
    BY <2>2, <2>3, Zenon
<1>7. ASSUME NEW t \in Task, NEW u \in Task, task_schedule(t, u)
      PROVE  SortedByPrio(ready, prio)'
  BY <1>4, <1>7 DEF task_schedule
<1>8. ASSUME NEW t \in Task,
             \/ disable(t) \/ enable(t) \/ user_halt(t) \/ task_schedule_end(t)
             \/ signal_wait_reschedule(t) \/ signal_wait_resume(t)
      PROVE  SortedByPrio(ready, prio)'
  BY <1>1, <1>8 DEF disable, enable, user_halt, task_schedule_end,
                    signal_wait_reschedule, signal_wait_resume
<1>9. ASSUME NEW t \in Task, NEW S,
             \/ signal_allocate(t, S) \/ signal_free(t, S)
             \/ signal_wait_take(t, S) \/ signal_wait_block(t, S)
      PROVE  SortedByPrio(ready, prio)'
  BY <1>1, <1>9 DEF signal_allocate, signal_free, signal_wait_take,
                    signal_wait_block
<1>10. ASSUME SysTick_Handler \/ PendSV_Handler
       PROVE  SortedByPrio(ready, prio)'
  BY <1>1, <1>10 DEF SysTick_Handler, PendSV_Handler
<1>11. CASE UNCHANGED vars
  BY <1>1, <1>11 DEF vars
<1> QED
  BY <1>2, <1>3, <1>5, <1>6, <1>7, <1>8, <1>9, <1>10, <1>11
     DEF Next, Call, InKernel, Interrupt, Switch, signal_send, InterruptSend

\* Every step keeps the priority invariant.
LEMMA PriorityStep ==
  ASSUME "ready" \notin SetPrioStates
  PROVE  Inv /\ PrioInv /\ [Next]_vars => PriorityInvariant'
<1> SUFFICES ASSUME Inv, PrioInv, [Next]_vars
             PROVE  PriorityInvariant'
  OBVIOUS
<1>0. /\ TypeOK /\ QueuesConsistent /\ LocationInv
      /\ PriorityInvariant /\ SortedByPrio(ready, prio)
  BY DEF Inv, PrioInv
<1> USE DEF globals, taskVars, sigVars, irqVars, localVars
\* A step that makes no task ready and no priority different.
<1>1. ASSUME UNCHANGED <<running, handler, prio>>,
             pendsv => pendsv',
             pc[running] = "sched" => pc'[running] = "sched",
             \A x \in Task : state'[x] = "ready" => state[x] = "ready"
      PROVE  PriorityInvariant'
  BY <1>0, <1>1 DEF PriorityInvariant
<1>2. ASSUME NEW t \in Task, disable(t) \/ enable(t) PROVE PriorityInvariant'
  BY <1>1, <1>2 DEF disable, enable
<1>3. ASSUME NEW t \in Task, user_halt(t) PROVE PriorityInvariant'
  BY <1>1, <1>3 DEF user_halt, At, Goto
\* A switch is pending.
<1>4. ASSUME pendsv' PROVE PriorityInvariant'
  BY <1>4 DEF PriorityInvariant
<1>5. ASSUME NEW t \in Task, NEW u \in Task, NEW p \in TaskPrio,
             task_init(t, u, p)
      PROVE  PriorityInvariant'
  <2>1. /\ prio' = [prio EXCEPT ![u] = p]
        /\ state' = [state EXCEPT ![u] = "initialized"]
        /\ state[u] = "invalid"
        /\ UNCHANGED <<running, handler, pendsv, pc>>
    BY <1>5 DEF task_init
  <2>2. u # running
    BY <1>0, <2>1 DEF QueuesConsistent
  <2> QED
    BY <1>0, <2>1, <2>2 DEF PriorityInvariant, TypeOK
<1>6. ASSUME NEW t \in Task, NEW u \in Task, NEW p \in TaskPrio,
             task_set_prio(t, u, p)
      PROVE  PriorityInvariant'
  <2>1. CASE u = running
    BY <1>4, <1>6, <2>1 DEF task_set_prio, ChangePrio, SetPrioReschedules
  <2>2. CASE u # running
    <3>1. /\ prio' = [prio EXCEPT ![u] = p]
          /\ state[u] # "ready"
          /\ UNCHANGED <<running, handler, pc, state>>
          /\ pendsv => pendsv'
      BY <1>6 DEF task_set_prio, ChangePrio
    <3> QED
      BY <1>0, <2>2, <3>1 DEF PriorityInvariant, TypeOK
  <2> QED
    BY <2>1, <2>2
<1>7. ASSUME NEW t \in Task, NEW u \in Task, task_schedule(t, u)
      PROVE  PriorityInvariant'
  <2>1. pc'[running'] = "sched"
    BY <1>0, <1>7 DEF task_schedule, At, Goto, TypeOK
  <2> QED
    BY <2>1 DEF PriorityInvariant
<1>8. ASSUME NEW t \in Task, task_schedule_end(t) \/ signal_wait_reschedule(t)
      PROVE  PriorityInvariant'
  BY <1>4, <1>8 DEF task_schedule_end, signal_wait_reschedule
<1>9. ASSUME init_task_f PROVE PriorityInvariant'
  BY <1>4, <1>9 DEF init_task_f, At, ChangePrio, SetPrioReschedules
<1>10. ASSUME NEW t \in Task, NEW S,
              signal_allocate(t, S) \/ signal_free(t, S) \/ signal_wait_take(t, S)
       PROVE  PriorityInvariant'
  BY <1>1, <1>10 DEF signal_allocate, signal_free, signal_wait_take
<1>11. ASSUME NEW u \in Task, NEW S \in SUBSET SignalNumber, Send(u, S)
       PROVE  PriorityInvariant'
  <2>1. CASE Wakes(u, S)
    <3>1. /\ state' = [state EXCEPT ![u] = "ready"]
          /\ UNCHANGED <<running, handler, pc, prio>>
          /\ pendsv => pendsv'
          /\ prio[running] < prio[u] => pendsv'
      BY <1>11, <2>1 DEF Send, Preempts
    <3> QED
      BY <1>0, <3>1 DEF PriorityInvariant, TypeOK
  <2>2. CASE ~ Wakes(u, S)
    BY <1>1, <1>11, <2>2 DEF Send
  <2> QED
    BY <2>1, <2>2
<1>12. ASSUME NEW t \in Task, NEW S, signal_wait_block(t, S)
       PROVE  PriorityInvariant'
  BY <1>0, <1>1, <1>12 DEF signal_wait_block, At, Block, TypeOK
<1>13. ASSUME NEW t \in Task, signal_wait_resume(t) PROVE PriorityInvariant'
  <2>1. pc[running] # "sched" /\ UNCHANGED <<running, handler, prio, pendsv>>
    BY <1>13 DEF signal_wait_resume, At
  <2>2. \A x \in Task : state'[x] = "ready" => state[x] = "ready"
    BY <1>0, <1>13 DEF signal_wait_resume, Block, TypeOK
  <2> QED
    BY <1>1, <2>1, <2>2
<1>14. ASSUME SysTick_Handler PROVE PriorityInvariant'
  BY <1>1, <1>14 DEF SysTick_Handler
<1>15. ASSUME PendSV_Handler PROVE PriorityInvariant'
  BY <1>15 DEF PendSV_Handler, PriorityInvariant
\* The switch takes the head of a list in priority order.
<1>16. ASSUME PendSV_Handler_user PROVE PriorityInvariant'
  <2>1. /\ ReadyWithOld \in Seq(Task)
        /\ SortedByPrio(ReadyWithOld, prio)
        /\ ReadyWithOld # << >>
    BY <1>0, <1>16, EnqueueMembers, EnqueueSorted
       DEF ReadyWithOld, TypeOK, PendSV_Handler_user
  <2>2. Head(ReadyWithOld) \in Task
    BY <2>1, RemHeadMembers
  <2>3. \A x : OnList(ReadyWithOld, x) => prio[x] <= prio[Head(ReadyWithOld)]
    BY <1>0, <2>1, RemHeadMembers DEF TypeOK
  <2>4. \A x \in Task : state[x] = "ready" \/ state[x] = "running"
                         => OnList(ReadyWithOld, x)
    BY <1>0, EnqueueMembers DEF ReadyWithOld, QueuesConsistent, TypeOK
  <2> DEFINE next == Head(ReadyWithOld)
             old == [state EXCEPT ![running] = IF @ = "running" THEN "ready"
                                                                ELSE @]
  <2>5. /\ state' = [old EXCEPT ![next] = "running"]
        /\ running' = next /\ UNCHANGED prio
    BY <1>16, Zenon DEF PendSV_Handler_user
  <2> HIDE DEF next
  <2>6. next \in Task
    BY <2>2 DEF next
  <2>7. \A x \in Task : state'[x] = "ready" => state[x] \in {"ready", "running"}
    BY <1>0, <2>5, <2>6 DEF TypeOK
  <2>8. \A x \in Task : state'[x] = "ready" => prio[x] <= prio[next]
    BY <2>3, <2>4, <2>7 DEF next
  <2> QED
    BY <2>5, <2>8 DEF PriorityInvariant
<1>17. CASE UNCHANGED vars
  BY <1>1, <1>17 DEF vars
<1> QED
  BY <1>2, <1>3, <1>5, <1>6, <1>7, <1>8, <1>9, <1>10, <1>11, <1>12, <1>13,
     <1>14, <1>15, <1>16, <1>17
     DEF Next, Call, InKernel, Interrupt, Switch, signal_send, InterruptSend

\* README.md's priority invariant: the running task has a priority at least as
\* high as every ready task, unless a switch is on its way.
THEOREM PriorityCorrect ==
  ASSUME "ready" \notin SetPrioStates
  PROVE  Spec => []PriorityInvariant
<1>1. Init => PrioInv
  BY DEF Init, PrioInv, SortedByPrio, PriorityInvariant
<1>2. Inv /\ PrioInv /\ [Next]_vars => PrioInv'
  BY SortedStep, PriorityStep DEF PrioInv
<1>3. PrioInv => PriorityInvariant
  BY DEF PrioInv
<1> QED
  BY <1>1, <1>2, <1>3, InvCorrect, PTL DEF Spec

\* list_enqueue overtakes only nodes of a lower priority.
LEMMA EnqueueAhead ==
  ASSUME NEW T, NEW q \in Seq(T), NEW pr \in [T -> Int], NEW n \in T,
         SortedByPrio(q, pr), NEW u, NEW t, t # n,
         Ahead(list_enqueue(q, pr, n), u, t)
  PROVE  Ahead(q, u, t) \/ pr[u] > pr[t]
<1> DEFINE e == list_enqueue(q, pr, n)
<1>0. /\ Len(e) = Len(q) + 1
      /\ \E i \in 1 .. Len(q) + 1 :
           IsEnqueuePos(q, pr, pr[n], i) /\ InsertedAt(e, q, n, i)
  BY EnqueueElements
<1>1. PICK j \in 1 .. Len(e), k \in 1 .. Len(e) : j < k /\ e[j] = u /\ e[k] = t
  BY DEF Ahead
<1> HIDE DEF e
<1>2. PICK i \in 1 .. Len(q) + 1 :
        /\ IsEnqueuePos(q, pr, pr[n], i)
        /\ \A l \in 1 .. i - 1 : e[l] = q[l]
        /\ e[i] = n
        /\ \A l \in i + 1 .. Len(q) + 1 : e[l] = q[l - 1]
  BY <1>0 DEF InsertedAt
<1>3. Len(q) \in Nat /\ \A l \in 1 .. Len(q) : q[l] \in T
  BY LenProperties, ElementOfSeq
<1>4. CASE k < i
  <2>1. /\ j \in 1 .. i - 1 /\ k \in 1 .. i - 1
        /\ j \in 1 .. Len(q) /\ k \in 1 .. Len(q)
    BY <1>0, <1>1, <1>3, <1>4, SMTT(30)
  <2> QED
    BY <1>1, <1>2, <2>1 DEF Ahead
<1>5. CASE k > i /\ j < i
  <2>1. /\ j \in 1 .. i - 1 /\ k \in i + 1 .. Len(q) + 1
        /\ j \in 1 .. Len(q) /\ k - 1 \in 1 .. Len(q) /\ j < k - 1
    BY <1>0, <1>1, <1>3, <1>5
  <2>2. q[j] = u /\ q[k - 1] = t
    BY <1>1, <1>2, <2>1
  <2> QED
    BY <2>1, <2>2 DEF Ahead
<1>6. CASE k > i /\ j = i
  <2>1. k \in i + 1 .. Len(q) + 1 /\ k - 1 \in 1 .. Len(q) /\ i <= k - 1 /\ i \in 1 .. Len(q)
    BY <1>0, <1>1, <1>3, <1>6
  <2>2. u = n /\ q[k - 1] = t
    BY <1>1, <1>2, <1>6, <2>1
  <2>3. pr[n] > pr[q[i]]
    BY <1>2, <2>1 DEF IsEnqueuePos, GoesBefore
  <2>4. i < k - 1 => pr[q[i]] >= pr[q[k - 1]]
    BY <2>1 DEF SortedByPrio
  <2>5. pr[n] \in Int /\ pr[q[i]] \in Int /\ pr[q[k - 1]] \in Int
    BY <1>3, <2>1
  <2>6. pr[q[i]] >= pr[q[k - 1]]
    BY <2>1, <2>4, <2>5
  <2> QED
    BY <2>2, <2>3, <2>5, <2>6
<1>7. CASE k > i /\ j > i
  <2>1. /\ j \in i + 1 .. Len(q) + 1 /\ k \in i + 1 .. Len(q) + 1
        /\ j - 1 \in 1 .. Len(q) /\ k - 1 \in 1 .. Len(q) /\ j - 1 < k - 1
    BY <1>0, <1>1, <1>3, <1>7
  <2>2. q[j - 1] = u /\ q[k - 1] = t
    BY <1>1, <1>2, <2>1
  <2> QED
    BY <2>1, <2>2 DEF Ahead
<1>8. k # i
  BY <1>1, <1>2
<1> QED
  BY <1>0, <1>1, <1>3, <1>4, <1>5, <1>6, <1>7, <1>8

\* Taking off the head changes nothing for those behind it.
LEMMA RemHeadAhead ==
  ASSUME NEW T, NEW q \in Seq(T), q # << >>, NEW u, NEW t,
         Ahead(Tail(q), u, t) \/ (u = Head(q) /\ OnList(Tail(q), t))
  PROVE  Ahead(q, u, t)
<1>1. /\ Len(q) \in Nat /\ Len(q) >= 1 /\ Head(q) = q[1]
      /\ Len(Tail(q)) = Len(q) - 1
      /\ \A i \in 1 .. Len(q) - 1 : Tail(q)[i] = q[i + 1]
  BY LenProperties, HeadTailProperties
<1>2. CASE Ahead(Tail(q), u, t)
  <2>1. PICK i, j \in 1 .. Len(q) - 1 : i < j /\ Tail(q)[i] = u /\ Tail(q)[j] = t
    BY <1>1, <1>2 DEF Ahead
  <2>2. /\ i + 1 \in 1 .. Len(q) /\ j + 1 \in 1 .. Len(q) /\ i + 1 < j + 1
        /\ q[i + 1] = u /\ q[j + 1] = t
    BY <1>1, <2>1
  <2> QED
    BY <2>2 DEF Ahead
<1>3. CASE u = Head(q) /\ OnList(Tail(q), t)
  <2>1. PICK j \in 1 .. Len(q) - 1 : Tail(q)[j] = t
    BY <1>1, <1>3 DEF OnList
  <2>2. /\ 1 \in 1 .. Len(q) /\ j + 1 \in 1 .. Len(q) /\ 1 < j + 1
        /\ q[1] = u /\ q[j + 1] = t
    BY <1>1, <1>3, <2>1
  <2> QED
    BY <2>2 DEF Ahead
<1> QED
  BY <1>2, <1>3

\* First come, first served within a priority: no task of the same or a lower
\* priority gets ahead of a ready task, or gets the processor in its place.
THEOREM NobodyOvertakesCorrect ==
  ASSUME "ready" \notin SetPrioStates
  PROVE  Spec => NobodyOvertakes
<1> DEFINE Keeps ==
      \A t, u \in Task :
        /\ OnList(ready, t) /\ OnList(ready', t)
        /\ Ahead(ready', u, t) \/ (handler /\ ~ handler' /\ u = running')
        => Ahead(ready, u, t) \/ prio[u] > prio[t]
<1>1. Inv /\ SortedByPrio(ready, prio) /\ [Next]_vars => [Keeps]_vars
  <2> SUFFICES ASSUME Inv, SortedByPrio(ready, prio), Next
               PROVE  Keeps
    OBVIOUS
  <2>0. TypeOK /\ QueuesConsistent
    BY DEF Inv
  <2> USE DEF globals
  <2>1. ASSUME UNCHANGED ready, handler' = handler \/ handler'
        PROVE  Keeps
    BY <2>1
  <2>2. ASSUME NEW n \in Task, state[n] # "ready",
               ready' = list_enqueue(ready, prio, n), UNCHANGED handler
        PROVE  Keeps
    <3> SUFFICES ASSUME NEW t \in Task, NEW u \in Task, OnList(ready, t),
                        Ahead(list_enqueue(ready, prio, n), u, t)
                 PROVE  Ahead(ready, u, t) \/ prio[u] > prio[t]
      BY <2>2
    <3>1. t # n
      BY <2>0, <2>2 DEF QueuesConsistent
    <3> QED
      BY <2>0, <3>1, EnqueueAhead DEF TypeOK
  <2>3. ASSUME NEW n \in Task, NEW S \in SUBSET SignalNumber, Send(n, S)
        PROVE  Keeps
    <3>1. CASE Wakes(n, S)
      BY <2>2, <2>3, <3>1 DEF Send, Wakes
    <3>2. CASE ~ Wakes(n, S)
      BY <2>1, <2>3, <3>2 DEF Send
    <3> QED
      BY <3>1, <3>2
  <2>4. ASSUME NEW t \in Task, NEW n \in Task, task_schedule(t, n)
        PROVE  Keeps
    BY <2>2, <2>4 DEF task_schedule
  <2>5. CASE PendSV_Handler_user
    <3>1. /\ ReadyWithOld # << >> /\ ready' = Tail(ReadyWithOld)
          /\ running' = Head(ReadyWithOld)
      BY <2>5, Zenon DEF PendSV_Handler_user
    <3>2. ReadyWithOld \in Seq(Task)
      BY <2>0, EnqueueMembers DEF ReadyWithOld, TypeOK
    <3> SUFFICES ASSUME NEW t \in Task, NEW u \in Task, OnList(ready, t), OnList(ready', t),
                        Ahead(ready', u, t) \/ u = running'
                 PROVE  Ahead(ready, u, t) \/ prio[u] > prio[t]
      OBVIOUS
    <3>3. Ahead(ReadyWithOld, u, t)
      BY <3>1, <3>2, RemHeadAhead
    <3>4. CASE state[running] = "running"
      <4>1. t # running
        BY <2>0, <3>4 DEF QueuesConsistent
      <4>2. Ahead(list_enqueue(ready, prio, running), u, t)
        BY <3>3, <3>4 DEF ReadyWithOld
      <4> QED
        BY <2>0, <4>1, <4>2, EnqueueAhead DEF TypeOK
    <3> QED
      BY <3>3, <3>4 DEF ReadyWithOld
  <2>6. ASSUME NEW t \in Task,
               \/ disable(t) \/ enable(t) \/ user_halt(t) \/ task_schedule_end(t)
               \/ signal_wait_reschedule(t) \/ signal_wait_resume(t)
        PROVE  Keeps
    BY <2>1, <2>6 DEF disable, enable, user_halt, task_schedule_end,
                      signal_wait_reschedule, signal_wait_resume
  <2>7. ASSUME NEW t \in Task, NEW S,
               \/ signal_allocate(t, S) \/ signal_free(t, S)
               \/ signal_wait_take(t, S) \/ signal_wait_block(t, S)
        PROVE  Keeps
    BY <2>1, <2>7 DEF signal_allocate, signal_free, signal_wait_take, signal_wait_block
  <2>8. ASSUME NEW t \in Task, NEW n \in Task, NEW p \in TaskPrio,
               task_init(t, n, p) \/ task_set_prio(t, n, p)
        PROVE  Keeps
    BY <2>1, <2>8 DEF task_init, task_set_prio, ChangePrio
  <2>9. CASE init_task_f \/ SysTick_Handler \/ PendSV_Handler
    BY <2>1, <2>9 DEF init_task_f, ChangePrio, SysTick_Handler, PendSV_Handler
  <2> QED
    BY <2>3, <2>4, <2>5, <2>6, <2>7, <2>8, <2>9
       DEF Next, Call, InKernel, Interrupt, Switch, signal_send, InterruptSend
<1>2. Init => SortedByPrio(ready, prio)
  BY DEF Init, SortedByPrio
<1>3. Inv /\ SortedByPrio(ready, prio) /\ [Next]_vars => SortedByPrio(ready, prio)'
  BY SortedStep
<1> QED
  BY <1>1, <1>2, <1>3, InvCorrect, PTL DEF Spec, NobodyOvertakes
=============================================================================
