---------------------------- MODULE SysSemProofs ----------------------------
(***************************************************************************)
(* The semaphore and the waits of the lwIP port on it: what TLC checks for *)
(* a few tasks holds for every finite set of tasks, every initial count    *)
(* and every number of signals.  A wait that gives up leaves its request   *)
(* on the queue (the run of MCSysSemTimeout shows what follows), so all    *)
(* but SysFrames is proved for waits that do not: GiveUp is FALSE.         *)
(***************************************************************************)
EXTENDS SysSem, ListOpsProofs

-----------------------------------------------------------------------------
(* Counting units. *)

\* UnitsHeld is a finite set, so its cardinality is a number.
LEMMA UnitsHeldFinite ==
  ASSUME NEW h
  PROVE  IsFiniteSet(UnitsHeld(h)) /\ Cardinality(UnitsHeld(h)) \in Nat
<1>1. IsFiniteSet(1 .. MaxHeld)
  BY FS_Interval, SemaphoreAssumption
<1>2. IsFiniteSet(Task \X (1 .. MaxHeld))
  BY <1>1, FS_Product, SemaphoreAssumption
<1>3. UnitsHeld(h) \in SUBSET (Task \X (1 .. MaxHeld))
  BY DEF UnitsHeld
<1> QED
  BY <1>2, <1>3, FS_Subset, FS_CardinalityType

\* A task that gets a unit puts one element into UnitsHeld.
LEMMA OneMoreHeld ==
  ASSUME NEW h \in [Task -> Nat], NEW t \in Task, h[t] < MaxHeld
  PROVE  Cardinality(UnitsHeld([h EXCEPT ![t] = @ + 1]))
           = Cardinality(UnitsHeld(h)) + 1
<1> DEFINE g == [h EXCEPT ![t] = @ + 1]
           new == <<t, h[t] + 1>>
<1>1. new \in Task \X (1 .. MaxHeld) /\ new[1] = t /\ new[2] = h[t] + 1
  BY SemaphoreAssumption
<1>2. new \notin UnitsHeld(h)
  BY <1>1 DEF UnitsHeld
<1>3. UnitsHeld(g) = UnitsHeld(h) \cup {new}
  <2>1. ASSUME NEW u \in Task \X (1 .. MaxHeld)
        PROVE  u[2] <= g[u[1]] <=> u[2] <= h[u[1]] \/ u = new
    <3>1. u = <<u[1], u[2]>> /\ u[1] \in Task /\ u[2] \in 1 .. MaxHeld
      OBVIOUS
    <3>2. CASE u[1] = t
      <4>1. g[t] = h[t] + 1
        OBVIOUS
      <4>2. u = new <=> u[2] = h[t] + 1
        BY <3>1, <3>2
      <4> QED
        BY <3>1, <3>2, <4>1, <4>2, SemaphoreAssumption
    <3>3. CASE u[1] # t
      BY <3>1, <3>3, <1>1
    <3> QED
      BY <3>2, <3>3
  <2> HIDE DEF g, new
  <2> QED
    BY <2>1, <1>1 DEF UnitsHeld
<1> QED
  BY <1>2, <1>3, FS_AddElement, UnitsHeldFinite

\* A task that gives a unit back takes one element out of UnitsHeld.
LEMMA OneLessHeld ==
  ASSUME NEW h \in [Task -> Nat], NEW t \in Task, h[t] > 0, h[t] <= MaxHeld
  PROVE  Cardinality(UnitsHeld([h EXCEPT ![t] = @ - 1]))
           = Cardinality(UnitsHeld(h)) - 1
<1> DEFINE g == [h EXCEPT ![t] = @ - 1]
<1>1. g \in [Task -> Nat] /\ g[t] = h[t] - 1 /\ g[t] < MaxHeld
  BY SemaphoreAssumption
<1>2. h = [g EXCEPT ![t] = @ + 1]
  <2> DEFINE f == [g EXCEPT ![t] = @ + 1]
  <2>1. f \in [Task -> Nat]
    BY <1>1
  <2>2. \A u \in Task : f[u] = h[u]
    BY <1>1
  <2>3. f = h
    <3> HIDE DEF f
    <3> QED
      BY <2>1, <2>2
  <2> QED
    BY <2>3
<1>3. Cardinality(UnitsHeld(h)) = Cardinality(UnitsHeld(g)) + 1
  <2> HIDE DEF g
  <2> QED
    BY <1>1, <1>2, OneMoreHeld
<1> QED
  BY <1>3, UnitsHeldFinite

\* A queue without duplicates is no longer than there are tasks.
LEMMA QueueBound ==
  ASSUME NEW q \in Seq(Task), NoDuplicates(q)
  PROVE  Len(q) <= Cardinality(Task)
<1>1. Len(q) \in Nat /\ q \in [1 .. Len(q) -> Task]
  BY LenProperties
<1>2. q \in Injection(1 .. Len(q), Task)
  BY <1>1 DEF NoDuplicates, Injection, IsInjective
<1>3. Cardinality(1 .. Len(q)) = Len(q)
  BY <1>1, FS_Interval
<1> QED
  BY <1>2, <1>3, FS_Injection, SemaphoreAssumption

-----------------------------------------------------------------------------
(* The inductive invariant. *)

\* What SemTypeOK and AlarmTypeOK say, but for the range of the count, which
\* follows from the accounting.
TypeInv ==
  /\ SigTypeOK
  /\ AlarmTypeOK
  /\ count \in Int
  /\ req_queue \in Seq(Task)
  /\ req_signal \in [Task -> SUBSET SignalNumber]
  /\ pc \in [Task -> Location]
  /\ held \in [Task -> Nat]
  /\ posted \in 0 .. MaxPosted
  /\ granted \subseteq Task

\* What SemHandover says of task t.
HandoverInv(t) ==
  /\ t \in granted <=> InWait(t) /\ req_signal[t] \subseteq sig_recvd[t]
  /\ InWait(t) <=> t \in granted \/ OnList(req_queue, t)
  /\ t \in granted => ~ OnList(req_queue, t)
  /\ SIGF_SINGLE \subseteq sig_recvd[t] => t \in granted

\* What SysFrames says of task t.
FrameInv(t) ==
  /\ t \in armed => pc[t] \in {"s_wait", "s_asleep", "s_end"}
  /\ alarm_signal[t] # {} => pc[t] \in {"s_timer", "s_wait", "s_asleep", "s_end",
                                        "s_stopped"}
  /\ pc[t] \in SysLocation => req_signal[t] \cap alarm_signal[t] = {}
  /\ sig_alloc[t] \ SIGF_SINGLE =
       IF pc[t] \in SysLocation THEN req_signal[t] \cup alarm_signal[t] ELSE {}

\* What those two need to be preserved: which signals task t waits for and
\* which one its request carries, that the signal of a request is not there
\* before the request is, and that there is room for the unit it asked for.
WaitInv(t) ==
  /\ SIGF_SINGLE \subseteq sig_alloc[t]
  /\ t \in armed => alarm_signal[t] # {}
  /\ status[t] \in {"blocked", "woken"} <=> pc[t] \in {"asleep", "s_asleep"}
  /\ status[t] = "none" => pc[t] = "out"
  /\ pc[t] \in {"added", "asleep"} => req_signal[t] = SIGF_SINGLE
  /\ pc[t] \in SysLocation =>
       \E b \in SignalNumber \ SIGF_SINGLE : req_signal[t] = {b}
  /\ pc[t] = "asleep" => sig_wait[t] = SIGF_SINGLE
  /\ pc[t] = "s_asleep" => sig_wait[t] = req_signal[t] \cup alarm_signal[t]
  /\ pc[t] = "s_request" => req_signal[t] \cap sig_recvd[t] = {}
  /\ SIGF_SINGLE \subseteq sig_recvd[t] => pc[t] \in {"added", "asleep"}
  /\ held[t] <= MaxHeld
  /\ pc[t] = "s_request" \/ InWait(t) => held[t] < MaxHeld

\* All that holds of each task.
TaskInv == \A t \in Task : HandoverInv(t) /\ FrameInv(t) /\ WaitInv(t)

\* The inductive invariant.
SysInv ==
  /\ TypeInv
  /\ TaskInv
  /\ NoDuplicates(req_queue)
  /\ SemAccounting
  /\ SemExclusion

\* The invariant holds when sem_init() has run.
LEMMA SysInitInv == SysSemInit => SysInv
<1> SUFFICES ASSUME SysSemInit
             PROVE  SysInv
  OBVIOUS
<1> USE DEF SysSemInit, SemInit, SigInit, AlarmInit
<1>1. 0 \in SignalNumber
  BY SignalsAssumption DEF SignalNumber
<1>2. TypeInv
  BY <1>1, SemaphoreAssumption
     DEF TypeInv, SigTypeOK, AlarmTypeOK, Location, SIGF_SINGLE
<1>3. ASSUME NEW t \in Task
      PROVE  HandoverInv(t) /\ FrameInv(t) /\ WaitInv(t)
  <2>1. /\ pc[t] = "out" /\ sig_recvd[t] = {} /\ sig_alloc[t] = {0} /\ held[t] = 0
        /\ t \notin granted /\ t \notin armed /\ alarm_signal[t] = {}
        /\ status[t] \in {"active", "none"}
    BY DEF SIGF_SINGLE
  <2>2. ~ OnList(req_queue, t)
    BY DEF OnList
  <2>3. HandoverInv(t)
    BY <2>1, <2>2 DEF HandoverInv, InWait, SIGF_SINGLE
  <2>4. FrameInv(t)
    BY <2>1 DEF FrameInv, SysLocation, SIGF_SINGLE
  <2>5. WaitInv(t)
    BY <2>1, SemaphoreAssumption DEF WaitInv, InWait, SysLocation, SIGF_SINGLE
  <2> QED
    BY <2>3, <2>4, <2>5
<1>4. NoDuplicates(req_queue)
  BY DEF NoDuplicates
<1>5. UnitsHeld(held) = {}
  BY SemaphoreAssumption DEF UnitsHeld
<1>6. Cardinality(UnitsHeld(held)) = 0 /\ Cardinality(granted) = 0
  BY <1>5, FS_EmptySet
<1>7. UnitsOut = 0
  BY <1>6 DEF UnitsOut
<1>8. SemAccounting /\ SemExclusion
  BY <1>7, SemaphoreAssumption DEF SemAccounting, SemExclusion
<1> QED
  BY <1>2, <1>3, <1>4, <1>8 DEF SysInv, TaskInv

\* Both sets of units are finite.
LEMMA UnitsOutType ==
  ASSUME TypeInv
  PROVE  /\ IsFiniteSet(granted) /\ Cardinality(granted) \in Nat
         /\ Cardinality(UnitsHeld(held)) \in Nat
         /\ UnitsOut \in Nat
<1>1. IsFiniteSet(granted) /\ Cardinality(granted) \in Nat
  BY FS_Subset, FS_CardinalityType, SemaphoreAssumption DEF TypeInv
<1> QED
  BY <1>1, UnitsHeldFinite DEF UnitsOut

\* sem_add_request() in its two uses: t makes a request that is queued, or has
\* the unit at once.
LEMMA AddRequest ==
  ASSUME SysInv, NEW t \in Task, NEW wait \in Location, NEW got \in Location,
         sem_add_request(t, wait, got),
         ~ OnList(req_queue, t), held[t] < MaxHeld
  PROVE  /\ req_queue' \in Seq(Task)
         /\ NoDuplicates(req_queue')
         /\ pc' \in [Task -> Location] /\ held' \in [Task -> Nat]
         /\ \/ /\ \A u \in Task : OnList(req_queue', u) <=> u = t \/ OnList(req_queue, u)
               /\ held' = held
               /\ pc' = [pc EXCEPT ![t] = wait]
            \/ /\ req_queue' = req_queue
               /\ held' = [held EXCEPT ![t] = @ + 1]
               /\ pc' = [pc EXCEPT ![t] = got]
         /\ count' \in Int
         /\ SemAccounting'
         /\ SemExclusion'
<1> USE DEF sem_add_request, Goto, Lower, MustQueue
<1>1. /\ TypeInv /\ NoDuplicates(req_queue)
      /\ req_queue \in Seq(Task) /\ Len(req_queue) \in Nat
      /\ count \in Int /\ posted \in Nat /\ InitCount \in Nat /\ UnitsOut \in Nat
      /\ pc \in [Task -> Location] /\ held \in [Task -> Nat]
  BY LenProperties, UnitsOutType, SemaphoreAssumption DEF SysInv, TypeInv
<1>2. CASE /\ count' < 0
           /\ req_queue' = Append(req_queue, t)
           /\ pc' = [pc EXCEPT ![t] = wait]
           /\ UNCHANGED held
  <2>1. Len(req_queue') = Len(req_queue) + 1
    BY <1>1, <1>2, AppendProperties
  <2>2. UnitsOut' = UnitsOut
    BY <1>2 DEF UnitsOut
  <2> QED
    BY <1>1, <1>2, <2>1, <2>2, AddTailMembers DEF SysInv, SemAccounting, SemExclusion
<1>3. CASE /\ ~ (count' < 0)
           /\ held' = [held EXCEPT ![t] = @ + 1]
           /\ pc' = [pc EXCEPT ![t] = got]
           /\ UNCHANGED req_queue
  <2>1. Cardinality(UnitsHeld(held')) = Cardinality(UnitsHeld(held)) + 1
    BY <1>1, <1>3, OneMoreHeld DEF TypeInv
  <2>2. UnitsOut' = UnitsOut + 1
    BY <1>1, <2>1, UnitsOutType DEF UnitsOut
  <2> QED
    BY <1>1, <1>3, <2>2 DEF SysInv, SemAccounting, SemExclusion
<1> QED
  BY <1>2, <1>3, <1>1

\* A waiter takes its unit: it moves from granted to held.
LEMMA TakeUnit ==
  ASSUME SysInv, NEW t \in Task, NEW loc, GetUnit(t, loc),
         t \in granted, held[t] < MaxHeld
  PROVE  SemAccounting' /\ SemExclusion'
<1>1. TypeInv /\ UnitsOut \in Nat
  BY UnitsOutType DEF SysInv
<1>2. Cardinality(UnitsHeld(held')) = Cardinality(UnitsHeld(held)) + 1
  BY <1>1, OneMoreHeld DEF TypeInv, GetUnit
<1>3. Cardinality(granted') = Cardinality(granted) - 1
  BY <1>1, FS_RemoveElement, UnitsOutType DEF GetUnit
<1>4. UnitsOut' = UnitsOut
  BY <1>1, <1>2, <1>3, UnitsOutType DEF UnitsOut
<1> QED
  BY <1>1, <1>4 DEF SysInv, SemAccounting, SemExclusion, GetUnit

\* The arithmetic of sem_signal(): back is what the caller has given back (1)
\* or posted (0).
LEMMA SignalUnit ==
  ASSUME SysInv, NEW t \in Task, NEW back \in {0, 1}, sem_signal(t),
         Cardinality(UnitsHeld(held')) = Cardinality(UnitsHeld(held)) - back,
         posted' = posted + (1 - back)
  PROVE  /\ count' \in Int
         /\ req_queue' \in Seq(Task) /\ NoDuplicates(req_queue') /\ granted' \subseteq Task
         /\ \/ UNCHANGED <<req_queue, granted, sigVars>>
            \/ \E h \in Task :
                 /\ OnList(req_queue, h)
                 /\ \A u \in Task : OnList(req_queue', u) <=> u # h /\ OnList(req_queue, u)
                 /\ granted' = granted \cup {h}
                 /\ SigSend(h, req_signal[h])
         /\ SemAccounting' /\ SemExclusion'
<1>1. /\ TypeInv /\ NoDuplicates(req_queue)
      /\ req_queue \in Seq(Task) /\ Len(req_queue) \in Nat
      /\ count \in Int /\ posted \in Nat /\ InitCount \in Nat /\ UnitsOut \in Nat
      /\ count' = count + 1
      /\ granted \subseteq Task
  BY LenProperties, UnitsOutType, SemaphoreAssumption DEF SysInv, TypeInv, sem_signal
<1>2. CASE ~ MustWake(count + 1) /\ UNCHANGED <<req_queue, granted, sigVars>>
  <2>1. UnitsOut' = UnitsOut - back
    BY <1>1, <1>2, UnitsOutType DEF UnitsOut
  <2>2. SemAccounting' /\ SemExclusion'
    BY <1>1, <1>2, <2>1 DEF SysInv, SemAccounting, SemExclusion
  <2> QED
    BY <1>1, <1>2, <2>2
<1>3. CASE /\ MustWake(count + 1)
           /\ sem_signal_asserts(t)
           /\ req_queue' = RestOfQueue
           /\ granted' = granted \cup {Head(req_queue)}
           /\ SigSend(Head(req_queue), req_signal[Head(req_queue)])
  <2> DEFINE h == Head(req_queue)
  <2>1. req_queue # << >> /\ req_queue' = Tail(req_queue)
    BY <1>3 DEF sem_signal_asserts, RestOfQueue
  <2>2. /\ h \in Task /\ OnList(req_queue, h)
        /\ req_queue' \in Seq(Task) /\ NoDuplicates(req_queue')
        /\ \A u \in Task : OnList(req_queue', u) <=> u # h /\ OnList(req_queue, u)
    BY <1>1, <2>1, RemHeadMembers
  <2>3. Len(req_queue') = Len(req_queue) - 1
    BY <1>1, <2>1, HeadTailProperties
  <2>4. h \notin granted
    BY <2>2 DEF SysInv, TaskInv, HandoverInv
  <2>5. Cardinality(granted') = Cardinality(granted) + 1
    BY <1>1, <1>3, <2>4, FS_AddElement, UnitsOutType
  <2>6. UnitsOut' = UnitsOut + 1 - back
    BY <1>1, <2>5, UnitsOutType DEF UnitsOut
  <2>7. SemAccounting' /\ SemExclusion'
    BY <1>1, <1>3, <2>3, <2>6 DEF SysInv, SemAccounting, SemExclusion, MustWake
  <2> QED
    BY <1>1, <1>3, <2>2, <2>7
<1> QED
  BY <1>2, <1>3 DEF sem_signal

\* Nothing that the invariant says of task u is changed.
Same(u) ==
  /\ status'[u] = status[u] /\ sig_alloc'[u] = sig_alloc[u]
  /\ sig_wait'[u] = sig_wait[u] /\ sig_recvd'[u] = sig_recvd[u]
  /\ req_signal'[u] = req_signal[u] /\ pc'[u] = pc[u] /\ held'[u] = held[u]
  /\ alarm_signal'[u] = alarm_signal[u]
  /\ u \in armed' <=> u \in armed
  /\ u \in granted' <=> u \in granted
  /\ OnList(req_queue', u) <=> OnList(req_queue, u)

\* What holds of a task keeps holding of it in a step that does not change it.
LEMMA SameTask ==
  ASSUME SysInv, NEW u \in Task, Same(u)
  PROVE  HandoverInv(u)' /\ FrameInv(u)' /\ WaitInv(u)'
<1>1. HandoverInv(u) /\ FrameInv(u) /\ WaitInv(u)
  BY DEF SysInv, TaskInv
<1>2. HandoverInv(u)'
  BY <1>1 DEF HandoverInv, Same, InWait
<1>3. FrameInv(u)'
  BY <1>1 DEF FrameInv, Same
<1>4. WaitInv(u)'
  BY <1>1 DEF WaitInv, Same, InWait
<1> QED
  BY <1>2, <1>3, <1>4

\* What holds of task t before it takes a step.
LEMMA TaskFacts ==
  ASSUME SysInv, NEW t \in Task
  PROVE  HandoverInv(t) /\ FrameInv(t) /\ WaitInv(t)
BY DEF SysInv, TaskInv

\* Start
LEMMA StartInv ==
  ASSUME SysInv, NEW t \in Task, Start(t), UNCHANGED alarmVars
  PROVE  SysInv'
<1> USE DEF Start, SigCreate, semVars, alarmVars
<1>1. TypeInv'
  <2>1. SIGF_SINGLE \subseteq SignalNumber
    BY SignalsAssumption DEF SignalNumber, SIGF_SINGLE
  <2> QED
    BY <2>1 DEF SysInv, TypeInv, SigTypeOK, AlarmTypeOK
<1>2. ASSUME NEW u \in Task
      PROVE  HandoverInv(u)' /\ FrameInv(u)' /\ WaitInv(u)'
  <2>1. CASE u # t
    <3>1. Same(u)
      BY <2>1 DEF SysInv, TypeInv, SigTypeOK, Same
    <3> QED
      BY <3>1, SameTask
  <2>2. CASE u = t
    <3>1. HandoverInv(t) /\ FrameInv(t) /\ WaitInv(t)
      BY TaskFacts
    <3>2. /\ status'[t] = "active" /\ sig_alloc'[t] = {0} /\ sig_recvd'[t] = {}
          /\ pc[t] = "out" /\ pc'[t] = "out"
      BY <3>1 DEF SysInv, TypeInv, SigTypeOK, WaitInv, SIGF_SINGLE
    <3>3. HandoverInv(t)'
      BY <3>1, <3>2 DEF HandoverInv, InWait, SIGF_SINGLE
    <3>4. FrameInv(t)'
      BY <3>1, <3>2 DEF FrameInv, SysLocation, SIGF_SINGLE
    <3>5. WaitInv(t)'
      BY <3>1, <3>2 DEF WaitInv, InWait, SysLocation, SIGF_SINGLE
    <3> QED
      BY <2>2, <3>3, <3>4, <3>5
  <2> QED
    BY <2>1, <2>2
<1>3. UnitsOut' = UnitsOut
  BY DEF UnitsOut
<1> QED
  BY <1>1, <1>2, <1>3 DEF SysInv, TaskInv, SemAccounting, SemExclusion

\* sem_wait
LEMMA SemWaitInv ==
  ASSUME SysInv, NEW t \in Task, sem_wait(t), UNCHANGED alarmVars
  PROVE  SysInv'
<1> USE DEF alarmVars, sigVars
<1>1. HandoverInv(t) /\ FrameInv(t) /\ WaitInv(t)
  BY TaskFacts
<1>2. /\ sem_add_request(t, "added", "out")
      /\ pc[t] = "out" /\ status[t] = "active" /\ held[t] < MaxHeld
      /\ ~ OnList(req_queue, t)
      /\ req_signal' = [req_signal EXCEPT ![t] = SIGF_SINGLE]
      /\ UNCHANGED <<sigVars, posted, granted>>
  BY DEF sem_wait, CanWait, CanCall, Queued, OnList, sem_add_request
<1>3. /\ req_queue' \in Seq(Task) /\ NoDuplicates(req_queue')
      /\ pc' \in [Task -> Location] /\ held' \in [Task -> Nat]
      /\ count' \in Int /\ SemAccounting' /\ SemExclusion'
      /\ \/ /\ \A u \in Task : OnList(req_queue', u) <=> u = t \/ OnList(req_queue, u)
            /\ held' = held
            /\ pc' = [pc EXCEPT ![t] = "added"]
         \/ /\ req_queue' = req_queue
            /\ held' = [held EXCEPT ![t] = @ + 1]
            /\ pc' = [pc EXCEPT ![t] = "out"]
  <2>1. "added" \in Location /\ "out" \in Location
    BY DEF Location
  <2> QED
    BY <1>2, <2>1, AddRequest
<1>4. TypeInv'
  <2>1. SIGF_SINGLE \subseteq SignalNumber
    BY SignalsAssumption DEF SignalNumber, SIGF_SINGLE
  <2> QED
    BY <1>2, <1>3, <2>1 DEF SysInv, TypeInv, SigTypeOK, AlarmTypeOK
<1>5. ASSUME NEW u \in Task
      PROVE  HandoverInv(u)' /\ FrameInv(u)' /\ WaitInv(u)'
  <2>1. CASE u # t
    <3>1. Same(u)
      BY <1>2, <1>3, <2>1 DEF SysInv, TypeInv, SigTypeOK, Same
    <3> QED
      BY <3>1, SameTask
  <2>2. CASE u = t
    <3>1. /\ req_signal'[t] = SIGF_SINGLE
          /\ \/ pc'[t] = "added" /\ OnList(req_queue', t) /\ held'[t] = held[t]
             \/ pc'[t] = "out" /\ ~ OnList(req_queue', t) /\ held'[t] = held[t] + 1
      BY <1>2, <1>3 DEF SysInv, TypeInv
    <3>2. HandoverInv(t)'
      BY <1>1, <1>2, <3>1 DEF HandoverInv, InWait, SIGF_SINGLE
    <3>3. FrameInv(t)'
      BY <1>1, <1>2, <3>1 DEF FrameInv, SysLocation
    <3>4. WaitInv(t)'
      BY <1>1, <1>2, <3>1, SemaphoreAssumption
         DEF WaitInv, InWait, SysLocation, SysInv, TypeInv
    <3> QED
      BY <2>2, <3>2, <3>3, <3>4
  <2> QED
    BY <2>1, <2>2
<1> QED
  BY <1>3, <1>4, <1>5 DEF SysInv, TaskInv

\* A wait for the signals W ends with the request's signal: sem_wait() returns,
\* or sys_arch_sem_wait() goes on to its clean-up.
LEMMA WaitEnds ==
  ASSUME SysInv, NEW t \in Task, NEW W, NEW loc, GetUnit(t, loc), UNCHANGED alarmVars,
         req_signal[t] \subseteq sig_recvd[t], req_signal[t] \subseteq W,
         \/ loc = "out" /\ pc[t] \in {"added", "asleep"}
         \/ /\ loc = IF alarm_signal[t] = {} THEN "s_free" ELSE "s_end"
            /\ pc[t] \in {"s_added", "s_wait", "s_asleep"},
         status[t] \in {"active", "woken"},
         SigTypeOK', sig_alloc' = sig_alloc, status'[t] = "active",
         sig_recvd'[t] = sig_recvd[t] \ W,
         \A u \in Task \ {t} : /\ status'[u] = status[u] /\ sig_wait'[u] = sig_wait[u]
                               /\ sig_recvd'[u] = sig_recvd[u]
  PROVE  SysInv'
<1> USE DEF GetUnit, Goto, alarmVars
<1>1. HandoverInv(t) /\ FrameInv(t) /\ WaitInv(t)
  BY TaskFacts
<1>2. InWait(t) /\ t \in granted /\ held[t] < MaxHeld
  BY <1>1 DEF InWait, HandoverInv, WaitInv
<1>3. SemAccounting' /\ SemExclusion'
  BY <1>2, TakeUnit
<1>4. TypeInv'
  <2>1. loc \in Location
    BY DEF Location, SysLocation
  <2> QED
    BY <2>1 DEF SysInv, TypeInv, AlarmTypeOK
<1>5. ASSUME NEW u \in Task
      PROVE  HandoverInv(u)' /\ FrameInv(u)' /\ WaitInv(u)'
  <2>1. CASE u # t
    <3>1. Same(u)
      BY <2>1 DEF SysInv, TypeInv, Same
    <3> QED
      BY <3>1, SameTask
  <2>2. CASE u = t
    <3>1. /\ pc'[t] = loc /\ held'[t] = held[t] + 1 /\ t \notin granted'
          /\ held[t] \in Nat /\ req_signal'[t] = req_signal[t]
          /\ ~ OnList(req_queue', t)
      BY <1>1, <1>2 DEF SysInv, TypeInv, HandoverInv
    <3>2. req_signal[t] # {} /\ ~ (SIGF_SINGLE \subseteq sig_recvd'[t])
      BY <1>1, <1>2 DEF WaitInv, HandoverInv, SysLocation, SIGF_SINGLE
    <3>3. HandoverInv(t)'
      BY <3>1, <3>2 DEF HandoverInv, InWait
    <3>4. FrameInv(t)'
      BY <1>1, <3>1 DEF FrameInv, WaitInv, SysLocation
    <3>5. WaitInv(t)'
      BY <1>1, <1>2, <3>1, <3>2, SemaphoreAssumption DEF WaitInv, InWait, SysLocation
    <3> QED
      BY <2>2, <3>3, <3>4, <3>5
  <2> QED
    BY <2>1, <2>2
<1> QED
  BY <1>3, <1>4, <1>5 DEF SysInv, TaskInv

\* A wait for the signals W puts task t to sleep.
LEMMA FallsAsleep ==
  ASSUME SysInv, NEW t \in Task, NEW W \in SUBSET SignalNumber, NEW loc,
         SigWaitBlock(t, W), Goto(t, loc), UNCHANGED <<semVars, alarmVars>>,
         \/ pc[t] = "added" /\ loc = "asleep" /\ W = SIGF_SINGLE
         \/ /\ pc[t] \in {"s_added", "s_wait"} /\ loc = "s_asleep"
            /\ W = req_signal[t] \cup alarm_signal[t]
  PROVE  SysInv'
<1> USE DEF SigWaitBlock, Goto, alarmVars, semVars
<1>1. HandoverInv(t) /\ FrameInv(t) /\ WaitInv(t)
  BY TaskFacts
<1>2. TypeInv'
  <2>1. loc \in Location
    BY DEF Location, SysLocation
  <2> QED
    BY <2>1 DEF SysInv, TypeInv, AlarmTypeOK, SigTypeOK
<1>3. ASSUME NEW u \in Task
      PROVE  HandoverInv(u)' /\ FrameInv(u)' /\ WaitInv(u)'
  <2>1. CASE u # t
    <3>1. Same(u)
      BY <2>1 DEF SysInv, TypeInv, SigTypeOK, Same
    <3> QED
      BY <3>1, SameTask
  <2>2. CASE u = t
    <3>1. pc'[t] = loc /\ status'[t] = "blocked" /\ sig_wait'[t] = W
      BY DEF SysInv, TypeInv, SigTypeOK
    <3>2. HandoverInv(t)'
      BY <1>1, <3>1 DEF HandoverInv, InWait
    <3>3. FrameInv(t)'
      BY <1>1, <3>1 DEF FrameInv, SysLocation
    <3>4. WaitInv(t)'
      BY <1>1, <3>1 DEF WaitInv, InWait, SysLocation
    <3> QED
      BY <2>2, <3>2, <3>3, <3>4
  <2> QED
    BY <2>1, <2>2
<1>4. UnitsOut' = UnitsOut
  BY DEF UnitsOut
<1> QED
  BY <1>2, <1>3, <1>4 DEF SysInv, TaskInv, SemAccounting, SemExclusion

\* sem_signal() by task t for the unit of a waiter or for none: what a waiter
\* gets is its own signal, with the unit.
LEMMA SemSignalInv ==
  ASSUME SysInv, NEW t \in Task, NEW back \in {0, 1}, CanCall(t), sem_signal(t),
         Cardinality(UnitsHeld(held')) = Cardinality(UnitsHeld(held)) - back,
         posted' = posted + (1 - back), posted' \in 0 .. MaxPosted,
         held' \in [Task -> Nat], held'[t] <= held[t],
         \A u \in Task \ {t} : held'[u] = held[u],
         UNCHANGED alarmVars
  PROVE  SysInv'
<1> USE DEF alarmVars
<1>1. /\ count' \in Int
      /\ req_queue' \in Seq(Task) /\ NoDuplicates(req_queue') /\ granted' \subseteq Task
      /\ \/ UNCHANGED <<req_queue, granted, sigVars>>
         \/ \E h \in Task :
              /\ OnList(req_queue, h)
              /\ \A u \in Task : OnList(req_queue', u) <=> u # h /\ OnList(req_queue, u)
              /\ granted' = granted \cup {h}
              /\ SigSend(h, req_signal[h])
      /\ SemAccounting' /\ SemExclusion'
  BY SignalUnit
<1>2. UNCHANGED <<req_signal, pc>> /\ pc[t] = "out"
  BY DEF sem_signal, CanCall
<1>3. ASSUME NEW u \in Task, Same(u) \/ u = t,
             status'[u] = status[u] /\ sig_alloc'[u] = sig_alloc[u],
             sig_wait'[u] = sig_wait[u] /\ sig_recvd'[u] = sig_recvd[u],
             u \in granted' <=> u \in granted,
             OnList(req_queue', u) <=> OnList(req_queue, u)
      PROVE  HandoverInv(u)' /\ FrameInv(u)' /\ WaitInv(u)'
  <2>1. CASE Same(u)
    BY <2>1, SameTask
  <2>2. CASE u = t
    <3>1. HandoverInv(t) /\ FrameInv(t) /\ WaitInv(t)
      BY TaskFacts
    <3>2. HandoverInv(t)'
      BY <3>1, <1>2, <1>3, <2>2 DEF HandoverInv, InWait
    <3>3. FrameInv(t)'
      BY <3>1, <1>2, <1>3, <2>2 DEF FrameInv
    <3>4. WaitInv(t)'
      BY <3>1, <1>2, <1>3, <2>2, SemaphoreAssumption
         DEF WaitInv, InWait, SysInv, TypeInv, SysLocation
    <3> QED
      BY <2>2, <3>2, <3>3, <3>4
  <2> QED
    BY <1>3, <2>1, <2>2
<1>4. CASE UNCHANGED <<req_queue, granted, sigVars>>
  <2>1. TypeInv'
    BY <1>1, <1>2, <1>4 DEF SysInv, TypeInv, SigTypeOK, AlarmTypeOK, sigVars
  <2>2. ASSUME NEW u \in Task
        PROVE  HandoverInv(u)' /\ FrameInv(u)' /\ WaitInv(u)'
    BY <1>2, <1>3, <1>4 DEF Same, sigVars
  <2> QED
    BY <1>1, <2>1, <2>2 DEF SysInv, TaskInv
<1>5. ASSUME NEW h \in Task,
             OnList(req_queue, h),
             \A u \in Task : OnList(req_queue', u) <=> u # h /\ OnList(req_queue, u),
             granted' = granted \cup {h},
             SigSend(h, req_signal[h])
      PROVE  SysInv'
  <2>1. HandoverInv(h) /\ FrameInv(h) /\ WaitInv(h)
    BY TaskFacts
  <2>2. InWait(h) /\ h # t /\ h \notin granted
    BY <1>2, <1>5, <2>1 DEF HandoverInv, InWait
  <2>3. TypeInv'
    BY <1>1, <1>2, <1>5 DEF SysInv, TypeInv, SigTypeOK, AlarmTypeOK, SigSend
  <2>4. ASSUME NEW u \in Task
        PROVE  HandoverInv(u)' /\ FrameInv(u)' /\ WaitInv(u)'
    <3>1. CASE u # h
      <4>1. /\ status'[u] = status[u] /\ sig_alloc'[u] = sig_alloc[u]
            /\ sig_wait'[u] = sig_wait[u] /\ sig_recvd'[u] = sig_recvd[u]
            /\ (u \in granted' <=> u \in granted)
            /\ (OnList(req_queue', u) <=> OnList(req_queue, u))
        BY <1>5, <3>1 DEF SysInv, TypeInv, SigTypeOK, SigSend
      <4> QED
        BY <4>1, <1>2, <1>3 DEF Same
    <3>2. CASE u = h
      <4>1. /\ sig_recvd'[h] = sig_recvd[h] \cup req_signal[h]
            /\ status'[h] \in {status[h], "woken"}
            /\ (status'[h] # status[h] => status[h] = "blocked")
            /\ UNCHANGED <<sig_alloc, sig_wait>>
            /\ h \in granted' /\ ~ OnList(req_queue', h)
            /\ held'[h] = held[h]
        BY <1>5, <2>2 DEF SysInv, TypeInv, SigTypeOK, SigSend
      <4>2. HandoverInv(h)'
        BY <1>2, <2>1, <2>2, <4>1 DEF HandoverInv, InWait
      <4>3. FrameInv(h)'
        BY <1>2, <2>1, <4>1 DEF FrameInv
      <4>4. WaitInv(h)'
        BY <1>2, <2>1, <2>2, <4>1 DEF WaitInv, InWait, SIGF_SINGLE, SysLocation
      <4> QED
        BY <3>2, <4>2, <4>3, <4>4
    <3> QED
      BY <3>1, <3>2
  <2> QED
    BY <1>1, <2>3, <2>4 DEF SysInv, TaskInv
<1> QED
  BY <1>1, <1>4, <1>5

\* GiveBack and Post
LEMMA SignalInv ==
  ASSUME SysInv, NEW t \in Task, GiveBack(t) \/ Post(t), UNCHANGED alarmVars
  PROVE  SysInv'
<1>1. TypeInv /\ posted \in Nat /\ MaxPosted \in Nat /\ held \in [Task -> Nat]
  BY SemaphoreAssumption DEF SysInv, TypeInv
<1>2. CASE GiveBack(t)
  <2>1. held[t] > 0 /\ held[t] <= MaxHeld /\ held' = [held EXCEPT ![t] = @ - 1]
    BY <1>2, TaskFacts DEF GiveBack, WaitInv
  <2>2. Cardinality(UnitsHeld(held')) = Cardinality(UnitsHeld(held)) - 1
    BY <1>1, <2>1, OneLessHeld
  <2>3. /\ CanCall(t) /\ sem_signal(t)
        /\ posted' = posted + (1 - 1) /\ posted' \in 0 .. MaxPosted
    BY <1>1, <1>2 DEF GiveBack, TypeInv
  <2>4. /\ held' \in [Task -> Nat] /\ held'[t] <= held[t]
        /\ \A u \in Task \ {t} : held'[u] = held[u]
    BY <1>1, <2>1
  <2> QED
    BY <2>2, <2>3, <2>4, SemSignalInv
<1>3. CASE Post(t)
  <2>1. held' = held
    BY <1>3 DEF Post
  <2>2. Cardinality(UnitsHeld(held')) = Cardinality(UnitsHeld(held)) - 0
    BY <2>1, UnitsHeldFinite
  <2>3. /\ CanCall(t) /\ sem_signal(t)
        /\ posted' = posted + (1 - 0) /\ posted' \in 0 .. MaxPosted
    BY <1>1, <1>3 DEF Post
  <2>4. /\ held' \in [Task -> Nat] /\ held'[t] <= held[t]
        /\ \A u \in Task \ {t} : held'[u] = held[u]
    BY <1>1, <2>1
  <2> QED
    BY <2>2, <2>3, <2>4, SemSignalInv
<1> QED
  BY <1>2, <1>3

\* signal_wait() in sem_wait(), which takes the signal at once, later, or goes
\* to sleep.
LEMMA SemWaitSignalInv ==
  ASSUME SysInv, NEW t \in Task, sem_wait_signal(t) \/ sem_wait_return(t),
         UNCHANGED alarmVars
  PROVE  SysInv'
<1>1. HandoverInv(t) /\ FrameInv(t) /\ WaitInv(t) /\ SigTypeOK
  BY TaskFacts DEF SysInv, TypeInv
<1>2. SIGF_SINGLE \in SUBSET SignalNumber
  BY SignalsAssumption DEF SignalNumber, SIGF_SINGLE
<1>3. CASE pc[t] = "added" /\ SigWaitTake(t, SIGF_SINGLE) /\ GetUnit(t, "out")
  <2>1. /\ status[t] = "active" /\ req_signal[t] = SIGF_SINGLE
        /\ req_signal[t] \subseteq sig_recvd[t]
    BY <1>1, <1>3 DEF SigWaitTake, WaitInv, SIGF_SINGLE
  <2>2. /\ SigTypeOK' /\ sig_alloc' = sig_alloc /\ status'[t] = "active"
        /\ sig_recvd'[t] = sig_recvd[t] \ SIGF_SINGLE
        /\ \A u \in Task \ {t} : /\ status'[u] = status[u] /\ sig_wait'[u] = sig_wait[u]
                                 /\ sig_recvd'[u] = sig_recvd[u]
    BY <1>1, <1>2, <1>3 DEF SigWaitTake, SigTypeOK
  <2> QED
    BY <1>3, <2>1, <2>2, WaitEnds
<1>4. CASE /\ pc[t] = "added" /\ SigWaitBlock(t, SIGF_SINGLE)
           /\ Goto(t, "asleep") /\ UNCHANGED semVars
  BY <1>2, <1>4, FallsAsleep
<1>5. CASE pc[t] = "asleep" /\ SigResume(t) /\ GetUnit(t, "out")
  <2>1. /\ status[t] = "woken" /\ req_signal[t] = SIGF_SINGLE
        /\ sig_wait[t] = SIGF_SINGLE /\ req_signal[t] \subseteq sig_recvd[t]
    BY <1>1, <1>5 DEF SigResume, WaitInv, SIGF_SINGLE
  <2>2. /\ SigTypeOK' /\ sig_alloc' = sig_alloc /\ status'[t] = "active"
        /\ sig_recvd'[t] = sig_recvd[t] \ SIGF_SINGLE
        /\ \A u \in Task \ {t} : /\ status'[u] = status[u] /\ sig_wait'[u] = sig_wait[u]
                                 /\ sig_recvd'[u] = sig_recvd[u]
    BY <1>1, <1>5, <2>1 DEF SigResume, SigTypeOK
  <2> QED
    BY <1>5, <2>1, <2>2, WaitEnds
<1> QED
  BY <1>3, <1>4, <1>5 DEF sem_wait_signal, sem_wait_return

\* signal_wait() in sys_arch_sem_wait().
LEMMA SysWaitInv ==
  ASSUME ~ GiveUp, SysInv, NEW t \in Task, sys_wait(t) \/ sys_wait_return(t)
  PROVE  SysInv'
<1> DEFINE W == req_signal[t] \cup alarm_signal[t]
           next == IF alarm_signal[t] = {} THEN "s_free" ELSE "s_end"
<1>1. HandoverInv(t) /\ FrameInv(t) /\ WaitInv(t) /\ SigTypeOK
  BY TaskFacts DEF SysInv, TypeInv
<1>2. W \in SUBSET SignalNumber /\ UNCHANGED alarmVars
  BY DEF SysInv, TypeInv, AlarmTypeOK, sys_wait, sys_wait_return
<1>3. CASE /\ pc[t] \in {"s_added", "s_wait"} /\ SigWaitTake(t, W)
           /\ req_signal[t] \subseteq sig_recvd[t] /\ GetUnit(t, next)
  <2>1. /\ SigTypeOK' /\ sig_alloc' = sig_alloc /\ status'[t] = "active"
        /\ status[t] = "active" /\ sig_recvd'[t] = sig_recvd[t] \ W
        /\ \A u \in Task \ {t} : /\ status'[u] = status[u] /\ sig_wait'[u] = sig_wait[u]
                                 /\ sig_recvd'[u] = sig_recvd[u]
    BY <1>1, <1>2, <1>3 DEF SigWaitTake, SigTypeOK
  <2> QED
    BY <1>2, <1>3, <2>1, WaitEnds
<1>4. CASE /\ pc[t] \in {"s_added", "s_wait"} /\ SigWaitBlock(t, W)
           /\ Goto(t, "s_asleep") /\ UNCHANGED semVars
  BY <1>2, <1>4, FallsAsleep
<1>5. CASE /\ pc[t] = "s_asleep" /\ SigResume(t)
           /\ req_signal[t] \subseteq sig_recvd[t] /\ GetUnit(t, next)
  <2>1. status[t] = "woken" /\ sig_wait[t] = W
    BY <1>1, <1>5 DEF SigResume, WaitInv
  <2>2. /\ SigTypeOK' /\ sig_alloc' = sig_alloc /\ status'[t] = "active"
        /\ sig_recvd'[t] = sig_recvd[t] \ W
        /\ \A u \in Task \ {t} : /\ status'[u] = status[u] /\ sig_wait'[u] = sig_wait[u]
                                 /\ sig_recvd'[u] = sig_recvd[u]
    BY <1>1, <1>5, <2>1 DEF SigResume, SigTypeOK
  <2> QED
    BY <1>2, <1>5, <2>1, <2>2, WaitEnds
<1> QED
  BY <1>3, <1>4, <1>5 DEF sys_wait, sys_wait_return, Decide, GotSemaphore, At

\* The two searches for a free bit find one that is not SIGF_SINGLE.
LEMMA FoundBit ==
  ASSUME SysInv, NEW t \in Task, NEW b \in SignalNumber, FindsBit(t, b)
  PROVE  b \in SignalNumber \ SIGF_SINGLE /\ b \notin sig_alloc[t]
BY TaskFacts DEF WaitInv, FindsBit, SIGF_SINGLE

\* sys_arch_sem_wait() before the request is made.
LEMMA SysBeginInv ==
  ASSUME SysInv, NEW t \in Task, sys_arch_sem_wait(t)
  PROVE  SysInv'
<1> USE DEF alarmVars
<1>1. HandoverInv(t) /\ FrameInv(t) /\ WaitInv(t)
  BY TaskFacts
<1>2. PICK b \in SignalNumber : /\ FindsBit(t, b)
                                /\ SigAllocate(t, b)
                                /\ req_signal' = [req_signal EXCEPT ![t] = {b}]
  BY DEF sys_arch_sem_wait
<1>3. b # 0 /\ b \notin sig_alloc[t]
  BY <1>2, FoundBit DEF SIGF_SINGLE
<1>4. /\ pc[t] = "out" /\ status[t] = "active" /\ held[t] < MaxHeld
      /\ pc' = [pc EXCEPT ![t] = "s_request"]
      /\ UNCHANGED <<count, req_queue, held, posted, granted, alarmVars>>
  BY DEF sys_arch_sem_wait, CanWait, CanCall, Goto
<1>5. TypeInv'
  <2>1. "s_request" \in Location
    BY DEF Location, SysLocation
  <2> QED
    BY <1>2, <1>4, <2>1 DEF SysInv, TypeInv, SigTypeOK, AlarmTypeOK, SigAllocate
<1>6. ASSUME NEW u \in Task
      PROVE  HandoverInv(u)' /\ FrameInv(u)' /\ WaitInv(u)'
  <2>1. CASE u # t
    <3>1. Same(u)
      BY <1>2, <1>4, <2>1 DEF SysInv, TypeInv, SigTypeOK, Same, SigAllocate
    <3> QED
      BY <3>1, SameTask
  <2>2. CASE u = t
    <3>1. /\ pc'[t] = "s_request" /\ req_signal'[t] = {b} /\ UNCHANGED status
          /\ sig_alloc'[t] = sig_alloc[t] \cup {b} /\ sig_recvd'[t] = sig_recvd[t] \ {b}
      BY <1>2, <1>4 DEF SysInv, TypeInv, SigTypeOK, SigAllocate
    <3>2. alarm_signal[t] = {} /\ sig_alloc[t] \ {0} = {}
      BY <1>1, <1>4 DEF FrameInv, SysLocation, SIGF_SINGLE
    <3>3. HandoverInv(t)'
      BY <1>1, <1>4, <3>1 DEF HandoverInv, InWait, SIGF_SINGLE
    <3>4. FrameInv(t)'
      <4>1. sig_alloc'[t] \ {0} = {b}
        BY <1>3, <3>1, <3>2
      <4> QED
        BY <1>1, <1>4, <3>1, <3>2, <4>1 DEF FrameInv, SysLocation, SIGF_SINGLE
    <3>5. WaitInv(t)'
      BY <1>1, <1>3, <1>4, <3>1 DEF WaitInv, InWait, SysLocation, SIGF_SINGLE
    <3> QED
      BY <2>2, <3>3, <3>4, <3>5
  <2> QED
    BY <2>1, <2>2
<1>7. UnitsOut' = UnitsOut
  BY <1>4 DEF UnitsOut
<1> QED
  BY <1>4, <1>5, <1>6, <1>7 DEF SysInv, TaskInv, SemAccounting, SemExclusion

\* sys_arch_sem_wait() makes its request.
LEMMA SysRequestInv ==
  ASSUME SysInv, NEW t \in Task, sys_add_request(t)
  PROVE  SysInv'
<1> USE DEF alarmVars, sigVars
<1>1. HandoverInv(t) /\ FrameInv(t) /\ WaitInv(t)
  BY TaskFacts
<1>2. /\ sem_add_request(t, "s_added", "s_free")
      /\ pc[t] = "s_request" /\ status[t] = "active" /\ held[t] < MaxHeld
      /\ ~ OnList(req_queue, t) /\ t \notin granted
      /\ UNCHANGED <<sigVars, posted, granted, req_signal, alarmVars>>
  BY <1>1 DEF sys_add_request, At, sem_add_request, HandoverInv, InWait, WaitInv
<1>3. /\ req_queue' \in Seq(Task) /\ NoDuplicates(req_queue')
      /\ pc' \in [Task -> Location] /\ held' \in [Task -> Nat]
      /\ count' \in Int /\ SemAccounting' /\ SemExclusion'
      /\ \/ /\ \A u \in Task : OnList(req_queue', u) <=> u = t \/ OnList(req_queue, u)
            /\ held' = held
            /\ pc' = [pc EXCEPT ![t] = "s_added"]
         \/ /\ req_queue' = req_queue
            /\ held' = [held EXCEPT ![t] = @ + 1]
            /\ pc' = [pc EXCEPT ![t] = "s_free"]
  <2>1. "s_added" \in Location /\ "s_free" \in Location
    BY DEF Location, SysLocation
  <2> QED
    BY <1>2, <2>1, AddRequest
<1>4. TypeInv'
  BY <1>2, <1>3 DEF SysInv, TypeInv, SigTypeOK, AlarmTypeOK
<1>5. ASSUME NEW u \in Task
      PROVE  HandoverInv(u)' /\ FrameInv(u)' /\ WaitInv(u)'
  <2>1. CASE u # t
    <3>1. Same(u)
      BY <1>2, <1>3, <2>1 DEF SysInv, TypeInv, SigTypeOK, Same
    <3> QED
      BY <3>1, SameTask
  <2>2. CASE u = t
    <3>1. \/ pc'[t] = "s_added" /\ OnList(req_queue', t) /\ held'[t] = held[t]
          \/ pc'[t] = "s_free" /\ ~ OnList(req_queue', t) /\ held'[t] = held[t] + 1
      BY <1>2, <1>3 DEF SysInv, TypeInv
    <3>2. HandoverInv(t)'
      BY <1>1, <1>2, <3>1 DEF HandoverInv, WaitInv, InWait, SysLocation
    <3>3. FrameInv(t)'
      BY <1>1, <1>2, <3>1 DEF FrameInv, SysLocation
    <3>4. WaitInv(t)'
      BY <1>1, <1>2, <3>1, SemaphoreAssumption
         DEF WaitInv, InWait, SysLocation, SysInv, TypeInv
    <3> QED
      BY <2>2, <3>2, <3>3, <3>4
  <2> QED
    BY <2>1, <2>2
<1> QED
  BY <1>3, <1>4, <1>5 DEF SysInv, TaskInv

\* The steps of sys_arch_sem_wait() that do not touch the semaphore: what is
\* left to show is what they do to task t.
LEMMA SysStepInv ==
  ASSUME SysInv, NEW t \in Task, UNCHANGED semVars, TypeInv',
         \A u \in Task \ {t} :
           /\ status'[u] = status[u] /\ sig_alloc'[u] = sig_alloc[u]
           /\ sig_wait'[u] = sig_wait[u] /\ sig_recvd'[u] = sig_recvd[u]
           /\ pc'[u] = pc[u] /\ alarm_signal'[u] = alarm_signal[u]
           /\ u \in armed' <=> u \in armed,
         HandoverInv(t)' /\ FrameInv(t)' /\ WaitInv(t)'
  PROVE  SysInv'
<1> USE DEF semVars
<1>1. ASSUME NEW u \in Task
      PROVE  HandoverInv(u)' /\ FrameInv(u)' /\ WaitInv(u)'
  <2>1. CASE u # t
    <3>1. Same(u)
      BY <2>1 DEF Same
    <3> QED
      BY <3>1, SameTask
  <2> QED
    BY <2>1
<1>2. UnitsOut' = UnitsOut
  BY DEF UnitsOut
<1> QED
  BY <1>1, <1>2 DEF SysInv, TaskInv, SemAccounting, SemExclusion

\* A timer is allocated.
LEMMA SysTimerAllocateInv ==
  ASSUME SysInv, NEW t \in Task, sys_timer_allocate(t)
  PROVE  SysInv'
<1> USE DEF semVars
<1>1. HandoverInv(t) /\ FrameInv(t) /\ WaitInv(t)
  BY TaskFacts
<1>2. PICK b \in SignalNumber : AlarmAllocate(t, b)
  BY DEF sys_timer_allocate
<1>3. b # 0 /\ b \notin sig_alloc[t]
  BY <1>2, FoundBit DEF SIGF_SINGLE, AlarmAllocate
<1>4. /\ pc[t] = "s_added" /\ status[t] = "active" /\ alarm_signal[t] = {}
      /\ pc' = [pc EXCEPT ![t] = "s_timer"] /\ UNCHANGED semVars
      /\ alarm_signal' = [alarm_signal EXCEPT ![t] = {b}] /\ UNCHANGED armed
      /\ SigAllocate(t, b)
  BY <1>2 DEF sys_timer_allocate, At, Goto, AlarmAllocate
<1>5. TypeInv'
  <2>1. "s_timer" \in Location
    BY DEF Location, SysLocation
  <2> QED
    BY <1>4, <2>1 DEF SysInv, TypeInv, SigTypeOK, AlarmTypeOK, SigAllocate
<1>6. \A u \in Task \ {t} :
        /\ status'[u] = status[u] /\ sig_alloc'[u] = sig_alloc[u]
        /\ sig_wait'[u] = sig_wait[u] /\ sig_recvd'[u] = sig_recvd[u]
        /\ pc'[u] = pc[u] /\ alarm_signal'[u] = alarm_signal[u]
        /\ u \in armed' <=> u \in armed
  BY <1>4 DEF SysInv, TypeInv, SigTypeOK, AlarmTypeOK, SigAllocate
<1>7. /\ pc'[t] = "s_timer" /\ alarm_signal'[t] = {b} /\ UNCHANGED status
      /\ sig_alloc'[t] = sig_alloc[t] \cup {b} /\ sig_recvd'[t] = sig_recvd[t] \ {b}
  BY <1>4 DEF SysInv, TypeInv, SigTypeOK, AlarmTypeOK, SigAllocate
<1>8. PICK r \in SignalNumber \ {0} : req_signal[t] = {r}
  BY <1>1, <1>4 DEF WaitInv, SysLocation, SIGF_SINGLE
<1>9. sig_alloc[t] \ {0} = {r} /\ r # b
  BY <1>1, <1>3, <1>4, <1>8 DEF FrameInv, SysLocation, SIGF_SINGLE
<1>10. HandoverInv(t)'
  BY <1>1, <1>3, <1>4, <1>7, <1>8, <1>9 DEF HandoverInv, InWait, SIGF_SINGLE
<1>11. FrameInv(t)'
  <2>1. sig_alloc'[t] \ {0} = {r} \cup {b}
    BY <1>3, <1>7, <1>9
  <2> QED
    BY <1>1, <1>4, <1>7, <1>8, <1>9, <2>1 DEF FrameInv, SysLocation, SIGF_SINGLE
<1>12. WaitInv(t)'
  BY <1>1, <1>4, <1>7 DEF WaitInv, InWait, SysLocation, SIGF_SINGLE
<1> QED
  BY <1>4, <1>5, <1>6, <1>10, <1>11, <1>12, SysStepInv

\* The timer is added, if its tick has not elapsed, or stopped.
LEMMA SysTimerInv ==
  ASSUME SysInv, NEW t \in Task, sys_timer_add(t) \/ sys_timer_abort(t)
  PROVE  SysInv'
<1> USE DEF semVars, sigVars, alarmVars
<1>1. HandoverInv(t) /\ FrameInv(t) /\ WaitInv(t)
  BY TaskFacts
<1>2. /\ status[t] = "active"
      /\ UNCHANGED <<semVars, sigVars, alarm_signal>>
      /\ \/ /\ pc[t] = "s_timer" /\ pc' = [pc EXCEPT ![t] = "s_wait"]
            /\ \/ armed' = armed \cup {t} /\ alarm_signal[t] # {}
               \/ armed' = armed
         \/ /\ pc[t] = "s_end" /\ pc' = [pc EXCEPT ![t] = "s_stopped"]
            /\ armed' = armed \ {t}
  BY DEF sys_timer_add, sys_timer_abort, AlarmSet, AlarmStop, At, Goto
<1>3. TypeInv'
  <2>1. "s_wait" \in Location /\ "s_stopped" \in Location
    BY DEF Location, SysLocation
  <2>2. pc' \in [Task -> Location] /\ armed' \subseteq Task
    BY <1>2, <2>1 DEF SysInv, TypeInv, AlarmTypeOK
  <2> QED
    BY <1>2, <2>2 DEF SysInv, TypeInv, SigTypeOK, AlarmTypeOK
<1>4. \A u \in Task \ {t} : pc'[u] = pc[u] /\ (u \in armed' <=> u \in armed)
  BY <1>2 DEF SysInv, TypeInv
<1>5. \/ pc[t] = "s_timer" /\ pc'[t] = "s_wait" /\ (t \in armed' => alarm_signal[t] # {})
      \/ pc[t] = "s_end" /\ pc'[t] = "s_stopped" /\ t \notin armed'
  BY <1>1, <1>2 DEF SysInv, TypeInv, WaitInv
<1>6. HandoverInv(t)'
  BY <1>1, <1>2, <1>5 DEF HandoverInv, InWait
<1>7. FrameInv(t)'
  BY <1>1, <1>2, <1>5 DEF FrameInv, SysLocation
<1>8. WaitInv(t)'
  BY <1>1, <1>2, <1>5 DEF WaitInv, InWait, SysLocation
<1> QED
  BY <1>2, <1>3, <1>4, <1>6, <1>7, <1>8, SysStepInv

\* The timer's bit and the request's bit are freed.
LEMMA SysFreeInv ==
  ASSUME SysInv, NEW t \in Task, sys_timer_free(t) \/ sys_return(t)
  PROVE  SysInv'
<1> USE DEF semVars, alarmVars
<1>1. HandoverInv(t) /\ FrameInv(t) /\ WaitInv(t)
  BY TaskFacts
<1>2. PICK r \in SignalNumber \ {0} : req_signal[t] = {r}
  BY <1>1 DEF WaitInv, SysLocation, SIGF_SINGLE, sys_timer_free, sys_return, At
<1>3. CASE sys_timer_free(t)
  <2>1. /\ pc[t] = "s_stopped" /\ SigFree(t, alarm_signal[t]) /\ status[t] = "active"
        /\ pc' = [pc EXCEPT ![t] = "s_free"]
        /\ alarm_signal' = [alarm_signal EXCEPT ![t] = {}]
        /\ t \notin armed /\ UNCHANGED <<semVars, armed>>
    BY <1>3 DEF sys_timer_free, At, Goto, AlarmFree
  <2>2. TypeInv'
    <3>1. "s_free" \in Location
      BY DEF Location, SysLocation
    <3> QED
      BY <2>1, <3>1 DEF SysInv, TypeInv, SigTypeOK, AlarmTypeOK, SigFree
  <2>3. \A u \in Task \ {t} :
          /\ status'[u] = status[u] /\ sig_alloc'[u] = sig_alloc[u]
          /\ sig_wait'[u] = sig_wait[u] /\ sig_recvd'[u] = sig_recvd[u]
          /\ pc'[u] = pc[u] /\ alarm_signal'[u] = alarm_signal[u]
          /\ u \in armed' <=> u \in armed
    BY <2>1 DEF SysInv, TypeInv, SigTypeOK, AlarmTypeOK, SigFree
  <2>4. /\ pc'[t] = "s_free" /\ alarm_signal'[t] = {}
        /\ UNCHANGED <<status, sig_wait, sig_recvd>>
        /\ sig_alloc'[t] = sig_alloc[t] \ alarm_signal[t]
    BY <2>1 DEF SysInv, TypeInv, SigTypeOK, AlarmTypeOK, SigFree
  <2>5. HandoverInv(t)'
    BY <1>1, <2>1, <2>4 DEF HandoverInv, InWait
  <2>6. FrameInv(t)'
    <3>1. sig_alloc[t] \ {0} = {r} \cup alarm_signal[t] /\ r \notin alarm_signal[t]
      BY <1>1, <1>2, <2>1 DEF FrameInv, SysLocation, SIGF_SINGLE
    <3>2. sig_alloc'[t] \ {0} = {r}
      BY <1>2, <2>4, <3>1
    <3> QED
      BY <1>1, <1>2, <2>1, <2>4, <3>2 DEF FrameInv, SysLocation, SIGF_SINGLE
  <2>7. WaitInv(t)'
    <3>1. 0 \notin alarm_signal[t]
      BY <1>1, <2>1 DEF FrameInv, SysLocation, SIGF_SINGLE
    <3> QED
      BY <1>1, <2>1, <2>4, <3>1 DEF WaitInv, InWait, SysLocation, SIGF_SINGLE
  <2> QED
    BY <2>1, <2>2, <2>3, <2>5, <2>6, <2>7, SysStepInv
<1>4. CASE sys_return(t)
  <2>1. /\ pc[t] = "s_free" /\ SigFree(t, req_signal[t]) /\ status[t] = "active"
        /\ pc' = [pc EXCEPT ![t] = "out"]
        /\ UNCHANGED <<semVars, alarmVars>>
    BY <1>4 DEF sys_return, At, Goto
  <2>2. TypeInv'
    <3>1. "out" \in Location
      BY DEF Location
    <3> QED
      BY <2>1, <3>1 DEF SysInv, TypeInv, SigTypeOK, AlarmTypeOK, SigFree
  <2>3. \A u \in Task \ {t} :
          /\ status'[u] = status[u] /\ sig_alloc'[u] = sig_alloc[u]
          /\ sig_wait'[u] = sig_wait[u] /\ sig_recvd'[u] = sig_recvd[u]
          /\ pc'[u] = pc[u]
    BY <2>1 DEF SysInv, TypeInv, SigTypeOK, SigFree
  <2>4. /\ pc'[t] = "out" /\ UNCHANGED <<status, sig_wait, sig_recvd>>
        /\ sig_alloc'[t] = sig_alloc[t] \ {r}
    BY <1>2, <2>1 DEF SysInv, TypeInv, SigTypeOK, SigFree
  <2>5. HandoverInv(t)'
    BY <1>1, <2>1, <2>4 DEF HandoverInv, InWait
  <2>6. FrameInv(t)'
    <3>1. alarm_signal[t] = {} /\ t \notin armed
      BY <1>1, <2>1 DEF FrameInv
    <3>2. sig_alloc[t] \ {0} = {r}
      BY <1>1, <1>2, <2>1, <3>1 DEF FrameInv, SysLocation, SIGF_SINGLE
    <3>3. sig_alloc'[t] \ {0} = {}
      BY <2>4, <3>2
    <3> QED
      BY <2>1, <2>4, <3>1, <3>3 DEF FrameInv, SysLocation, SIGF_SINGLE
  <2>7. WaitInv(t)'
    BY <1>1, <2>1, <2>4 DEF WaitInv, InWait, SysLocation, SIGF_SINGLE
  <2> QED
    BY <2>1, <2>2, <2>3, <2>5, <2>6, <2>7, SysStepInv
<1> QED
  BY <1>3, <1>4

\* The interrupt ends the requests of some timers.
LEMMA AlarmFireInv ==
  ASSUME SysInv, NEW S \in SUBSET armed, AlarmFire(S), UNCHANGED <<semVars, pc>>
  PROVE  SysInv'
<1> USE DEF semVars, AlarmFire
<1>1. TypeInv'
  BY DEF SysInv, TypeInv, SigTypeOK, AlarmTypeOK
<1>2. ASSUME NEW u \in Task
      PROVE  HandoverInv(u)' /\ FrameInv(u)' /\ WaitInv(u)'
  <2>1. HandoverInv(u) /\ FrameInv(u) /\ WaitInv(u)
    BY TaskFacts
  <2>2. CASE u \notin S
    <3>1. Same(u)
      BY <2>2 DEF SysInv, TypeInv, SigTypeOK, Same
    <3> QED
      BY <3>1, SameTask
  <2>3. CASE u \in S
    <3>1. /\ pc[u] \in {"s_wait", "s_asleep", "s_end"} /\ pc'[u] = pc[u]
          /\ sig_recvd'[u] = sig_recvd[u] \cup alarm_signal[u]
          /\ status'[u] \in {status[u], "woken"}
          /\ (status'[u] # status[u] => status[u] = "blocked")
          /\ u \notin armed'
      BY <2>1, <2>3 DEF FrameInv
    <3>2. req_signal[u] \cap alarm_signal[u] = {} /\ 0 \notin alarm_signal[u]
      BY <2>1, <3>1 DEF FrameInv, SysLocation, SIGF_SINGLE
    <3>3. HandoverInv(u)'
      <4>1. PICK r \in SignalNumber : req_signal[u] = {r}
        BY <2>1, <3>1 DEF WaitInv, SysLocation
      <4> QED
        BY <2>1, <3>1, <3>2, <4>1 DEF HandoverInv, InWait, SIGF_SINGLE
    <3>4. FrameInv(u)'
      BY <2>1, <3>1 DEF FrameInv, SysLocation
    <3>5. WaitInv(u)'
      BY <2>1, <3>1, <3>2 DEF WaitInv, InWait, SysLocation, SIGF_SINGLE
    <3> QED
      BY <3>3, <3>4, <3>5
  <2> QED
    BY <2>2, <2>3
<1>3. UnitsOut' = UnitsOut
  BY DEF UnitsOut
<1> QED
  BY <1>1, <1>2, <1>3 DEF SysInv, TaskInv, SemAccounting, SemExclusion

-----------------------------------------------------------------------------
(* The theorems. *)

\* The invariant is inductive.
LEMMA SysNextInv ==
  ASSUME ~ GiveUp, SysInv, [SysSemNext]_sysVars
  PROVE  SysInv'
<1>1. CASE UNCHANGED sysVars
  <2>1. UNCHANGED <<sigVars, semVars, alarmVars, pc>>
    BY <1>1 DEF sysVars, allVars
  <2> USE <2>1 DEF sigVars, semVars, alarmVars
  <2>2. TypeInv'
    BY DEF SysInv, TypeInv, SigTypeOK, AlarmTypeOK
  <2>3. ASSUME NEW u \in Task
        PROVE  HandoverInv(u)' /\ FrameInv(u)' /\ WaitInv(u)'
    BY SameTask DEF Same
  <2>4. UnitsOut' = UnitsOut
    BY DEF UnitsOut
  <2> QED
    BY <2>2, <2>3, <2>4 DEF SysInv, TaskInv, SemAccounting, SemExclusion
<1>2. ASSUME NEW t \in Task, SemStep(t), UNCHANGED alarmVars
      PROVE  SysInv'
  BY <1>2, StartInv, SemWaitInv, SemWaitSignalInv, SignalInv DEF SemStep
<1>3. CASE SysSemNext
  BY <1>2, <1>3, AlarmFireInv, SysBeginInv, SysRequestInv, SysTimerAllocateInv,
     SysTimerInv, SysWaitInv, SysFreeInv DEF SysSemNext
<1> QED
  BY <1>1, <1>3

\* What the runs check follows from the invariant.
LEMMA SysInvImplies ==
  ASSUME SysInv
  PROVE  SemTypeOK /\ SemHandover /\ SemAsserts
<1>1. /\ TypeInv /\ NoDuplicates(req_queue)
      /\ req_queue \in Seq(Task) /\ Len(req_queue) \in Nat
      /\ count \in Int /\ posted \in 0 .. MaxPosted /\ InitCount \in Nat /\ MaxPosted \in Nat
      /\ UnitsOut \in Nat /\ UnitsOut <= InitCount + posted
      /\ count = InitCount + posted - UnitsOut - Len(req_queue)
  BY LenProperties, UnitsOutType, SemaphoreAssumption
     DEF SysInv, TypeInv, SemAccounting, SemExclusion
<1>2. \A t \in Task : Queued(t) <=> OnList(req_queue, t)
  BY DEF Queued, OnList
<1>3. SemTypeOK
  <2>1. Len(req_queue) <= Cardinality(Task) /\ Cardinality(Task) \in Nat
    BY <1>1, QueueBound, FS_CardinalityType, SemaphoreAssumption
  <2>2. count \in - Cardinality(Task) .. InitCount + MaxPosted
    BY <1>1, <2>1
  <2> QED
    BY <1>1, <2>2 DEF SemTypeOK, TypeInv
<1>4. SemHandover
  BY <1>1, <1>2 DEF SysInv, TaskInv, HandoverInv, SemHandover, NoDuplicates
<1>5. ASSUME NEW t \in Task, CanCall(t), MustWake(count + 1)
      PROVE  sem_signal_asserts(t)
  <2>1. req_queue # << >>
    <3>1. Len(req_queue) > 0
      BY <1>1, <1>5 DEF MustWake
    <3> QED
      BY <3>1
  <2>2. Head(req_queue) \in Task /\ OnList(req_queue, Head(req_queue))
    BY <1>1, <2>1, RemHeadMembers
  <2>3. InWait(Head(req_queue)) /\ ~ InWait(t)
    BY <1>5, <2>2, TaskFacts DEF HandoverInv, CanCall, InWait
  <2>4. req_signal[Head(req_queue)] # {}
    BY <2>2, <2>3, TaskFacts DEF WaitInv, InWait, SysLocation, SIGF_SINGLE
  <2> QED
    BY <2>1, <2>3, <2>4 DEF sem_signal_asserts
<1> QED
  BY <1>3, <1>4, <1>5 DEF SemAsserts

\* SysInv is an invariant of the semaphore with both kinds of waits.
THEOREM SysInvCorrect ==
  ASSUME ~ GiveUp
  PROVE  SysSemSpec => []SysInv
BY SysInitInv, SysNextInv, PTL DEF SysSemSpec

\* The types, and the range of the count: it cannot overflow.
THEOREM SemTypeCorrect ==
  ASSUME ~ GiveUp
  PROVE  SysSemSpec => []SemTypeOK
BY SysInvCorrect, SysInvImplies, PTL

\* Never more units are out than the semaphore was created with and were
\* posted.
THEOREM SemExclusionCorrect ==
  ASSUME ~ GiveUp
  PROVE  SysSemSpec => []SemExclusion
<1>1. SysInv => SemExclusion
  BY DEF SysInv
<1> QED
  BY <1>1, SysInvCorrect, PTL

\* sem->count accounts for every unit and every queued request.
THEOREM SemAccountingCorrect ==
  ASSUME ~ GiveUp
  PROVE  SysSemSpec => []SemAccounting
<1>1. SysInv => SemAccounting
  BY DEF SysInv
<1> QED
  BY <1>1, SysInvCorrect, PTL

\* A waiter has the request's signal exactly if its request was taken off the
\* queue, and its request is off the queue when it returns.
THEOREM SemHandoverCorrect ==
  ASSUME ~ GiveUp
  PROVE  SysSemSpec => []SemHandover
BY SysInvCorrect, SysInvImplies, PTL

\* The asserts in sem_signal() never fire.
THEOREM SemAssertsCorrect ==
  ASSUME ~ GiveUp
  PROVE  SysSemSpec => []SemAsserts
BY SysInvCorrect, SysInvImplies, PTL

-----------------------------------------------------------------------------
(* Waits that give up. *)

\* SysFrames does not rest on the handover, so it also holds with waits that
\* give up and leave their request behind.  Beside what it says itself it
\* needs no more than this of a task.
OwnBits(t) ==
  /\ SIGF_SINGLE \subseteq sig_alloc[t]
  /\ t \in armed => alarm_signal[t] # {}
  /\ status[t] = "none" => pc[t] = "out"

\* The types FrameInv rests on.
FrameTypes ==
  /\ SigTypeOK
  /\ AlarmTypeOK
  /\ req_queue \in Seq(Task)
  /\ req_signal \in [Task -> SUBSET SignalNumber]
  /\ pc \in [Task -> Location]

\* The inductive invariant of SysFrames.
FramesInv ==
  /\ FrameTypes
  /\ \A t \in Task : FrameInv(t) /\ OwnBits(t)

\* The fields that FrameInv and OwnBits look at.
SameFrame(u) ==
  /\ sig_alloc'[u] = sig_alloc[u] /\ req_signal'[u] = req_signal[u]
  /\ pc'[u] = pc[u] /\ alarm_signal'[u] = alarm_signal[u]
  /\ u \in armed' <=> u \in armed
  /\ status'[u] = "none" <=> status[u] = "none"

\* A step of task t that leaves the other tasks' frames alone.
LEMMA FrameStep ==
  ASSUME FramesInv, NEW t \in Task, FrameTypes',
         \A u \in Task \ {t} : SameFrame(u),
         FrameInv(t)' /\ OwnBits(t)'
  PROVE  FramesInv'
<1>1. ASSUME NEW u \in Task
      PROVE  FrameInv(u)' /\ OwnBits(u)'
  <2>1. CASE u # t
    <3>1. SameFrame(u) /\ FrameInv(u) /\ OwnBits(u)
      BY <2>1 DEF FramesInv
    <3> QED
      BY <3>1 DEF SameFrame, FrameInv, OwnBits
  <2> QED
    BY <2>1
<1> QED
  BY <1>1 DEF FramesInv

\* The steps of sem_wait() and sem_signal().
LEMMA FrameSemStep ==
  ASSUME FramesInv, NEW t \in Task, SemStep(t), UNCHANGED alarmVars
  PROVE  FramesInv'
<1> USE DEF alarmVars, FrameTypes, SigTypeOK, AlarmTypeOK
<1>1. FrameTypes /\ FrameInv(t) /\ OwnBits(t) /\ SIGF_SINGLE \in SUBSET SignalNumber
  BY SignalsAssumption DEF FramesInv, SignalNumber, SIGF_SINGLE
<1>2. "out" \in Location /\ "added" \in Location /\ "asleep" \in Location
  BY DEF Location
<1>3. CASE Start(t)
  <2> USE DEF Start, SigCreate, semVars
  <2>1. FrameTypes' /\ \A u \in Task \ {t} : SameFrame(u)
    BY <1>1, <1>3 DEF SameFrame
  <2>2. FrameInv(t)' /\ OwnBits(t)'
    BY <1>1, <1>3 DEF FrameInv, OwnBits, SysLocation, SIGF_SINGLE
  <2> QED
    BY <2>1, <2>2, FrameStep
<1>4. CASE sem_wait(t)
  <2>1. /\ pc[t] = "out" /\ status[t] = "active" /\ UNCHANGED sigVars
        /\ req_signal' = [req_signal EXCEPT ![t] = SIGF_SINGLE]
        /\ pc' \in {[pc EXCEPT ![t] = "added"], [pc EXCEPT ![t] = "out"]}
        /\ req_queue' \in {Append(req_queue, t), req_queue}
    BY <1>4 DEF sem_wait, sem_add_request, CanWait, CanCall, Goto
  <2>2. req_queue' \in Seq(Task)
    BY <1>1, <2>1, AppendProperties
  <2>3. FrameTypes' /\ \A u \in Task \ {t} : SameFrame(u)
    BY <1>1, <1>2, <2>1, <2>2 DEF SameFrame, sigVars
  <2>4. pc'[t] \in {"added", "out"}
    BY <1>1, <2>1
  <2>5. FrameInv(t)' /\ OwnBits(t)'
    BY <1>1, <2>1, <2>4 DEF FrameInv, OwnBits, SysLocation, sigVars
  <2> QED
    BY <2>3, <2>5, FrameStep
<1>5. CASE sem_wait_signal(t) \/ sem_wait_return(t)
  <2>1. /\ pc[t] \in {"added", "asleep"} /\ UNCHANGED <<sig_alloc, req_signal, req_queue>>
        /\ pc' \in {[pc EXCEPT ![t] = "out"], [pc EXCEPT ![t] = "asleep"]}
        /\ status[t] # "none"
        /\ \/ status' = [status EXCEPT ![t] = "active"]
           \/ status' = [status EXCEPT ![t] = "blocked"]
           \/ status' = status
        /\ sig_wait' \in [Task -> SUBSET SignalNumber]
        /\ sig_recvd' \in [Task -> SUBSET SignalNumber]
    BY <1>1, <1>5 DEF sem_wait_signal, sem_wait_return, GetUnit, Goto, SigWaitTake,
                      SigWaitBlock, SigResume, semVars
  <2>2. FrameTypes' /\ \A u \in Task \ {t} : SameFrame(u)
    BY <1>1, <1>2, <2>1 DEF SameFrame
  <2>3. pc'[t] \in {"out", "asleep"} /\ status'[t] # "none"
    BY <1>1, <2>1
  <2>4. FrameInv(t)' /\ OwnBits(t)'
    BY <1>1, <2>1, <2>3 DEF FrameInv, OwnBits, SysLocation
  <2> QED
    BY <2>2, <2>4, FrameStep
<1>6. CASE GiveBack(t) \/ Post(t)
  <2>1. sem_signal(t)
    BY <1>6 DEF GiveBack, Post
  <2>2. CASE UNCHANGED <<req_queue, sigVars, req_signal, pc>>
    BY <1>1, <2>2, FrameStep DEF SameFrame, FrameInv, OwnBits, sigVars
  <2>3. CASE /\ req_queue # << >> /\ req_queue' = Tail(req_queue)
             /\ SigSend(Head(req_queue), req_signal[Head(req_queue)])
             /\ UNCHANGED <<req_signal, pc>>
    <3>1. Head(req_queue) \in Task /\ req_queue' \in Seq(Task)
      BY <1>1, <2>3, HeadTailProperties
    <3>2. FrameTypes'
      BY <1>1, <2>3, <3>1 DEF SigSend
    <3>3. \A u \in Task : SameFrame(u)
      BY <1>1, <2>3, <3>1 DEF SigSend, SameFrame
    <3>4. FrameInv(t)' /\ OwnBits(t)'
      BY <1>1, <3>3 DEF FrameInv, OwnBits, SameFrame
    <3> QED
      BY <3>2, <3>3, <3>4, FrameStep
  <2> QED
    BY <2>1, <2>2, <2>3 DEF sem_signal, sem_signal_asserts, RestOfQueue
<1> QED
  BY <1>3, <1>4, <1>5, <1>6 DEF SemStep

\* The steps of sys_arch_sem_wait(), and the interrupt.
LEMMA FrameSysStep ==
  ASSUME FramesInv, SysSemNext
  PROVE  FramesInv'
<1> USE DEF FrameTypes, SigTypeOK, AlarmTypeOK, alarmVars, semVars
<1>1. ASSUME NEW t \in Task
      PROVE  FrameTypes /\ FrameInv(t) /\ OwnBits(t)
  BY DEF FramesInv
<1>2. \A loc \in SysLocation \cup {"out"} : loc \in Location
  BY DEF Location
<1>3. ASSUME NEW S \in SUBSET armed, AlarmFire(S), UNCHANGED <<semVars, pc>>
      PROVE  FramesInv'
  <2>1. FrameTypes'
    BY <1>3 DEF AlarmFire, FramesInv
  <2>2. ASSUME NEW u \in Task
        PROVE  FrameInv(u)' /\ OwnBits(u)'
    <3>1. /\ UNCHANGED <<sig_alloc, req_signal, pc, alarm_signal>>
          /\ armed' \subseteq armed
          /\ (status'[u] = "none" <=> status[u] = "none")
      BY <1>3 DEF AlarmFire
    <3> QED
      BY <1>1, <3>1 DEF FrameInv, OwnBits
  <2> QED
    BY <2>1, <2>2 DEF FramesInv
<1>4. ASSUME NEW t \in Task, sys_arch_sem_wait(t)
      PROVE  FramesInv'
  <2>1. PICK b \in SignalNumber : /\ b \notin sig_alloc[t] /\ SigAllocate(t, b)
                                  /\ req_signal' = [req_signal EXCEPT ![t] = {b}]
    BY <1>4 DEF sys_arch_sem_wait, FindsBit
  <2>2. /\ pc[t] = "out" /\ status[t] = "active" /\ pc' = [pc EXCEPT ![t] = "s_request"]
        /\ UNCHANGED <<req_queue, alarmVars>>
    BY <1>4 DEF sys_arch_sem_wait, CanWait, CanCall, Goto
  <2>3. FrameTypes' /\ \A u \in Task \ {t} : SameFrame(u)
    BY <1>1, <1>2, <2>1, <2>2 DEF SameFrame, SigAllocate, SysLocation
  <2>4. /\ pc'[t] = "s_request" /\ sig_alloc'[t] = sig_alloc[t] \cup {b}
        /\ req_signal'[t] = {b} /\ status'[t] = "active" /\ b # 0
        /\ alarm_signal[t] = {} /\ sig_alloc[t] \ {0} = {}
    BY <1>1, <2>1, <2>2 DEF SigAllocate, OwnBits, FrameInv, SysLocation, SIGF_SINGLE
  <2>5. sig_alloc'[t] \ {0} = {b}
    BY <2>4
  <2>6. FrameInv(t)' /\ OwnBits(t)'
    BY <1>1, <2>2, <2>4, <2>5 DEF FrameInv, OwnBits, SysLocation, SIGF_SINGLE
  <2> QED
    BY <2>3, <2>6, FrameStep
<1>5. ASSUME NEW t \in Task, sys_add_request(t)
      PROVE  FramesInv'
  <2>1. /\ pc[t] = "s_request" /\ status[t] = "active"
        /\ UNCHANGED <<sigVars, req_signal, alarmVars>>
        /\ pc' \in {[pc EXCEPT ![t] = "s_added"], [pc EXCEPT ![t] = "s_free"]}
        /\ req_queue' \in {Append(req_queue, t), req_queue}
    BY <1>5 DEF sys_add_request, sem_add_request, At, Goto
  <2>2. req_queue' \in Seq(Task)
    <3>1. req_queue \in Seq(Task)
      BY DEF FramesInv
    <3> QED
      BY <2>1, <3>1, AppendProperties
  <2>3. FrameTypes' /\ \A u \in Task \ {t} : SameFrame(u)
    BY <1>1, <1>2, <2>1, <2>2 DEF SameFrame, sigVars, SysLocation
  <2>4. pc'[t] \in {"s_added", "s_free"}
    BY <1>1, <2>1
  <2>5. FrameInv(t)' /\ OwnBits(t)'
    BY <1>1, <2>1, <2>4 DEF FrameInv, OwnBits, SysLocation, sigVars
  <2> QED
    BY <2>3, <2>5, FrameStep
<1>6. ASSUME NEW t \in Task, sys_timer_allocate(t)
      PROVE  FramesInv'
  <2>1. PICK b \in SignalNumber : /\ b \notin sig_alloc[t] /\ SigAllocate(t, b)
                                  /\ alarm_signal' = [alarm_signal EXCEPT ![t] = {b}]
                                  /\ alarm_signal[t] = {} /\ UNCHANGED armed
    BY <1>6 DEF sys_timer_allocate, FindsBit, AlarmAllocate
  <2>2. /\ pc[t] = "s_added" /\ status[t] = "active" /\ pc' = [pc EXCEPT ![t] = "s_timer"]
        /\ UNCHANGED <<req_queue, req_signal>>
    BY <1>6 DEF sys_timer_allocate, At, Goto
  <2>3. FrameTypes' /\ \A u \in Task \ {t} : SameFrame(u)
    BY <1>1, <1>2, <2>1, <2>2 DEF SameFrame, SigAllocate, SysLocation
  <2>4. /\ pc'[t] = "s_timer" /\ sig_alloc'[t] = sig_alloc[t] \cup {b}
        /\ alarm_signal'[t] = {b} /\ status'[t] = "active" /\ b # 0
        /\ sig_alloc[t] \ {0} = req_signal[t]
    BY <1>1, <2>1, <2>2 DEF SigAllocate, OwnBits, FrameInv, SysLocation, SIGF_SINGLE
  <2>5. sig_alloc'[t] \ {0} = req_signal[t] \cup {b} /\ b \notin req_signal[t]
    BY <2>1, <2>4
  <2>6. FrameInv(t)' /\ OwnBits(t)'
    BY <1>1, <2>1, <2>2, <2>4, <2>5 DEF FrameInv, OwnBits, SysLocation, SIGF_SINGLE
  <2> QED
    BY <2>3, <2>6, FrameStep
<1>7. ASSUME NEW t \in Task, sys_timer_add(t) \/ sys_timer_abort(t)
      PROVE  FramesInv'
  <2>1. /\ status[t] = "active" /\ UNCHANGED <<semVars, sigVars, alarm_signal>>
        /\ \/ /\ pc[t] = "s_timer" /\ pc' = [pc EXCEPT ![t] = "s_wait"]
              /\ \/ armed' = armed \cup {t} /\ alarm_signal[t] # {}
                 \/ armed' = armed
           \/ /\ pc[t] = "s_end" /\ pc' = [pc EXCEPT ![t] = "s_stopped"]
              /\ armed' = armed \ {t}
    BY <1>7 DEF sys_timer_add, sys_timer_abort, AlarmSet, AlarmStop, At, Goto, sigVars
  <2>2. armed' \subseteq Task /\ pc' \in [Task -> Location]
    BY <1>1, <1>2, <2>1 DEF SysLocation
  <2>3. FrameTypes' /\ \A u \in Task \ {t} : SameFrame(u)
    BY <1>1, <2>1, <2>2 DEF SameFrame, sigVars
  <2>4. \/ pc[t] = "s_timer" /\ pc'[t] = "s_wait" /\ (t \in armed' => alarm_signal[t] # {})
        \/ pc[t] = "s_end" /\ pc'[t] = "s_stopped" /\ t \notin armed'
    BY <1>1, <2>1 DEF OwnBits
  <2>5. FrameInv(t)' /\ OwnBits(t)'
    BY <1>1, <2>1, <2>4 DEF FrameInv, OwnBits, SysLocation, sigVars
  <2> QED
    BY <2>3, <2>5, FrameStep
<1>8. ASSUME NEW t \in Task, sys_wait(t) \/ sys_wait_return(t)
      PROVE  FramesInv'
  <2> DEFINE next == IF alarm_signal[t] = {} THEN "s_free" ELSE "s_end"
  <2>1. /\ pc[t] \in {"s_added", "s_wait", "s_asleep"}
        /\ UNCHANGED <<sig_alloc, req_signal, req_queue, alarmVars>>
        /\ pc' \in {[pc EXCEPT ![t] = next], [pc EXCEPT ![t] = "s_asleep"]}
        /\ (pc' = [pc EXCEPT ![t] = "s_asleep"] => pc[t] # "out")
        /\ status[t] # "none"
        /\ \/ status' = [status EXCEPT ![t] = "active"]
           \/ status' = [status EXCEPT ![t] = "blocked"]
           \/ status' = status
        /\ sig_wait' \in [Task -> SUBSET SignalNumber]
        /\ sig_recvd' \in [Task -> SUBSET SignalNumber]
    BY <1>1, <1>8 DEF sys_wait, sys_wait_return, Decide, GetUnit, Goto, At, SigWaitTake,
                      SigWaitBlock, SigResume
  <2>2. FrameTypes' /\ \A u \in Task \ {t} : SameFrame(u)
    BY <1>1, <1>2, <2>1 DEF SameFrame, SysLocation
  <2>3. pc'[t] \in {next, "s_asleep"} /\ status'[t] # "none"
    BY <1>1, <2>1
  <2>4. FrameInv(t)' /\ OwnBits(t)'
    BY <1>1, <2>1, <2>3 DEF FrameInv, OwnBits, SysLocation
  <2> QED
    BY <2>2, <2>4, FrameStep
<1>9. ASSUME NEW t \in Task, sys_timer_free(t)
      PROVE  FramesInv'
  <2>1. /\ pc[t] = "s_stopped" /\ SigFree(t, alarm_signal[t]) /\ status[t] = "active"
        /\ pc' = [pc EXCEPT ![t] = "s_free"]
        /\ alarm_signal' = [alarm_signal EXCEPT ![t] = {}]
        /\ t \notin armed /\ UNCHANGED <<semVars, armed>>
    BY <1>9 DEF sys_timer_free, At, Goto, AlarmFree
  <2>2. FrameTypes' /\ \A u \in Task \ {t} : SameFrame(u)
    BY <1>1, <1>2, <2>1 DEF SameFrame, SysLocation, SigFree
  <2>3. /\ pc'[t] = "s_free" /\ alarm_signal'[t] = {}
        /\ sig_alloc'[t] = sig_alloc[t] \ alarm_signal[t]
        /\ sig_alloc[t] \ {0} = req_signal[t] \cup alarm_signal[t]
        /\ req_signal[t] \cap alarm_signal[t] = {}
    BY <1>1, <2>1 DEF SigFree, FrameInv, SysLocation, SIGF_SINGLE
  <2>4. sig_alloc'[t] \ {0} = req_signal[t] /\ (0 \in sig_alloc[t] => 0 \in sig_alloc'[t])
    BY <2>3
  <2>5. FrameInv(t)' /\ OwnBits(t)'
    BY <1>1, <2>1, <2>3, <2>4 DEF FrameInv, OwnBits, SysLocation, SIGF_SINGLE, SigFree
  <2> QED
    BY <2>2, <2>5, FrameStep
<1>10. ASSUME NEW t \in Task, sys_return(t)
       PROVE  FramesInv'
  <2>1. /\ pc[t] = "s_free" /\ SigFree(t, req_signal[t]) /\ status[t] = "active"
        /\ pc' = [pc EXCEPT ![t] = "out"]
        /\ UNCHANGED <<semVars, alarmVars>>
    BY <1>10 DEF sys_return, At, Goto
  <2>2. FrameTypes' /\ \A u \in Task \ {t} : SameFrame(u)
    BY <1>1, <1>2, <2>1 DEF SameFrame, SigFree
  <2>3. /\ pc'[t] = "out" /\ alarm_signal[t] = {} /\ t \notin armed
        /\ sig_alloc'[t] = sig_alloc[t] \ req_signal[t]
        /\ sig_alloc[t] \ {0} = req_signal[t]
    BY <1>1, <2>1 DEF SigFree, FrameInv, SysLocation, SIGF_SINGLE
  <2>4. sig_alloc'[t] \ {0} = {} /\ (0 \in sig_alloc[t] => 0 \in sig_alloc'[t])
    BY <2>3
  <2>5. FrameInv(t)' /\ OwnBits(t)'
    BY <1>1, <2>1, <2>3, <2>4 DEF FrameInv, OwnBits, SysLocation, SIGF_SINGLE, SigFree
  <2> QED
    BY <2>2, <2>5, FrameStep
<1> QED
  BY <1>3, <1>4, <1>5, <1>6, <1>7, <1>8, <1>9, <1>10, FrameSemStep DEF SysSemNext

\* sys_arch_sem_wait() frees both bits and its timer on every path, the one
\* that gives up included.
THEOREM SysFramesCorrect == SysSemSpec => []SysFrames
<1>1. SysSemInit => FramesInv
  <2> SUFFICES ASSUME SysSemInit
               PROVE  FramesInv
    OBVIOUS
  <2>1. SysInv
    BY SysInitInv
  <2> QED
    BY <2>1 DEF SysInv, TypeInv, TaskInv, WaitInv, FramesInv, FrameTypes, OwnBits
<1>2. FramesInv /\ [SysSemNext]_sysVars => FramesInv'
  <2>1. ASSUME FramesInv, UNCHANGED sysVars
        PROVE  FramesInv'
    BY <2>1 DEF FramesInv, FrameTypes, FrameInv, OwnBits, SigTypeOK, AlarmTypeOK,
                sysVars, allVars, sigVars, semVars, alarmVars
  <2> QED
    BY <2>1, FrameSysStep
<1>3. FramesInv => SysFrames
  BY DEF FramesInv, FrameInv, SysFrames
<1> QED
  BY <1>1, <1>2, <1>3, PTL DEF SysSemSpec
=============================================================================
