----------------------------- MODULE TimerProofs -----------------------------
(***************************************************************************)
(* Proofs about the timer service for any number of tasks, any delays and  *)
(* any run time, with the timers used as timer_delay() and sys_arch.c do   *)
(* (AlarmLoop is FALSE): a timer that was found "already elapsed" is not   *)
(* added again.                                                            *)
(*                                                                         *)
(* The inductive invariant TimerInv ties the list of requests to the       *)
(* status field, to where each task is in its code and to the signals it   *)
(* has received.  It says nothing about the clock.  That a request ends on *)
(* time and not early is proved on top of it, for clocks that do not wrap  *)
(* around (NoWrap).                                                        *)
(***************************************************************************)
EXTENDS Timer, ListOpsProofs

\* Where a task may have a request in the list.
Linkable == {"added", "wait", "asleep"}

\* What is known about task t: its status field fits its place in the code,
\* and a request that has not ended has not been signalled.
CtlInv(t) ==
  /\ 0 \in sig_alloc[t]
  /\ status[t] = "none" => pc[t] = "out"
  /\ pc[t] = "asleep" <=> status[t] \in {"blocked", "woken"}
  /\ pc[t] = "asleep" => signal[t] \subseteq sig_wait[t]
  /\ pc[t] = "out" <=> tstatus[t] = "invalid"
  /\ pc[t] = "idle" => tstatus[t] \in {"initialized", "done"}
  /\ pc[t] \in {"check", "insert"} => tstatus[t] \in {"initialized", "done", "aborted"}
  /\ pc[t] \in Linkable => tstatus[t] \in {"added", "done"}
  /\ pc[t] = "skipped" => tstatus[t] \in {"aborted", "done"}
  /\ pc[t] # "out" => \E b \in SignalNumber \ {0} : signal[t] = {b} /\ b \in sig_alloc[t]
  /\ pc[t] \in {"idle", "check", "insert"} \/ (pc[t] \in Linkable /\ tstatus[t] = "added")
       => signal[t] \cap sig_recvd[t] = {}

\* The inductive invariant.
TimerInv ==
  /\ TimerTypeOK
  /\ \A t \in Task : CtlInv(t)
  /\ RequestsLinked

-----------------------------------------------------------------------------
(* The list of requests. *)

\* The order of the requests is the priority order of their negated ticks.
ByTick == [t \in Task |-> 0 - tick[t]]

\* The order of the list, said both ways.
LEMMA OrderByTick ==
  ASSUME tick \in [Task -> Int], NEW q \in Seq(Task)
  PROVE  /\ ByTick \in [Task -> Int]
         /\ SortedByPrio(q, ByTick)
              <=> \A i, j \in 1 .. Len(q) : i < j => tick[q[i]] <= tick[q[j]]
<1>1. \A i \in 1 .. Len(q) : q[i] \in Task /\ tick[q[i]] \in Int
                             /\ ByTick[q[i]] = 0 - tick[q[i]]
  BY ElementOfSeq DEF ByTick
<1>2. \A i, j \in 1 .. Len(q) : ByTick[q[i]] >= ByTick[q[j]] <=> tick[q[i]] <= tick[q[j]]
  BY <1>1
<1>3. ByTick \in [Task -> Int]
  BY DEF ByTick
<1> HIDE DEF ByTick
<1> QED
  BY <1>2, <1>3 DEF SortedByPrio

\* A walk through the list for an insertion keeps it in order.
LEMMA InsertKept ==
  ASSUME TimerTypeOK, RequestsLinked, NEW t \in Task, ~ OnList(timers, t),
         NEW i \in 1 .. Len(timers) + 1,
         \A j \in 1 .. i - 1 : ~ InsertsBefore(t, timers[j]),
         i <= Len(timers) => InsertsBefore(t, timers[i])
  PROVE  LET e == InsertAt(timers, i, t)
         IN  /\ e \in Seq(Task)
             /\ NoDuplicates(e)
             /\ \A x : OnList(e, x) <=> x = t \/ OnList(timers, x)
             /\ \A j, k \in 1 .. Len(e) : j < k => tick[e[j]] <= tick[e[k]]
<1> DEFINE e == InsertAt(timers, i, t)
<1>1. timers \in Seq(Task) /\ Len(timers) \in Nat /\ tick \in [Task -> Int]
  BY LenProperties, TimerAssumption DEF TimerTypeOK
<1>2. e \in Seq(Task) /\ Len(e) = Len(timers) + 1 /\ InsertedAt(e, timers, t, i)
  BY <1>1, InsertAtElements DEF InsertedAt
<1> HIDE DEF e
<1>3. \A x : OnList(e, x) <=> x = t \/ OnList(timers, x)
  BY <1>1, <1>2, InsertedMembers
<1>4. NoDuplicates(e)
  BY <1>1, <1>2, InsertedMembers DEF RequestsLinked
<1>5. ByTick \in [Task -> Int] /\ SortedByPrio(timers, ByTick)
  BY <1>1, OrderByTick DEF RequestsLinked
<1>6. \A j \in 1 .. Len(timers) : timers[j] \in Task /\ ByTick[timers[j]] = 0 - tick[timers[j]]
                                  /\ tick[timers[j]] \in Int
  BY <1>1, ElementOfSeq DEF ByTick
<1>7. ByTick[t] = 0 - tick[t] /\ tick[t] \in Int
  BY <1>1 DEF ByTick
<1>8. \A j \in 1 .. Len(timers) : j < i => ByTick[timers[j]] >= ByTick[t]
  <2> SUFFICES ASSUME NEW j \in 1 .. Len(timers), j < i
               PROVE  tick[timers[j]] <= tick[t]
    BY <1>6, <1>7
  <2>1. j \in 1 .. i - 1
    BY <1>1
  <2> QED
    BY <1>6, <1>7, <2>1 DEF InsertsBefore
<1>9. \A j \in 1 .. Len(timers) : j >= i => ByTick[t] >= ByTick[timers[j]]
  <2> SUFFICES ASSUME NEW j \in 1 .. Len(timers), j >= i
               PROVE  tick[t] <= tick[timers[j]]
    BY <1>6, <1>7
  <2>1. i \in 1 .. Len(timers)
    BY <1>1
  <2>2. tick[t] < tick[timers[i]]
    BY <1>1, <2>1 DEF InsertsBefore
  <2>3. i < j => tick[timers[i]] <= tick[timers[j]]
    BY <2>1 DEF RequestsLinked
  <2> QED
    BY <1>6, <1>7, <2>1, <2>2, <2>3
<1>10. SortedByPrio(e, ByTick)
  BY <1>1, <1>2, <1>5, <1>8, <1>9, InsertedSorted
<1>11. \A j, k \in 1 .. Len(e) : j < k => tick[e[j]] <= tick[e[k]]
  BY <1>1, <1>2, <1>10, OrderByTick
<1> QED
  BY <1>2, <1>3, <1>4, <1>11 DEF e

\* timer_abort() unlinks a request and leaves the others in order.
LEMMA UnlinkKept ==
  ASSUME TimerTypeOK, RequestsLinked, NEW t \in Task, OnList(timers, t)
  PROVE  LET e == list_unlink(timers, t)
         IN  /\ e \in Seq(Task)
             /\ NoDuplicates(e)
             /\ \A x : OnList(e, x) <=> x # t /\ OnList(timers, x)
             /\ \A j, k \in 1 .. Len(e) : j < k => tick[e[j]] <= tick[e[k]]
<1> DEFINE e == list_unlink(timers, t)
<1>1. timers \in Seq(Task) /\ tick \in [Task -> Int] /\ NoDuplicates(timers)
  BY TimerAssumption DEF TimerTypeOK, RequestsLinked
<1>2. /\ e \in Seq(Task) /\ NoDuplicates(e)
      /\ \A x : OnList(e, x) <=> x # t /\ OnList(timers, x)
  BY <1>1, UnlinkMembers
<1>3. SortedByPrio(timers, ByTick)
  BY <1>1, OrderByTick DEF RequestsLinked
<1>4. SortedByPrio(e, ByTick)
  BY <1>1, <1>3, UnlinkSorted
<1> HIDE DEF e
<1>5. \A j, k \in 1 .. Len(e) : j < k => tick[e[j]] <= tick[e[k]]
  BY <1>1, <1>2, <1>4, OrderByTick
<1> QED
  BY <1>2, <1>5 DEF e

\* The walk of timer_poll() ends.
LEMMA ExpiredEnds ==
  ASSUME TimerTypeOK, NEW now
  PROVE  /\ Expired(now) \in 0 .. Len(timers)
         /\ \A i \in 1 .. Expired(now) : ~ NotYet(now, timers[i])
         /\ Expired(now) < Len(timers) => NotYet(now, timers[Expired(now) + 1])
<1> DEFINE B == {k \in 0 .. Len(timers) : k < Len(timers) => NotYet(now, timers[k + 1])}
<1>1. Len(timers) \in Nat
  BY LenProperties DEF TimerTypeOK
<1>2. B \subseteq Nat /\ Len(timers) \in B
  BY <1>1
<1>3. PICK k \in B : \A l \in B : k <= l
  <2> HIDE DEF B
  <2> QED
    BY <1>2, LeastNatural
<1>4. k \in 0 .. Len(timers) /\ (k < Len(timers) => NotYet(now, timers[k + 1]))
  OBVIOUS
<1>5. ASSUME NEW i \in 1 .. k
      PROVE  ~ NotYet(now, timers[i])
  <2>1. i - 1 \in 0 .. Len(timers) /\ i - 1 < k /\ i - 1 + 1 = i
    BY <1>1, <1>4
  <2>2. i - 1 \notin B
    <3> HIDE DEF B
    <3> QED
      BY <1>2, <1>3, <2>1
  <2> QED
    BY <1>1, <2>1, <2>2
<1>6. \E l \in 0 .. Len(timers) :
        /\ \A i \in 1 .. l : ~ NotYet(now, timers[i])
        /\ l < Len(timers) => NotYet(now, timers[l + 1])
  BY <1>4, <1>5
<1> HIDE DEF B
<1> QED
  BY <1>6 DEF Expired

\* The requests that timer_poll() ends.
Gone(now) == {timers[i] : i \in 1 .. Expired(now)}

\* What timer_poll() leaves in the list.
LEMMA PollKept ==
  ASSUME TimerTypeOK, RequestsLinked, NEW now \in Int
  PROVE  LET r == SubSeq(timers, Expired(now) + 1, Len(timers))
         IN  /\ r \in Seq(Task)
             /\ NoDuplicates(r)
             /\ \A x : OnList(r, x) <=> OnList(timers, x) /\ x \notin Gone(now)
             /\ \A j, k \in 1 .. Len(r) : j < k => tick[r[j]] <= tick[r[k]]
             /\ \A j \in 1 .. Len(r) : tick[r[j]] > now
             /\ \A x \in Gone(now) : x \in Task /\ OnList(timers, x) /\ tick[x] <= now
<1> DEFINE n == Expired(now)
           r == SubSeq(timers, n + 1, Len(timers))
<1>1. /\ timers \in Seq(Task) /\ tick \in [Task -> Int] /\ NoDuplicates(timers)
      /\ Len(timers) \in Nat
  BY LenProperties, TimerAssumption DEF TimerTypeOK, RequestsLinked
<1>2. /\ n \in 0 .. Len(timers)
      /\ \A i \in 1 .. n : ~ NotYet(now, timers[i])
      /\ n < Len(timers) => NotYet(now, timers[n + 1])
  BY ExpiredEnds
<1> HIDE DEF n
<1>3. /\ r \in Seq(Task) /\ Len(r) = Len(timers) - n
      /\ NoDuplicates(r)
      /\ \A x : OnList(r, x) <=> OnList(timers, x) /\ \A i \in 1 .. n : timers[i] # x
      /\ \A pr : SortedByPrio(timers, pr) => SortedByPrio(r, pr)
  <2> HIDE DEF r
  <2>1. r = FrontRemoved(timers, n)
    BY DEF r, FrontRemoved
  <2>2. n \in 0 .. Len(timers)
    BY <1>2
  <2>3. r \in Seq(Task) /\ Len(r) = Len(timers) - n
    BY <1>1, <2>1, <2>2, RemoveFront
  <2>4. NoDuplicates(r)
    BY <1>1, <2>1, <2>2, RemoveFront
  <2>5. \A x : OnList(r, x) <=> OnList(timers, x) /\ \A i \in 1 .. n : timers[i] # x
    BY <1>1, <2>1, <2>2, RemoveFront
  <2>6. \A pr : SortedByPrio(timers, pr) => SortedByPrio(r, pr)
    BY <1>1, <2>1, <2>2, RemoveFront
  <2> QED
    BY <2>3, <2>4, <2>5, <2>6
<1> HIDE DEF r
<1>4. SortedByPrio(timers, ByTick)
  BY <1>1, OrderByTick DEF RequestsLinked
<1>5. SortedByPrio(r, ByTick)
  BY <1>3, <1>4
<1>6. \A j, k \in 1 .. Len(r) : j < k => tick[r[j]] <= tick[r[k]]
  BY <1>1, <1>3, <1>5, OrderByTick
<1>7. ASSUME NEW j \in 1 .. Len(r)
      PROVE  tick[r[j]] > now
  <2>1. n < Len(timers) /\ 1 \in 1 .. Len(r)
    BY <1>1, <1>2, <1>3
  <2>2. r[1] \in Task /\ r[j] \in Task
    BY <1>3, <2>1, ElementOfSeq
  <2>3. r[1] = timers[n + 1]
    BY <1>1, <1>2, <2>1 DEF r
  <2>4. now < tick[r[1]]
    BY <1>2, <2>1, <2>3 DEF NotYet
  <2>5. tick[r[1]] <= tick[r[j]]
    BY <1>1, <1>6, <2>1, <2>2
  <2> QED
    BY <1>1, <2>2, <2>4, <2>5
<1>8. ASSUME NEW i \in 1 .. n
      PROVE  timers[i] \in Task /\ OnList(timers, timers[i]) /\ tick[timers[i]] <= now
  <2>1. i \in 1 .. Len(timers)
    BY <1>1, <1>2
  <2>2. timers[i] \in Task
    BY <1>1, <2>1, ElementOfSeq
  <2> QED
    BY <1>1, <1>2, <2>1, <2>2 DEF OnList, NotYet
<1>9. \A x : x \in Gone(now) <=> \E i \in 1 .. n : timers[i] = x
  BY DEF Gone, n
<1>10. \A x : OnList(r, x) <=> OnList(timers, x) /\ x \notin Gone(now)
  BY <1>3, <1>9
<1>11. \A x \in Gone(now) : x \in Task /\ OnList(timers, x) /\ tick[x] <= now
  BY <1>8, <1>9
<1> QED
  BY <1>3, <1>6, <1>7, <1>10, <1>11 DEF r, n

-----------------------------------------------------------------------------
(* TimerInv is inductive. *)

\* The invariant holds when timer_init() has run.
LEMMA TimerInitInv == timer_init => TimerInv
<1> SUFFICES ASSUME timer_init
             PROVE  TimerInv
  OBVIOUS
<1>1. 0 \in SignalNumber /\ 0 \in 0 .. TicksMod - 1 /\ 0 \in 0 .. MaxTime
  BY SignalsAssumption, TimerAssumption DEF SignalNumber
<1>2. SigTypeOK
  BY <1>1 DEF timer_init, SigInit, SigTypeOK, SIGF_SINGLE
<1>3. TimerTypeOK
  BY <1>1, <1>2 DEF timer_init, TimerTypeOK, Location
<1>4. ASSUME NEW t \in Task
      PROVE  CtlInv(t)
  BY DEF timer_init, SigInit, SIGF_SINGLE, CtlInv, Linkable
<1>5. RequestsLinked
  BY DEF timer_init, RequestsLinked, NoDuplicates, OnList
<1> QED
  BY <1>3, <1>4, <1>5 DEF TimerInv

\* The step does nothing to task u.
Same(u) ==
  /\ status'[u] = status[u] /\ sig_alloc'[u] = sig_alloc[u]
  /\ sig_wait'[u] = sig_wait[u] /\ sig_recvd'[u] = sig_recvd[u]
  /\ tstatus'[u] = tstatus[u] /\ tick'[u] = tick[u] /\ signal'[u] = signal[u]
  /\ pc'[u] = pc[u]

\* Task t is where it may have a request in the list, and the request is there.
LinkedAt(t) == tstatus[t] = "added" /\ pc[t] # "stopped"

\* Such a step preserves what is known about u.
LEMMA SameCtl ==
  ASSUME NEW u, CtlInv(u), Same(u)
  PROVE  CtlInv(u)' /\ (LinkedAt(u)' <=> LinkedAt(u))
BY DEF CtlInv, Same, LinkedAt

\* A step of task t: it is enough to look at the list and at task t.
LEMMA StepInv ==
  ASSUME TimerInv, NEW t \in Task, \A u \in Task \ {t} : Same(u),
         TimerTypeOK', CtlInv(t)',
         NoDuplicates(timers)',
         \A i, j \in 1 .. Len(timers') : i < j => tick'[timers'[i]] <= tick'[timers'[j]],
         \A u \in Task \ {t} : OnList(timers', u) <=> OnList(timers, u),
         OnList(timers', t) <=> LinkedAt(t)',
         OnList(timers', t) => pc'[t] \in Linkable
  PROVE  TimerInv'
<1>1. \A u \in Task : CtlInv(u)'
  BY SameCtl DEF TimerInv
<1>2. ASSUME NEW u \in Task
      PROVE  /\ OnList(timers', u) <=> tstatus'[u] = "added" /\ pc'[u] # "stopped"
             /\ OnList(timers', u) => pc'[u] \in {"added", "wait", "asleep"}
  BY <1>2 DEF TimerInv, RequestsLinked, LinkedAt, Linkable, Same
<1> QED
  BY <1>1, <1>2 DEF TimerInv, RequestsLinked

\* A step of task t that leaves the list alone.
LEMMA OffListInv ==
  ASSUME TimerInv, NEW t \in Task, \A u \in Task \ {t} : Same(u),
         TimerTypeOK', CtlInv(t)', UNCHANGED timers,
         OnList(timers, t) => tick'[t] = tick[t] /\ pc'[t] \in Linkable,
         LinkedAt(t)' <=> LinkedAt(t)
  PROVE  TimerInv'
<1>1. \A i \in 1 .. Len(timers) : timers[i] \in Task /\ tick'[timers[i]] = tick[timers[i]]
  <2> SUFFICES ASSUME NEW i \in 1 .. Len(timers)
               PROVE  timers[i] \in Task /\ tick'[timers[i]] = tick[timers[i]]
    OBVIOUS
  <2>1. timers[i] \in Task /\ OnList(timers, timers[i])
    BY ElementOfSeq DEF TimerInv, TimerTypeOK, OnList
  <2> QED
    BY <2>1 DEF Same
<1>2. /\ NoDuplicates(timers)
      /\ \A i, j \in 1 .. Len(timers) : i < j => tick[timers[i]] <= tick[timers[j]]
      /\ OnList(timers, t) <=> LinkedAt(t)
  BY DEF TimerInv, RequestsLinked, LinkedAt
<1>3. \A i, j \in 1 .. Len(timers') : i < j => tick'[timers'[i]] <= tick'[timers'[j]]
  BY <1>1, <1>2
<1>4. NoDuplicates(timers')
  BY <1>2
<1> QED
  BY <1>2, <1>3, <1>4, StepInv

\* The clock reads a tick.
LEMMA ClockIsTick ==
  ASSUME NEW n \in Int
  PROVE  n % TicksMod \in 0 .. TicksMod - 1
BY TimerAssumption

\* Steps of a task that change neither the list nor anybody's tick.
LEMMA TaskStepInv ==
  ASSUME ~ AlarmLoop, TimerInv, NEW t \in Task,
         \/ Start(t) \/ timer_allocate(t) \/ timer_free(t) \/ timer_add_check(t)
         \/ TestStatus(t) \/ (status[t] # "none" /\ OtherEvent(t))
  PROVE  TimerInv'
<1>0. /\ TimerTypeOK /\ CtlInv(t) /\ SigTypeOK
      /\ OnList(timers, t) <=> LinkedAt(t)
      /\ OnList(timers, t) => pc[t] \in Linkable
  BY DEF TimerInv, TimerTypeOK, RequestsLinked, LinkedAt, Linkable
<1>z. 0 \in SignalNumber
  BY SignalsAssumption DEF SignalNumber
<1> USE DEF At, Goto
<1>1. CASE Start(t)
  <2>1. /\ status[t] = "none" /\ status' = [status EXCEPT ![t] = "active"]
        /\ sig_alloc' = [sig_alloc EXCEPT ![t] = {0}]
        /\ sig_wait' = [sig_wait EXCEPT ![t] = {}]
        /\ sig_recvd' = [sig_recvd EXCEPT ![t] = {}]
        /\ UNCHANGED <<time, timers, tstatus, tick, signal, due, pc>>
    BY <1>1 DEF Start, SigCreate, SIGF_SINGLE, reqVars
  <2>2. TimerTypeOK'
    BY <1>0, <1>z, <2>1 DEF TimerTypeOK, SigTypeOK
  <2>3. CtlInv(t)'
    BY <1>0, <2>1 DEF CtlInv, Linkable, SigTypeOK
  <2>4. \A u \in Task \ {t} : Same(u)
    BY <1>0, <2>1 DEF Same, SigTypeOK
  <2>5. ~ OnList(timers, t) /\ (LinkedAt(t)' <=> LinkedAt(t))
    BY <1>0, <2>1 DEF CtlInv, LinkedAt, Linkable
  <2> QED
    BY <2>1, <2>2, <2>3, <2>4, <2>5, OffListInv
<1>2. CASE timer_allocate(t)
  <2>1. PICK b \in SignalNumber :
          /\ FindsBit(t, b) /\ SigAllocate(t, b)
          /\ signal' = [signal EXCEPT ![t] = {b}]
    BY <1>2 DEF timer_allocate
  <2>2. /\ status[t] = "active" /\ pc[t] = "out"
        /\ tstatus' = [tstatus EXCEPT ![t] = "initialized"]
        /\ pc' = [pc EXCEPT ![t] = "idle"]
        /\ UNCHANGED <<time, timers, tick, due>>
    BY <1>2 DEF timer_allocate
  <2>3. b # 0 /\ b \in SignalNumber \ SIGF_SINGLE
    BY <1>0, <2>1 DEF FindsBit, CtlInv, SIGF_SINGLE
  <2>4. /\ sig_alloc' = [sig_alloc EXCEPT ![t] = @ \cup {b}]
        /\ sig_wait' = [sig_wait EXCEPT ![t] = @ \ {b}]
        /\ sig_recvd' = [sig_recvd EXCEPT ![t] = @ \ {b}]
        /\ UNCHANGED status
    BY <2>1 DEF SigAllocate
  <2>5. TimerTypeOK'
    <3>1. SigTypeOK'
      BY <1>0, <2>4 DEF SigTypeOK
    <3>2. signal' \in [Task -> SUBSET (SignalNumber \ SIGF_SINGLE)]
      BY <1>0, <2>1, <2>3 DEF TimerTypeOK
    <3> QED
      BY <1>0, <2>2, <3>1, <3>2 DEF TimerTypeOK, Location
  <2>6. CtlInv(t)'
    BY <1>0, <2>1, <2>2, <2>3, <2>4 DEF CtlInv, Linkable, SigTypeOK, TimerTypeOK
  <2>7. \A u \in Task \ {t} : Same(u)
    BY <1>0, <2>1, <2>2, <2>4 DEF Same, SigTypeOK, TimerTypeOK
  <2>8. ~ OnList(timers, t) /\ (LinkedAt(t)' <=> LinkedAt(t))
    BY <1>0, <2>2 DEF CtlInv, LinkedAt, Linkable, TimerTypeOK
  <2> QED
    BY <2>2, <2>5, <2>6, <2>7, <2>8, OffListInv
<1>3. CASE timer_free(t)
  <2>1. /\ pc[t] \in {"idle", "skipped", "stopped"} /\ status[t] = "active"
        /\ SigFree(t, signal[t])
        /\ tstatus' = [tstatus EXCEPT ![t] = "invalid"]
        /\ pc' = [pc EXCEPT ![t] = "out"]
        /\ UNCHANGED <<time, timers, tick, signal, due>>
    BY <1>3 DEF timer_free
  <2>2. /\ sig_alloc' = [sig_alloc EXCEPT ![t] = @ \ signal[t]]
        /\ UNCHANGED <<status, sig_wait, sig_recvd>>
        /\ 0 \notin signal[t]
    BY <1>0, <2>1 DEF SigFree, SIGF_SINGLE, TimerTypeOK
  <2>3. TimerTypeOK'
    <3>1. SigTypeOK'
      BY <1>0, <2>2 DEF SigTypeOK
    <3> QED
      BY <1>0, <2>1, <3>1 DEF TimerTypeOK, Location
  <2>4. CtlInv(t)'
    BY <1>0, <2>1, <2>2 DEF CtlInv, Linkable, SigTypeOK, TimerTypeOK
  <2>5. \A u \in Task \ {t} : Same(u)
    BY <1>0, <2>1, <2>2 DEF Same, SigTypeOK, TimerTypeOK
  <2>6. ~ OnList(timers, t) /\ ~ LinkedAt(t)'
    BY <1>0, <2>1 DEF LinkedAt, Linkable, TimerTypeOK
  <2> QED
    BY <1>0, <2>1, <2>3, <2>4, <2>5, <2>6, OffListInv
<1>4. CASE timer_add_check(t)
  <2>1. /\ pc[t] = "check" /\ status[t] = "active"
        /\ \/ tstatus' = [tstatus EXCEPT ![t] = "aborted"] /\ pc' = [pc EXCEPT ![t] = "skipped"]
           \/ UNCHANGED tstatus /\ pc' = [pc EXCEPT ![t] = "insert"]
        /\ UNCHANGED <<status, sig_alloc, sig_wait, sig_recvd, time, timers, tick, signal, due>>
    BY <1>4 DEF timer_add_check, sigVars
  <2>2. TimerTypeOK'
    BY <1>0, <2>1 DEF TimerTypeOK, SigTypeOK, Location
  <2>3. CtlInv(t)'
    BY <1>0, <2>1 DEF CtlInv, Linkable, TimerTypeOK
  <2>4. \A u \in Task \ {t} : Same(u)
    BY <1>0, <2>1 DEF Same, TimerTypeOK
  <2>5. ~ OnList(timers, t) /\ (LinkedAt(t)' <=> LinkedAt(t))
    BY <1>0, <2>1 DEF CtlInv, LinkedAt, Linkable, TimerTypeOK
  <2> QED
    BY <2>1, <2>2, <2>3, <2>4, <2>5, OffListInv
<1>5. CASE TestStatus(t)
  <2>1. /\ pc[t] = "added" /\ status[t] = "active"
        /\ pc' = [pc EXCEPT ![t] = IF tstatus[t] = "added" THEN "wait" ELSE "skipped"]
        /\ UNCHANGED <<status, sig_alloc, sig_wait, sig_recvd, time, timers, tstatus, tick,
                       signal, due>>
    BY <1>5 DEF TestStatus, sigVars, reqVars
  <2>2. TimerTypeOK'
    BY <1>0, <2>1 DEF TimerTypeOK, SigTypeOK, Location
  <2>3. CtlInv(t)'
    BY <1>0, <2>1 DEF CtlInv, Linkable, TimerTypeOK
  <2>4. \A u \in Task \ {t} : Same(u)
    BY <1>0, <2>1 DEF Same, TimerTypeOK
  <2>5. /\ OnList(timers, t) => pc'[t] \in Linkable /\ tick'[t] = tick[t]
        /\ LinkedAt(t)' <=> LinkedAt(t)
    BY <1>0, <2>1 DEF LinkedAt, Linkable, TimerTypeOK
  <2> QED
    BY <2>1, <2>2, <2>3, <2>4, <2>5, OffListInv
<1>6. CASE status[t] # "none" /\ OtherEvent(t)
  <2>1. /\ sig_recvd' = [sig_recvd EXCEPT ![t] = @ \cup {0}]
        /\ \/ UNCHANGED status
           \/ status[t] = "blocked" /\ status' = [status EXCEPT ![t] = "woken"]
        /\ UNCHANGED <<sig_alloc, sig_wait, time, timers, tstatus, tick, signal, due, pc>>
    BY <1>0, <1>6 DEF OtherEvent, SigSend, SIGF_SINGLE, reqVars, SigTypeOK
  <2>2. TimerTypeOK'
    BY <1>0, <1>z, <2>1 DEF TimerTypeOK, SigTypeOK
  <2>3. 0 \notin signal[t]
    BY <1>0 DEF TimerTypeOK, SIGF_SINGLE
  <2>4. CtlInv(t)'
    BY <1>0, <2>1, <2>3 DEF CtlInv, Linkable, SigTypeOK
  <2>5. \A u \in Task \ {t} : Same(u)
    BY <1>0, <2>1 DEF Same, SigTypeOK
  <2>6. /\ OnList(timers, t) => pc'[t] \in Linkable /\ tick'[t] = tick[t]
        /\ LinkedAt(t)' <=> LinkedAt(t)
    BY <1>0, <2>1 DEF LinkedAt
  <2> QED
    BY <2>1, <2>2, <2>4, <2>5, <2>6, OffListInv
<1> QED
  BY <1>1, <1>2, <1>3, <1>4, <1>5, <1>6

\* timer_add() up to the test: a tick is computed.
LEMMA AddStepInv ==
  ASSUME ~ AlarmLoop, TimerInv, NEW t \in Task,
         \/ \E d \in Delays : timer_add_delay(t, d)
         \/ \E when \in 0 .. MaxTime : timer_add_alarm(t, when)
  PROVE  TimerInv'
<1>0. /\ TimerTypeOK /\ CtlInv(t) /\ SigTypeOK
      /\ OnList(timers, t) => pc[t] \in Linkable
  BY DEF TimerInv, TimerTypeOK, RequestsLinked, Linkable
<1>1. \A n \in Int : n % TicksMod \in 0 .. TicksMod - 1
  BY ClockIsTick
<1>2. /\ \A d \in Delays : d \in Nat /\ Sum(d) \in 0 .. TicksMod - 1 /\ time + d \in Nat
      /\ \A when \in 0 .. MaxTime : when \in Nat /\ when % TicksMod \in 0 .. TicksMod - 1
  <2>1. time \in Int /\ time \in Nat /\ time % TicksMod \in Int
    BY <1>0, <1>1, TimerAssumption DEF TimerTypeOK
  <2>2. ASSUME NEW d \in Delays
        PROVE  d \in Nat /\ Sum(d) \in 0 .. TicksMod - 1 /\ time + d \in Nat
    <3>1. d \in Nat
      BY TimerAssumption
    <3>2. timer_get_clock + d \in Int
      BY <2>1, <3>1 DEF timer_get_clock
    <3>3. Sum(d) \in 0 .. TicksMod - 1
      BY <1>1, <3>2 DEF Sum
    <3> QED
      BY <2>1, <3>1, <3>3
  <2> QED
    BY <1>1, <2>2, TimerAssumption
<1>3. PICK k \in 0 .. TicksMod - 1, n \in Nat :
        /\ tick' = [tick EXCEPT ![t] = k]
        /\ due' = [due EXCEPT ![t] = n]
  BY <1>2 DEF timer_add_delay, timer_add_alarm
<1>4. /\ pc[t] = "idle" /\ status[t] = "active"
      /\ pc' = [pc EXCEPT ![t] = "check"]
      /\ UNCHANGED <<status, sig_alloc, sig_wait, sig_recvd, time, timers, tstatus, signal>>
  BY DEF timer_add_delay, timer_add_alarm, MayAdd, At, Goto, sigVars
<1>5. TimerTypeOK'
  BY <1>0, <1>3, <1>4 DEF TimerTypeOK, SigTypeOK, Location
<1>6. CtlInv(t)'
  BY <1>0, <1>4 DEF CtlInv, Linkable, TimerTypeOK
<1>7. \A u \in Task \ {t} : Same(u)
  BY <1>0, <1>3, <1>4 DEF Same, TimerTypeOK
<1>8. ~ OnList(timers, t) /\ (LinkedAt(t)' <=> LinkedAt(t))
  BY <1>0, <1>4 DEF CtlInv, LinkedAt, Linkable, TimerTypeOK
<1> QED
  BY <1>4, <1>5, <1>6, <1>7, <1>8, OffListInv

\* The timer's signal comes only when the request has ended.
LEMMA SignalMeansDone ==
  ASSUME NEW t \in Task, CtlInv(t), pc[t] \in Linkable, signal[t] \subseteq sig_recvd[t]
  PROVE  tstatus[t] = "done"
BY DEF CtlInv, Linkable

\* signal_wait(), from the call to its return.
LEMMA WaitStepInv ==
  ASSUME TimerInv, NEW t \in Task,
         (\E S \in {{}, SIGF_SINGLE} : Wait(t, S)) \/ Wake(t)
  PROVE  TimerInv'
<1> DEFINE After == IF signal[t] \subseteq sig_recvd[t] THEN "idle" ELSE "added"
<1>0. /\ TimerTypeOK /\ CtlInv(t) /\ SigTypeOK
      /\ OnList(timers, t) <=> LinkedAt(t)
  BY DEF TimerInv, TimerTypeOK, RequestsLinked, LinkedAt
<1>1. pc[t] \in Linkable /\ UNCHANGED <<sig_alloc, time, timers, tstatus, tick, signal, due>>
  BY DEF Wait, Wake, At, Linkable, reqVars, SigWaitTake, SigWaitBlock, SigResume
<1>2. ASSUME pc' = [pc EXCEPT ![t] = After],
             status' = [status EXCEPT ![t] = "active"],
             NEW R \in SUBSET SignalNumber, signal[t] \subseteq R,
             sig_recvd' = [sig_recvd EXCEPT ![t] = @ \ R],
             sig_wait' \in [Task -> SUBSET SignalNumber],
             \A u \in Task \ {t} : sig_wait'[u] = sig_wait[u]
      PROVE  TimerInv'
  <2>1. TimerTypeOK'
    BY <1>0, <1>1, <1>2 DEF TimerTypeOK, SigTypeOK, Location
  <2>2. After = "idle" => tstatus[t] = "done"
    BY <1>0, <1>1, SignalMeansDone
  <2>3. /\ pc'[t] = After /\ After \in {"idle", "added"} /\ status'[t] = "active"
        /\ sig_recvd'[t] = sig_recvd[t] \ R
    BY <1>0, <1>2 DEF TimerTypeOK, SigTypeOK
  <2> HIDE DEF After
  <2>4. CtlInv(t)'
    BY <1>0, <1>1, <1>2, <2>2, <2>3 DEF CtlInv, Linkable
  <2>5. \A u \in Task \ {t} : Same(u)
    BY <1>0, <1>1, <1>2 DEF Same, TimerTypeOK, SigTypeOK
  <2>6. /\ OnList(timers, t) => pc'[t] \in Linkable /\ tick'[t] = tick[t]
        /\ LinkedAt(t)' <=> LinkedAt(t)
    BY <1>0, <1>1, <2>2, <2>3 DEF LinkedAt, Linkable
  <2> QED
    BY <1>1, <2>1, <2>4, <2>5, <2>6, OffListInv
<1>3. ASSUME NEW S \in {{}, SIGF_SINGLE}, Wait(t, S)
      PROVE  TimerInv'
  <2> DEFINE R == signal[t] \cup S
  <2>1. R \in SUBSET SignalNumber /\ signal[t] \subseteq R /\ status[t] = "active"
    BY <1>0, <1>3, SignalsAssumption DEF TimerTypeOK, SIGF_SINGLE, SignalNumber, Wait, At
  <2>2. CASE SigWaitTake(t, R) /\ Goto(t, After)
    <3> HIDE DEF R
    <3>1. /\ sig_recvd' = [sig_recvd EXCEPT ![t] = @ \ R]
          /\ sig_wait' = [sig_wait EXCEPT ![t] = R] /\ UNCHANGED status
      BY <2>2 DEF SigWaitTake
    <3>2. status' = [status EXCEPT ![t] = "active"]
      BY <1>0, <2>1, <3>1 DEF SigTypeOK
    <3>3. /\ sig_wait' \in [Task -> SUBSET SignalNumber]
          /\ \A u \in Task \ {t} : sig_wait'[u] = sig_wait[u]
      BY <1>0, <2>1, <3>1 DEF SigTypeOK
    <3> QED
      BY <1>2, <2>1, <2>2, <3>1, <3>2, <3>3 DEF Goto
  <2>3. CASE SigWaitBlock(t, R) /\ Goto(t, "asleep")
    <3> HIDE DEF R
    <3>1. /\ status' = [status EXCEPT ![t] = "blocked"]
          /\ sig_wait' = [sig_wait EXCEPT ![t] = R] /\ UNCHANGED sig_recvd
          /\ pc' = [pc EXCEPT ![t] = "asleep"]
      BY <2>3 DEF SigWaitBlock, Goto
    <3>2. TimerTypeOK'
      BY <1>0, <1>1, <2>1, <3>1 DEF TimerTypeOK, SigTypeOK, Location
    <3>3. CtlInv(t)'
      BY <1>0, <1>1, <2>1, <3>1 DEF CtlInv, Linkable, TimerTypeOK, SigTypeOK
    <3>4. \A u \in Task \ {t} : Same(u)
      BY <1>0, <1>1, <3>1 DEF Same, TimerTypeOK, SigTypeOK
    <3>5. /\ OnList(timers, t) => pc'[t] \in Linkable /\ tick'[t] = tick[t]
          /\ LinkedAt(t)' <=> LinkedAt(t)
      BY <1>0, <1>1, <3>1 DEF LinkedAt, Linkable, TimerTypeOK
    <3> QED
      BY <1>1, <3>2, <3>3, <3>4, <3>5, OffListInv
  <2>4. \/ SigWaitTake(t, R) /\ Goto(t, After)
        \/ SigWaitBlock(t, R) /\ Goto(t, "asleep")
    BY <1>3 DEF Wait
  <2> QED
    BY <2>2, <2>3, <2>4
<1>4. CASE Wake(t)
  <2>1. /\ status' = [status EXCEPT ![t] = "active"]
        /\ sig_recvd' = [sig_recvd EXCEPT ![t] = @ \ sig_wait[t]]
        /\ UNCHANGED sig_wait /\ pc' = [pc EXCEPT ![t] = After] /\ pc[t] = "asleep"
    BY <1>4 DEF Wake, SigResume, Goto
  <2>2. signal[t] \subseteq sig_wait[t] /\ sig_wait[t] \in SUBSET SignalNumber
    BY <1>0, <2>1 DEF CtlInv, SigTypeOK
  <2> QED
    BY <1>0, <1>2, <2>1, <2>2 DEF SigTypeOK
<1> QED
  BY <1>3, <1>4

\* The end of timer_add(): the request is linked.
LEMMA InsertStepInv ==
  ASSUME TimerInv, NEW t \in Task, timer_add_insert(t)
  PROVE  TimerInv'
<1>0. /\ TimerTypeOK /\ RequestsLinked /\ CtlInv(t) /\ SigTypeOK
      /\ OnList(timers, t) => pc[t] \in Linkable
  BY DEF TimerInv, TimerTypeOK, RequestsLinked, Linkable
<1>1. /\ pc[t] = "insert" /\ status[t] = "active"
      /\ tstatus' = [tstatus EXCEPT ![t] = "added"]
      /\ pc' = [pc EXCEPT ![t] = "added"]
      /\ UNCHANGED <<status, sig_alloc, sig_wait, sig_recvd, time, tick, signal, due>>
  BY DEF timer_add_insert, At, Goto, sigVars
<1>2. PICK i \in 1 .. Len(timers) + 1 :
        /\ \A j \in 1 .. i - 1 : ~ InsertsBefore(t, timers[j])
        /\ i <= Len(timers) => InsertsBefore(t, timers[i])
        /\ timers' = InsertAt(timers, i, t)
  BY DEF timer_add_insert
<1>3. ~ OnList(timers, t)
  BY <1>0, <1>1 DEF Linkable
<1>4. /\ timers' \in Seq(Task)
      /\ NoDuplicates(timers')
      /\ \A x : OnList(timers', x) <=> x = t \/ OnList(timers, x)
      /\ \A j, k \in 1 .. Len(timers') : j < k => tick[timers'[j]] <= tick[timers'[k]]
  BY <1>0, <1>2, <1>3, InsertKept
<1>5. TimerTypeOK'
  BY <1>0, <1>1, <1>4 DEF TimerTypeOK, SigTypeOK, Location
<1>6. CtlInv(t)' /\ LinkedAt(t)' /\ pc'[t] \in Linkable
  BY <1>0, <1>1 DEF CtlInv, Linkable, LinkedAt, TimerTypeOK
<1>7. \A u \in Task \ {t} : Same(u)
  BY <1>0, <1>1 DEF Same, TimerTypeOK
<1>8. /\ \A j, k \in 1 .. Len(timers') : j < k => tick'[timers'[j]] <= tick'[timers'[k]]
      /\ \A u \in Task \ {t} : OnList(timers', u) <=> OnList(timers, u)
      /\ OnList(timers', t)
  BY <1>1, <1>4
<1> QED
  BY <1>4, <1>5, <1>6, <1>7, <1>8, StepInv

\* timer_abort(): the request is unlinked if it is still there.
LEMMA AbortStepInv ==
  ASSUME TimerInv, NEW t \in Task, timer_abort(t)
  PROVE  TimerInv'
<1>0. /\ TimerTypeOK /\ RequestsLinked /\ CtlInv(t) /\ SigTypeOK
      /\ OnList(timers, t) <=> LinkedAt(t)
  BY DEF TimerInv, TimerTypeOK, RequestsLinked, LinkedAt
<1>1. /\ pc[t] \in {"idle", "added", "skipped"} /\ status[t] = "active"
      /\ pc' = [pc EXCEPT ![t] = "stopped"]
      /\ UNCHANGED <<status, sig_alloc, sig_wait, sig_recvd, time, tstatus, tick, signal, due>>
  BY DEF timer_abort, At, Goto, sigVars
<1>2. /\ timers' \in Seq(Task)
      /\ NoDuplicates(timers')
      /\ \A x : OnList(timers', x) <=> x # t /\ OnList(timers, x)
      /\ \A j, k \in 1 .. Len(timers') : j < k => tick[timers'[j]] <= tick[timers'[k]]
  <2>1. CASE tstatus[t] = "added"
    <3>1. OnList(timers, t) /\ timers' = list_unlink(timers, t)
      BY <1>0, <1>1, <2>1 DEF LinkedAt, timer_abort
    <3> QED
      BY <1>0, <3>1, UnlinkKept
  <2>2. CASE tstatus[t] # "added"
    <3>1. ~ OnList(timers, t) /\ timers' = timers
      BY <1>0, <2>2 DEF LinkedAt, timer_abort
    <3> QED
      BY <1>0, <3>1 DEF TimerTypeOK, RequestsLinked
  <2> QED
    BY <2>1, <2>2
<1>3. TimerTypeOK'
  BY <1>0, <1>1, <1>2 DEF TimerTypeOK, SigTypeOK, Location
<1>4. CtlInv(t)' /\ ~ LinkedAt(t)'
  BY <1>0, <1>1 DEF CtlInv, Linkable, LinkedAt, TimerTypeOK
<1>5. \A u \in Task \ {t} : Same(u)
  BY <1>0, <1>1 DEF Same, TimerTypeOK
<1>6. /\ \A j, k \in 1 .. Len(timers') : j < k => tick'[timers'[j]] <= tick'[timers'[k]]
      /\ \A u \in Task \ {t} : OnList(timers', u) <=> OnList(timers, u)
      /\ ~ OnList(timers', t)
  BY <1>1, <1>2
<1> QED
  BY <1>2, <1>3, <1>4, <1>5, <1>6, StepInv

\* What the interrupt does to the tasks and the list.
LEMMA PollEffect ==
  ASSUME TimerInv, TIM2_IRQHandler
  PROVE  LET now == (time + 1) % TicksMod
         IN  /\ time' = time + 1 /\ time + 1 \in 0 .. MaxTime /\ now \in 0 .. TicksMod - 1
             /\ timers' = SubSeq(timers, Expired(now) + 1, Len(timers))
             /\ tstatus' = [t \in Task |-> IF t \in Gone(now) THEN "done" ELSE tstatus[t]]
             /\ sig_recvd' = [t \in Task |-> sig_recvd[t] \cup
                                               (IF t \in Gone(now) THEN signal[t] ELSE {})]
             /\ status' = [t \in Task |->
                             IF /\ t \in Gone(now)
                                /\ status[t] = "blocked"
                                /\ sig_wait[t] \cap signal[t] # {}
                             THEN "woken" ELSE status[t]]
             /\ UNCHANGED <<sig_alloc, sig_wait, tick, signal, due, pc>>
<1>1. time' = time + 1 /\ time + 1 \in 0 .. MaxTime
  BY TimerAssumption DEF TIM2_IRQHandler, TimerInv, TimerTypeOK
<1>2. (time + 1) % TicksMod \in 0 .. TicksMod - 1
  BY <1>1, ClockIsTick
<1> QED
  BY <1>1, <1>2 DEF TIM2_IRQHandler, timer_poll, Gone

\* The interrupt keeps the invariant.
LEMMA PollStepInv ==
  ASSUME TimerInv, TIM2_IRQHandler
  PROVE  TimerInv'
<1> DEFINE now == (time + 1) % TicksMod
           G == Gone(now)
<1>0. /\ TimerTypeOK /\ RequestsLinked /\ SigTypeOK
  BY DEF TimerInv, TimerTypeOK
<1>1. /\ time' \in 0 .. MaxTime /\ now \in Int
      /\ timers' = SubSeq(timers, Expired(now) + 1, Len(timers))
      /\ tstatus' = [t \in Task |-> IF t \in G THEN "done" ELSE tstatus[t]]
      /\ sig_recvd' = [t \in Task |-> sig_recvd[t] \cup (IF t \in G THEN signal[t] ELSE {})]
      /\ status' = [t \in Task |->
                      IF t \in G /\ status[t] = "blocked" /\ sig_wait[t] \cap signal[t] # {}
                      THEN "woken" ELSE status[t]]
      /\ UNCHANGED <<sig_alloc, sig_wait, tick, signal, due, pc>>
  BY PollEffect
<1> HIDE DEF now
<1>2. /\ timers' \in Seq(Task)
      /\ NoDuplicates(timers')
      /\ \A x : OnList(timers', x) <=> OnList(timers, x) /\ x \notin G
      /\ \A j, k \in 1 .. Len(timers') : j < k => tick[timers'[j]] <= tick[timers'[k]]
      /\ \A x \in G : x \in Task /\ OnList(timers, x)
  BY <1>0, <1>1, PollKept
<1> HIDE DEF G
<1>3. TimerTypeOK'
  <2>1. SigTypeOK'
    <3>1. sig_recvd' \in [Task -> SUBSET SignalNumber]
      BY <1>0, <1>1 DEF SigTypeOK, TimerTypeOK
    <3> QED
      BY <1>0, <1>1, <3>1 DEF SigTypeOK
  <2> QED
    BY <1>0, <1>1, <1>2, <2>1 DEF TimerTypeOK
<1>4. ASSUME NEW u \in Task
      PROVE  /\ CtlInv(u)'
             /\ OnList(timers', u) <=> tstatus'[u] = "added" /\ pc'[u] # "stopped"
             /\ OnList(timers', u) => pc'[u] \in {"added", "wait", "asleep"}
  <2>1. /\ CtlInv(u)
        /\ OnList(timers, u) <=> LinkedAt(u)
        /\ OnList(timers, u) => pc[u] \in Linkable
    BY DEF TimerInv, RequestsLinked, LinkedAt, Linkable
  <2>2. CASE u \in G
    <3>1. /\ tstatus'[u] = "done" /\ pc[u] \in Linkable
          /\ status'[u] = status[u] \/ (status[u] = "blocked" /\ status'[u] = "woken")
          /\ ~ OnList(timers', u)
      BY <1>1, <1>2, <2>1, <2>2
    <3> QED
      BY <1>1, <2>1, <3>1 DEF CtlInv, Linkable
  <2>3. CASE u \notin G
    <3>1. Same(u)
      BY <1>1, <2>3 DEF Same
    <3>2. CtlInv(u)' /\ (LinkedAt(u)' <=> LinkedAt(u))
      BY <2>1, <3>1, SameCtl
    <3> QED
      BY <1>1, <1>2, <2>1, <2>3, <3>2 DEF LinkedAt, Linkable
  <2> QED
    BY <2>2, <2>3
<1>5. \A j, k \in 1 .. Len(timers') : j < k => tick'[timers'[j]] <= tick'[timers'[k]]
  BY <1>1, <1>2
<1> QED
  BY <1>2, <1>3, <1>4, <1>5 DEF TimerInv, RequestsLinked

\* The steps of task t.
TaskStep(t) ==
  \/ Start(t)
  \/ timer_allocate(t)
  \/ timer_free(t)
  \/ \E d \in Delays : timer_add_delay(t, d)
  \/ \E when \in 0 .. MaxTime : timer_add_alarm(t, when)
  \/ timer_add_check(t)
  \/ timer_add_insert(t)
  \/ TestStatus(t)
  \/ \E S \in {{}, SIGF_SINGLE} : Wait(t, S)
  \/ Wake(t)
  \/ timer_abort(t)
  \/ status[t] # "none" /\ OtherEvent(t)

\* A step is the interrupt's or a task's.
LEMMA NextSteps == TimerNext <=> TIM2_IRQHandler \/ \E t \in Task : TaskStep(t)
BY DEF TimerNext, TaskStep

\* Every step keeps the invariant.
LEMMA TimerNextInv ==
  ASSUME ~ AlarmLoop
  PROVE  TimerInv /\ [TimerNext]_allVars => TimerInv'
<1> SUFFICES ASSUME TimerInv, [TimerNext]_allVars
             PROVE  TimerInv'
  OBVIOUS
<1>1. CASE TIM2_IRQHandler
  BY <1>1, PollStepInv
<1>2. ASSUME NEW t \in Task, TaskStep(t)
      PROVE  TimerInv'
  <2>1. CASE \/ Start(t) \/ timer_allocate(t) \/ timer_free(t) \/ timer_add_check(t)
             \/ TestStatus(t) \/ (status[t] # "none" /\ OtherEvent(t))
    BY <2>1, TaskStepInv
  <2>2. CASE \/ \E d \in Delays : timer_add_delay(t, d)
             \/ \E when \in 0 .. MaxTime : timer_add_alarm(t, when)
    BY <2>2, AddStepInv
  <2>3. CASE (\E S \in {{}, SIGF_SINGLE} : Wait(t, S)) \/ Wake(t)
    BY <2>3, WaitStepInv
  <2>4. CASE timer_add_insert(t)
    BY <2>4, InsertStepInv
  <2>5. CASE timer_abort(t)
    BY <2>5, AbortStepInv
  <2> QED
    BY <1>2, <2>1, <2>2, <2>3, <2>4, <2>5 DEF TaskStep
<1>3. CASE UNCHANGED allVars
  BY <1>3 DEF allVars, sigVars, reqVars, TimerInv, TimerTypeOK, SigTypeOK, CtlInv, RequestsLinked
<1> QED
  BY <1>1, <1>2, <1>3, NextSteps

-----------------------------------------------------------------------------
(* The theorems. *)

\* TimerInv is an invariant of the timer service.
THEOREM TimerInvCorrect ==
  ASSUME ~ AlarmLoop
  PROVE  TimerSpec => []TimerInv
BY TimerInitInv, TimerNextInv, PTL DEF TimerSpec

\* The types: in particular a timer's signal is a bit that is not SIGF_SINGLE.
THEOREM TimerTypeCorrect ==
  ASSUME ~ AlarmLoop
  PROVE  TimerSpec => []TimerTypeOK
<1>1. TimerInv => TimerTypeOK
  BY DEF TimerInv
<1> QED
  BY <1>1, TimerInvCorrect, PTL

\* The list holds exactly the requests that were added and have neither fired
\* nor been aborted, each once, in the order of their ticks, and none of a
\* Timer whose stack frame is gone; the wrap-around of the clock included.
THEOREM RequestsLinkedCorrect ==
  ASSUME ~ AlarmLoop
  PROVE  TimerSpec => []RequestsLinked
<1>1. TimerInv => RequestsLinked
  BY DEF TimerInv
<1> QED
  BY <1>1, TimerInvCorrect, PTL

\* When the timer's signal ends a wait, the timer has fired.
THEOREM WaitMeansDoneCorrect ==
  ASSUME ~ AlarmLoop
  PROVE  TimerSpec => WaitMeansDone
<1> DEFINE Done == \A t \in Task :
                     pc[t] \in {"wait", "added", "asleep"} /\ pc'[t] = "idle" => tstatus[t] = "done"
<1>1. TimerInv /\ [TimerNext]_allVars => [Done]_allVars
  <2> SUFFICES ASSUME TimerInv, TimerNext
               PROVE  Done
    OBVIOUS
  <2>0. pc \in [Task -> Location]
    BY DEF TimerInv, TimerTypeOK
  <2>1. CASE TIM2_IRQHandler
    BY <2>1 DEF TIM2_IRQHandler
  <2>2. ASSUME NEW t \in Task, TaskStep(t)
        PROVE  Done
    <3>1. CASE \/ Start(t) \/ timer_free(t) \/ timer_add_check(t) \/ timer_add_insert(t)
               \/ TestStatus(t) \/ timer_abort(t) \/ OtherEvent(t)
               \/ \E d \in Delays : timer_add_delay(t, d)
               \/ \E when \in 0 .. MaxTime : timer_add_alarm(t, when)
      <4>1. UNCHANGED pc \/ \E loc \in Location \ {"idle"} : pc' = [pc EXCEPT ![t] = loc]
        BY <3>1 DEF Start, timer_free, timer_add_check, timer_add_insert, TestStatus, timer_abort,
                    OtherEvent, timer_add_delay, timer_add_alarm, Goto, Location
      <4> QED
        BY <2>0, <4>1
    <3>2. CASE timer_allocate(t)
      BY <2>0, <3>2 DEF timer_allocate, At, Goto
    <3>3. CASE (\E S \in {{}, SIGF_SINGLE} : Wait(t, S)) \/ Wake(t)
      <4>1. /\ pc[t] \in Linkable
            /\ \/ pc' = [pc EXCEPT ![t] = "asleep"] \/ pc' = [pc EXCEPT ![t] = "added"]
               \/ signal[t] \subseteq sig_recvd[t] /\ pc' = [pc EXCEPT ![t] = "idle"]
        BY <3>3 DEF Wait, Wake, At, Goto, Linkable
      <4>2. signal[t] \subseteq sig_recvd[t] => tstatus[t] = "done"
        BY <4>1, SignalMeansDone DEF TimerInv
      <4> QED
        BY <2>0, <4>1, <4>2
    <3> QED
      BY <2>2, <3>1, <3>2, <3>3 DEF TaskStep
  <2> QED
    BY <2>1, <2>2, NextSteps
<1> QED
  BY <1>1, TimerInvCorrect, PTL DEF TimerSpec, WaitMeansDone

\* The clock does not wrap around before the last request has ended.
NoWrap == MaxTime < TicksMod /\ \A d \in Delays : MaxTime + d < TicksMod

\* Then a tick is a time.
LEMMA TickIsTime ==
  ASSUME NEW n \in 0 .. TicksMod - 1
  PROVE  n % TicksMod = n
BY TimerAssumption

\* tick is what it shall be, and no request has ended early.
ClockInv ==
  /\ \A t \in Task : tick[t] = due[t]
  /\ NeverEarly

\* The clock reads the time.
LEMMA ClockIsTime ==
  ASSUME NoWrap, NEW n \in 0 .. MaxTime
  PROVE  n % TicksMod = n
BY TickIsTime, TimerAssumption DEF NoWrap

\* A step that neither ends a request nor begins one.
LEMMA QuietClock ==
  ASSUME ClockInv, NEW t \in Task, UNCHANGED <<time, tick, due>>,
         \A u \in Task \ {t} : tstatus'[u] = tstatus[u] /\ pc'[u] = pc[u],
         \/ tstatus'[t] \notin {"done", "aborted"} \/ time >= due[t]
         \/ tstatus'[t] = tstatus[t] /\ pc[t] \notin {"check", "insert"}
  PROVE  ClockInv'
BY DEF ClockInv, NeverEarly

\* Every step keeps it.
LEMMA ClockNext ==
  ASSUME ~ AlarmLoop, NoWrap
  PROVE  TimerInv /\ ClockInv /\ [TimerNext]_allVars => ClockInv'
<1> SUFFICES ASSUME TimerInv, ClockInv, [TimerNext]_allVars
             PROVE  ClockInv'
  OBVIOUS
<1>0. /\ TimerTypeOK /\ RequestsLinked
      /\ time % TicksMod = time /\ time \in Nat
  <2>1. TimerTypeOK /\ RequestsLinked /\ time \in 0 .. MaxTime
    BY DEF TimerInv, TimerTypeOK
  <2>2. time % TicksMod = time
    BY <2>1, ClockIsTime
  <2> QED
    BY <2>1, <2>2, TimerAssumption
<1>1. CASE TIM2_IRQHandler
  <2> DEFINE now == (time + 1) % TicksMod
  <2>1. /\ time' = time + 1 /\ time + 1 \in 0 .. MaxTime
        /\ tstatus' = [t \in Task |-> IF t \in Gone(now) THEN "done" ELSE tstatus[t]]
        /\ UNCHANGED <<tick, due, pc>>
    BY <1>1, PollEffect
  <2>2. now = time + 1 /\ now \in Int
    BY <2>1, ClockIsTime
  <2>3. \A x \in Gone(now) : tick[x] <= now
    BY <1>0, <2>2, PollKept
  <2> HIDE DEF now
  <2>4. ASSUME NEW t \in Task, tstatus'[t] \in {"done", "aborted"}, pc'[t] \notin {"check", "insert"}
        PROVE  time' >= due'[t]
    <3>1. tick[t] = due[t] /\ due[t] \in Nat
      BY <1>0 DEF ClockInv, TimerTypeOK
    <3>2. CASE t \in Gone(now)
      BY <2>1, <2>2, <2>3, <3>1, <3>2
    <3>3. CASE t \notin Gone(now)
      BY <1>0, <2>1, <2>4, <3>1, <3>3 DEF ClockInv, NeverEarly
    <3> QED
      BY <3>2, <3>3
  <2> QED
    BY <2>1, <2>4 DEF ClockInv, NeverEarly
<1>2. ASSUME NEW t \in Task, TaskStep(t)
      PROVE  ClockInv'
  <2>0. tstatus \in [Task -> {"invalid", "initialized", "added", "done", "aborted"}]
        /\ pc \in [Task -> Location] /\ tick \in [Task -> 0 .. TicksMod - 1] /\ due \in [Task -> Nat]
    BY <1>0 DEF TimerTypeOK
  <2>1. CASE Start(t) \/ OtherEvent(t)
    BY <2>1 DEF Start, OtherEvent, reqVars, ClockInv, NeverEarly
  <2>2. CASE timer_allocate(t) \/ timer_free(t) \/ timer_add_insert(t)
    <3>1. /\ UNCHANGED <<time, tick, due>>
          /\ \E s \in {"initialized", "invalid", "added"} : tstatus' = [tstatus EXCEPT ![t] = s]
          /\ \E loc \in Location : pc' = [pc EXCEPT ![t] = loc]
      BY <2>2 DEF timer_allocate, timer_free, timer_add_insert, Goto, Location
    <3> QED
      BY <2>0, <3>1, QuietClock
  <2>3. CASE \/ TestStatus(t) \/ (\E S \in {{}, SIGF_SINGLE} : Wait(t, S)) \/ Wake(t) \/ timer_abort(t)
    <3>1. /\ UNCHANGED <<time, tick, due, tstatus>>
          /\ pc[t] \notin {"check", "insert"}
          /\ \E loc \in Location : pc' = [pc EXCEPT ![t] = loc]
      BY <2>3 DEF TestStatus, Wait, Wake, timer_abort, At, Goto, Location, reqVars
    <3> QED
      BY <2>0, <3>1, QuietClock
  <2>4. CASE timer_add_check(t)
    <3>1. CASE Elapsed(t)
      <4>1. time >= due[t] /\ UNCHANGED <<time, tick, due>>
        BY <1>0, <2>0, <2>4, <3>1 DEF Elapsed, timer_get_clock, ClockInv, timer_add_check
      <4>2. \A u \in Task \ {t} : tstatus'[u] = tstatus[u] /\ pc'[u] = pc[u]
        BY <2>0, <2>4, <3>1 DEF timer_add_check, Goto
      <4> QED
        BY <4>1, <4>2, QuietClock
    <3>2. CASE ~ Elapsed(t)
      <4>1. /\ UNCHANGED <<time, tick, due, tstatus>>
            /\ pc' = [pc EXCEPT ![t] = "insert"]
        BY <2>4, <3>2 DEF timer_add_check, Goto
      <4> QED
        BY <2>0, <4>1 DEF ClockInv, NeverEarly
    <3> QED
      BY <3>1, <3>2
  <2>5. ASSUME NEW n \in Nat, tick' = [tick EXCEPT ![t] = n], due' = [due EXCEPT ![t] = n],
               pc' = [pc EXCEPT ![t] = "check"], UNCHANGED <<time, tstatus>>
        PROVE  ClockInv'
    BY <2>0, <2>5 DEF ClockInv, NeverEarly
  <2>6. ASSUME NEW d \in Delays, timer_add_delay(t, d)
        PROVE  ClockInv'
    <3>1. d \in Nat /\ time + d \in 0 .. TicksMod - 1
      BY <1>0, TimerAssumption DEF NoWrap, TimerTypeOK
    <3>2. Sum(d) = time + d
      BY <1>0, <3>1, TickIsTime DEF Sum, timer_get_clock
    <3>3. time + d \in Nat /\ tick' = [tick EXCEPT ![t] = time + d]
      BY <2>6, <3>1, <3>2 DEF timer_add_delay
    <3> QED
      BY <2>5, <2>6, <3>3 DEF timer_add_delay, Goto
  <2>7. ASSUME NEW when \in 0 .. MaxTime, timer_add_alarm(t, when)
        PROVE  ClockInv'
    <3>1. when % TicksMod = when /\ when \in Nat
      BY ClockIsTime, TimerAssumption
    <3> QED
      BY <2>5, <2>7, <3>1 DEF timer_add_alarm, Goto
  <2> QED
    BY <1>2, <2>1, <2>2, <2>3, <2>4, <2>6, <2>7 DEF TaskStep
<1>3. CASE UNCHANGED allVars
  BY <1>3 DEF allVars, reqVars, ClockInv, NeverEarly
<1> QED
  BY <1>1, <1>2, <1>3, NextSteps

\* ClockInv is an invariant while the clock does not wrap around.
LEMMA ClockInvCorrect ==
  ASSUME ~ AlarmLoop, NoWrap
  PROVE  TimerSpec => []ClockInv
<1>1. timer_init => ClockInv
  BY DEF timer_init, ClockInv, NeverEarly
<1> QED
  BY <1>1, ClockNext, TimerInvCorrect, PTL DEF TimerSpec

\* No request ends before its time, neither by the interrupt nor in
\* timer_add().
THEOREM NeverEarlyCorrect ==
  ASSUME ~ AlarmLoop, NoWrap
  PROVE  TimerSpec => []NeverEarly
<1>1. ClockInv => NeverEarly
  BY DEF ClockInv
<1> QED
  BY <1>1, ClockInvCorrect, PTL

\* No request is overdue once the interrupt handler has run.
THEOREM FiresOnTimeCorrect ==
  ASSUME ~ AlarmLoop, NoWrap
  PROVE  TimerSpec => FiresOnTime
<1> DEFINE OnTime == time' # time => \A i \in 1 .. Len(timers') : due[timers'[i]] > time'
<1>1. TimerInv /\ ClockInv /\ [TimerNext]_allVars => [OnTime]_allVars
  <2> SUFFICES ASSUME TimerInv, ClockInv, TimerNext, time' # time
               PROVE  \A i \in 1 .. Len(timers') : due[timers'[i]] > time'
    OBVIOUS
  <2>1. TIM2_IRQHandler
    <3>1. ASSUME NEW t \in Task, TaskStep(t)
          PROVE  FALSE
      BY <3>1 DEF TaskStep, Start, timer_free, timer_add_check, timer_add_insert, TestStatus,
                  timer_abort, OtherEvent, timer_add_delay, timer_add_alarm, timer_allocate,
                  Wait, Wake
    <3> QED
      BY <3>1, NextSteps
  <2> DEFINE now == (time + 1) % TicksMod
  <2>2. /\ time' = time + 1 /\ time + 1 \in 0 .. MaxTime
        /\ timers' = SubSeq(timers, Expired(now) + 1, Len(timers))
    BY <2>1, PollEffect
  <2>3. now = time + 1 /\ now \in Int
    BY <2>2, ClockIsTime
  <2> HIDE DEF now
  <2>4. timers' \in Seq(Task) /\ \A j \in 1 .. Len(timers') : tick[timers'[j]] > now
    BY <2>2, <2>3, PollKept DEF TimerInv
  <2>5. \A j \in 1 .. Len(timers') : timers'[j] \in Task
    BY <2>4, ElementOfSeq
  <2> QED
    BY <2>2, <2>3, <2>4, <2>5 DEF ClockInv
<1> QED
  BY <1>1, TimerInvCorrect, ClockInvCorrect, PTL DEF TimerSpec, FiresOnTime

-----------------------------------------------------------------------------
(* The timer service implements Alarms. *)

\* The refinement mapping of Alarm: a request in the list is armed, and a timer
\* that is not invalid has its signal.
Armed == {timers[i] : i \in 1 .. Len(timers)}
AlarmSignal == [t \in Task |-> IF tstatus[t] = "invalid" THEN {} ELSE signal[t]]

\* A request is armed while it is in the list.
LEMMA ArmedMembers == \A x : x \in Armed <=> OnList(timers, x)
BY DEF Armed, OnList

\* The same after a step.
LEMMA ArmedMembersNext == \A x : x \in Armed' <=> OnList(timers', x)
BY DEF Armed, OnList

\* The mapped signals change only with a timer that is allocated or freed.
LEMMA AlarmSignalSame ==
  ASSUME UNCHANGED signal,
         \A u \in Task : tstatus'[u] = "invalid" <=> tstatus[u] = "invalid"
  PROVE  AlarmSignal' = AlarmSignal
BY DEF AlarmSignal

\* Boot maps to boot.
LEMMA AlarmInitOK == timer_init => Alarm!SigInit /\ Alarm!AlarmInit
<1> SUFFICES ASSUME timer_init
             PROVE  Alarm!SigInit /\ Alarm!AlarmInit
  OBVIOUS
<1>1. Alarm!SigInit
  BY DEF timer_init, SigInit, Alarm!SigInit, SIGF_SINGLE, Alarm!SIGF_SINGLE
<1>2. Armed = {}
  BY DEF timer_init, Armed
<1>3. AlarmSignal = [t \in Task |-> {}]
  BY DEF timer_init, AlarmSignal
<1> QED
  BY <1>1, <1>2, <1>3 DEF Alarm!AlarmInit, Armed, AlarmSignal

\* Every step maps to a step of Alarms or to none.
LEMMA AlarmStepOK ==
  ASSUME ~ AlarmLoop
  PROVE  TimerInv /\ [TimerNext]_allVars
           => [Alarm!AlarmNext]_<<Alarm!sigVars, Alarm!alarmVars>>
<1> SUFFICES ASSUME TimerInv, [TimerNext]_allVars
             PROVE  Alarm!AlarmNext \/ UNCHANGED <<Alarm!sigVars, Alarm!alarmVars>>
  OBVIOUS
<1> DEFINE Goal == Alarm!AlarmNext \/ UNCHANGED <<Alarm!sigVars, Alarm!alarmVars>>
<1>0. /\ TimerTypeOK /\ SigTypeOK /\ RequestsLinked /\ \A t \in Task : CtlInv(t)
      /\ SignalNumber = Alarm!SignalNumber /\ SIGF_SINGLE = Alarm!SIGF_SINGLE
      /\ 0 \in SignalNumber
  BY SignalsAssumption DEF TimerInv, TimerTypeOK, SignalNumber, Alarm!SignalNumber, SIGF_SINGLE,
         Alarm!SIGF_SINGLE
<1>1. ASSUME UNCHANGED <<status, sig_alloc, sig_wait, sig_recvd, timers, signal>>,
             \A u \in Task : tstatus'[u] = "invalid" <=> tstatus[u] = "invalid"
      PROVE  Goal
  <2>1. AlarmSignal' = AlarmSignal
    BY <1>1, AlarmSignalSame
  <2> QED
    BY <1>1, <2>1 DEF Alarm!sigVars, Alarm!alarmVars, AlarmSignal
<1>2. ASSUME Alarm!SigNext, UNCHANGED <<timers, tstatus, signal>>
      PROVE  Goal
  BY <1>2 DEF Alarm!AlarmNext, Alarm!alarmVars
<1>3. CASE TIM2_IRQHandler
  <2> DEFINE now == (time + 1) % TicksMod
             G == Gone(now)
  <2>1. /\ now \in Int
        /\ timers' = SubSeq(timers, Expired(now) + 1, Len(timers))
        /\ tstatus' = [t \in Task |-> IF t \in G THEN "done" ELSE tstatus[t]]
        /\ sig_recvd' = [t \in Task |-> sig_recvd[t] \cup (IF t \in G THEN signal[t] ELSE {})]
        /\ status' = [t \in Task |->
                        IF t \in G /\ status[t] = "blocked" /\ sig_wait[t] \cap signal[t] # {}
                        THEN "woken" ELSE status[t]]
        /\ UNCHANGED <<sig_alloc, sig_wait, tick, signal, due, pc>>
    BY <1>3, PollEffect
  <2> HIDE DEF now
  <2>2. /\ \A x : OnList(timers', x) <=> OnList(timers, x) /\ x \notin G
        /\ \A x \in G : x \in Task /\ OnList(timers, x)
    BY <1>0, <2>1, PollKept
  <2> HIDE DEF G
  <2>3. Armed' = Armed \ G /\ G \subseteq Armed
    BY <2>2, ArmedMembers, ArmedMembersNext
  <2>4. \A t \in G : tstatus[t] = "added"
    BY <1>0, <2>2 DEF RequestsLinked
  <2>5. AlarmSignal' = AlarmSignal
    <3>1. \A u \in Task : tstatus'[u] = "invalid" <=> tstatus[u] = "invalid"
      BY <2>1, <2>4
    <3> QED
      BY <2>1, <3>1, AlarmSignalSame
  <2>6. \A t \in G : AlarmSignal[t] = signal[t]
    BY <2>2, <2>4 DEF AlarmSignal
  <2>7. CASE G = {}
    <3>1. sig_recvd' = sig_recvd /\ status' = status
      BY <1>0, <2>1, <2>7 DEF SigTypeOK
    <3> QED
      BY <2>1, <2>3, <2>5, <2>7, <3>1 DEF Alarm!sigVars, Alarm!alarmVars, Armed, AlarmSignal
  <2>8. CASE G # {}
    <3>1. sig_recvd' = [t \in Task |-> sig_recvd[t] \cup (IF t \in G THEN AlarmSignal[t] ELSE {})]
      BY <2>1, <2>6
    <3>2. status' = [t \in Task |->
                       IF t \in G /\ status[t] = "blocked" /\ sig_wait[t] \cap AlarmSignal[t] # {}
                       THEN "woken" ELSE status[t]]
      BY <2>1, <2>6
    <3>3. PICK g \in SUBSET Armed : g = G
      BY <2>3
    <3>4. Alarm!AlarmFire(g)
      BY <2>1, <2>3, <2>5, <2>8, <3>1, <3>2, <3>3 DEF Alarm!AlarmFire, Armed, AlarmSignal
    <3> QED
      BY <3>4 DEF Alarm!AlarmNext, Armed
  <2> QED
    BY <2>7, <2>8
<1>4. ASSUME NEW t \in Task, TaskStep(t)
      PROVE  Goal
  <2>0. CtlInv(t) /\ tstatus \in [Task -> {"invalid", "initialized", "added", "done", "aborted"}]
    BY <1>0 DEF TimerTypeOK
  <2>1. CASE Start(t)
    <3>1. Alarm!SigCreate(t)
      BY <1>0, <2>1 DEF Start, SigCreate, Alarm!SigCreate
    <3> QED
      BY <1>2, <2>1, <3>1 DEF Start, reqVars, Alarm!SigNext
  <2>2. CASE timer_allocate(t)
    <3>1. PICK b \in SignalNumber :
            /\ FindsBit(t, b) /\ SigAllocate(t, b) /\ signal' = [signal EXCEPT ![t] = {b}]
      BY <2>2 DEF timer_allocate
    <3>2. /\ tstatus[t] = "invalid" /\ tstatus' = [tstatus EXCEPT ![t] = "initialized"]
          /\ UNCHANGED timers
      BY <2>0, <2>2 DEF timer_allocate, At, CtlInv
    <3>3. AlarmSignal[t] = {} /\ AlarmSignal' = [AlarmSignal EXCEPT ![t] = {b}]
      BY <1>0, <2>0, <3>1, <3>2 DEF AlarmSignal, TimerTypeOK
    <3>4. Alarm!AlarmAllocate(t, b)
      BY <3>1, <3>2, <3>3 DEF Alarm!AlarmAllocate, FindsBit, Alarm!FindsBit, SigAllocate,
                              Alarm!SigAllocate, AlarmSignal
    <3> QED
      BY <1>0, <3>4 DEF Alarm!AlarmNext
  <2>3. CASE timer_free(t)
    <3>1. /\ pc[t] \in {"idle", "skipped", "stopped"} /\ SigFree(t, signal[t])
          /\ tstatus' = [tstatus EXCEPT ![t] = "invalid"] /\ UNCHANGED <<timers, signal>>
      BY <2>3 DEF timer_free, At
    <3>2. AlarmSignal[t] = signal[t] /\ AlarmSignal' = [AlarmSignal EXCEPT ![t] = {}]
      BY <2>0, <3>1 DEF AlarmSignal, CtlInv
    <3>3. t \notin Armed /\ Armed' = Armed
      BY <1>0, <3>1, ArmedMembers DEF RequestsLinked, Armed
    <3>4. Alarm!AlarmFree(t)
      BY <1>0, <3>1, <3>2, <3>3 DEF Alarm!AlarmFree, SigFree, Alarm!SigFree, Armed, AlarmSignal
    <3> QED
      BY <3>4 DEF Alarm!AlarmNext
  <2>4. CASE \/ \E d \in Delays : timer_add_delay(t, d)
             \/ \E when \in 0 .. MaxTime : timer_add_alarm(t, when)
             \/ TestStatus(t)
    BY <1>1, <2>4 DEF timer_add_delay, timer_add_alarm, TestStatus, sigVars, reqVars
  <2>5. CASE timer_add_check(t)
    <3>1. tstatus' = tstatus \/ tstatus' = [tstatus EXCEPT ![t] = "aborted"]
      BY <2>5 DEF timer_add_check
    <3>2. tstatus[t] # "invalid"
      BY <2>0, <2>5 DEF timer_add_check, At, CtlInv
    <3>3. \A u \in Task : tstatus'[u] = "invalid" <=> tstatus[u] = "invalid"
      BY <2>0, <3>1, <3>2
    <3> QED
      BY <1>1, <2>5, <3>3 DEF timer_add_check, sigVars
  <2>6. CASE timer_add_insert(t)
    <3>1. /\ pc[t] = "insert" /\ tstatus' = [tstatus EXCEPT ![t] = "added"]
          /\ UNCHANGED <<status, sig_alloc, sig_wait, sig_recvd, signal>>
      BY <2>6 DEF timer_add_insert, At, sigVars
    <3>2. ~ OnList(timers, t)
      BY <1>0, <3>1 DEF RequestsLinked
    <3>3. PICK i \in 1 .. Len(timers) + 1 :
            /\ \A j \in 1 .. i - 1 : ~ InsertsBefore(t, timers[j])
            /\ i <= Len(timers) => InsertsBefore(t, timers[i])
            /\ timers' = InsertAt(timers, i, t)
      BY <2>6 DEF timer_add_insert
    <3>4. \A x : OnList(timers', x) <=> x = t \/ OnList(timers, x)
      BY <1>0, <3>2, <3>3, InsertKept
    <3>5. Armed' = Armed \cup {t} /\ t \notin Armed
      BY <3>2, <3>4, ArmedMembers, ArmedMembersNext
    <3>6. AlarmSignal[t] # {} /\ tstatus[t] # "invalid"
      BY <2>0, <3>1 DEF AlarmSignal, CtlInv
    <3>7. \A u \in Task : tstatus'[u] = "invalid" <=> tstatus[u] = "invalid"
      BY <2>0, <3>1, <3>6
    <3>8. AlarmSignal' = AlarmSignal
      BY <3>1, <3>7, AlarmSignalSame
    <3>9. Alarm!AlarmSet(t)
      BY <3>1, <3>5, <3>6, <3>8 DEF Alarm!AlarmSet, Alarm!sigVars, Armed, AlarmSignal
    <3> QED
      BY <3>9 DEF Alarm!AlarmNext
  <2>7. ASSUME NEW S \in {{}, SIGF_SINGLE}, Wait(t, S)
        PROVE  Goal
    <3> DEFINE R == signal[t] \cup S
    <3>1. R \in SUBSET SignalNumber
      BY <1>0 DEF TimerTypeOK, SIGF_SINGLE
    <3>2. Alarm!SigWaitTake(t, R) \/ Alarm!SigWaitBlock(t, R)
      BY <2>7 DEF Wait, SigWaitTake, SigWaitBlock, Alarm!SigWaitTake, Alarm!SigWaitBlock
    <3>3. UNCHANGED <<timers, tstatus, signal>>
      BY <2>7 DEF Wait, reqVars
    <3> HIDE DEF R
    <3> QED
      BY <1>0, <1>2, <3>1, <3>2, <3>3 DEF Alarm!SigNext
  <2>8. CASE Wake(t)
    <3>1. Alarm!SigResume(t) /\ UNCHANGED <<timers, tstatus, signal>>
      BY <2>8 DEF Wake, SigResume, Alarm!SigResume, reqVars
    <3> QED
      BY <1>2, <3>1 DEF Alarm!SigNext
  <2>9. CASE timer_abort(t)
    <3>1. /\ pc[t] # "stopped"
          /\ timers' = IF tstatus[t] = "added" THEN list_unlink(timers, t) ELSE timers
          /\ UNCHANGED <<status, sig_alloc, sig_wait, sig_recvd, tstatus, signal>>
      BY <2>9 DEF timer_abort, At, sigVars
    <3>2. OnList(timers, t) <=> tstatus[t] = "added"
      BY <1>0, <3>1 DEF RequestsLinked
    <3>3. \A x : OnList(timers', x) <=> x # t /\ OnList(timers, x)
      BY <1>0, <3>1, <3>2, UnlinkKept
    <3>4. Armed' = Armed \ {t}
      BY <3>3, ArmedMembers, ArmedMembersNext
    <3>5. AlarmSignal' = AlarmSignal
      BY <3>1, AlarmSignalSame
    <3>6. Alarm!AlarmStop(t)
      BY <3>1, <3>4, <3>5 DEF Alarm!AlarmStop, Alarm!sigVars, Armed, AlarmSignal
    <3> QED
      BY <3>6 DEF Alarm!AlarmNext
  <2>10. CASE status[t] # "none" /\ OtherEvent(t)
    <3>1. Alarm!SigSend(t, {0}) /\ UNCHANGED <<timers, tstatus, signal>>
      BY <2>10 DEF OtherEvent, SigSend, Alarm!SigSend, SIGF_SINGLE, reqVars
    <3> QED
      BY <1>0, <1>2, <3>1 DEF Alarm!SigNext
  <2> QED
    BY <1>4, <2>1, <2>2, <2>3, <2>4, <2>5, <2>6, <2>7, <2>8, <2>9, <2>10 DEF TaskStep
<1>5. CASE UNCHANGED allVars
  BY <1>1, <1>5 DEF allVars, sigVars, reqVars
<1> QED
  BY <1>3, <1>4, <1>5, NextSteps

\* The timer service implements the alarms that the waits of the lwIP port are
\* built on, whatever the clock does.
THEOREM AlarmsImplemented ==
  ASSUME ~ AlarmLoop
  PROVE  TimerSpec => ImplementsAlarms
BY AlarmInitOK, AlarmStepOK, TimerInvCorrect, PTL
   DEF TimerSpec, ImplementsAlarms, Alarm!AlarmSpec
=============================================================================
