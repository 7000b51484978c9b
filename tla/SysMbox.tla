------------------------------- MODULE SysMbox -------------------------------
(***************************************************************************)
(* The mailboxes of the lwIP port, lwip_martos/sys_arch.c.  A sys_mbox_t   *)
(* is a MsgPort that is not bound to a task until somebody fetches from    *)
(* it; the messages are allocated from lwIP's heap for each post.          *)
(*                                                                         *)
(* Every MsgPort object may serve as a message port or as a mailbox, so    *)
(* the tasks here use both.  One task fetches from a mailbox; lwIP drains  *)
(* a mailbox before it frees it, in that task or, if FreedByFetcher is     *)
(* FALSE, in any other.                                                    *)
(***************************************************************************)
EXTENDS MsgPort, Alarms

CONSTANT FreedByFetcher   \* is a mailbox freed by the task that fetches from it?

ASSUME MboxAssumption == FreedByFetcher \in BOOLEAN

VARIABLES
  use,       \* what each MsgPort object serves as: "none", "port", "mbox", or
             \* for a mailbox "closing" while it is drained and "freed" between
             \* sys_mbox_free() and sys_mbox_set_invalid()
  fetching,  \* the mailbox that a task fetches from or has freed, or NULL
  at         \* where the task is in that

mboxVars == <<use, fetching, at>>
sysVars == <<allVars, alarmVars, mboxVars>>

FetchLocation ==
  {"out", "ready", "timer", "wait", "asleep", "got", "end", "stopped", "freed"}

MboxTypeOK ==
  /\ MsgTypeOK
  /\ AlarmTypeOK
  /\ use \in [Port -> {"none", "port", "mbox", "closing", "freed"}]
  /\ fetching \in [Task -> Port \cup {NULL}]
  /\ at \in [Task -> FetchLocation]

MboxInit ==
  /\ MsgInit
  /\ AlarmInit
  /\ use = [p \in Port |-> "none"]
  /\ fetching = [t \in Task |-> NULL]
  /\ at = [t \in Task |-> "out"]

Idle(t) == CanCall(t) /\ at[t] = "out"

At(t, loc) == status[t] = "active" /\ at[t] = loc

Goto(t, loc) ==
  /\ at' = [at EXCEPT ![t] = loc]
  /\ fetching' = [fetching EXCEPT ![t] = IF loc = "out" THEN NULL ELSE @]

-----------------------------------------------------------------------------

\* Slip: the object keeps the signal of its earlier use.
sys_mbox_new_stale(t, p) ==
  /\ Idle(t)
  /\ use[p] = "none"
  /\ port' = [port EXCEPT ![p].action = "ignore"]
  /\ message_list' = [message_list EXCEPT ![p] = << >>]
  /\ use' = [use EXCEPT ![p] = "mbox"]
  /\ UNCHANGED <<sigVars, reply_port, holder, pc, alarmVars, fetching, at>>

sys_mbox_new(t, p) ==
  /\ Idle(t)
  /\ use[p] = "none"
  /\ port' = [port EXCEPT ![p] = [task |-> NULL, signal |-> {},
                                  action |-> "ignore"]]
  /\ message_list' = [message_list EXCEPT ![p] = << >>]
  /\ use' = [use EXCEPT ![p] = "mbox"]
  /\ UNCHANGED <<sigVars, reply_port, holder, pc, alarmVars, fetching, at>>

\* sys_mbox_post() and sys_mbox_trypost(): message m comes from mem_malloc().
sys_mbox_post(t, m, p) ==
  /\ Idle(t)
  /\ use[p] = "mbox"
  /\ holder[m] = Heap
  /\ Send(m, p)
  /\ UNCHANGED <<reply_port, alarmVars, mboxVars>>

\* lwIP polls a mailbox that it never waits at, or drains one that it is
\* about to free.
AfterPoll(p) == IF port[p].action = "ignore" THEN "mbox" ELSE "closing"

\* The message is taken and its signal is not.
sys_arch_mbox_tryfetch(t, p) ==
  /\ Idle(t)
  /\ use[p] \in {"mbox", "closing"}
  /\ \A u \in Task : fetching[u] # p
  /\ RemHead(p, Heap)
  /\ use' = [use EXCEPT ![p] = AfterPoll(p)]
  /\ UNCHANGED <<sigVars, pc, alarmVars, fetching, at>>

\* The task that fetches from mailbox p, once there is one.
Fetcher(t, p) == port[p].task \in {NULL, t}

\* lwIP frees a mailbox when it has drained it and nobody fetches from it.
MayFree(t, p) ==
  /\ Idle(t)
  /\ use[p] \in {"mbox", "closing"}
  /\ message_list[p] = << >>
  /\ \A u \in Task : fetching[u] # p
  /\ FreedByFetcher => Fetcher(t, p)

\* signal_free() in the task that calls, whoever allocated the bit.  If its
\* asserts fail (FreeAsserts) the system halts.
sys_mbox_free(t, p) ==
  /\ MayFree(t, p)
  /\ SigFree(t, port[p].signal)
  /\ use' = [use EXCEPT ![p] = "freed"]
  /\ at' = [at EXCEPT ![t] = "freed"]
  /\ fetching' = [fetching EXCEPT ![t] = p]
  /\ UNCHANGED <<portVars, pc, alarmVars>>

\* "sys_mbox_free() is always called before calling this function."
sys_mbox_set_invalid(t) ==
  /\ At(t, "freed")
  /\ port' = [port EXCEPT ![fetching[t]].action = "invalid"]
  /\ use' = [use EXCEPT ![fetching[t]] = "none"]
  /\ Goto(t, "out")
  /\ UNCHANGED <<sigVars, message_list, reply_port, holder, pc, alarmVars>>

-----------------------------------------------------------------------------
(* sys_arch_mbox_fetch() *)

\* The mailbox is bound to the task.  action is written last, so a message
\* posted before that is as good as posted before the call.
sys_arch_mbox_fetch(t, p) ==
  /\ t # BootTask
  /\ Idle(t)
  /\ use[p] = "mbox"
  /\ Fetcher(t, p)
  /\ \/ /\ port[p].signal = {}
        /\ \E b \in SignalNumber :
             /\ FindsBit(t, b)
             /\ SigAllocate(t, b)
             /\ port' = [port EXCEPT ![p] = [task |-> t, signal |-> Mask(b),
                                             action |-> "signal"]]
     \/ port[p].signal # {} /\ UNCHANGED <<port, sigVars>>
  /\ at' = [at EXCEPT ![t] = "ready"]
  /\ fetching' = [fetching EXCEPT ![t] = p]
  /\ UNCHANGED <<message_list, reply_port, holder, pc, alarmVars, use>>

\* With a timeout there is a timer ...
fetch_timer_allocate(t) ==
  /\ At(t, "ready")
  /\ \E b \in SignalNumber : AlarmAllocate(t, b)
  /\ Goto(t, "timer")
  /\ UNCHANGED <<portVars, pc, use>>

\* ... which is not queued if its tick has elapsed by the time of the test.
fetch_timer_add(t) ==
  /\ At(t, "timer")
  /\ AlarmSet(t) \/ UNCHANGED <<sigVars, alarmVars>>
  /\ Goto(t, "wait")
  /\ UNCHANGED <<portVars, pc, use>>

\* Slip: any signal is taken for the mailbox's.
AnySignal(t) == TRUE

\* got_signals & mbox->signal
GotMail(t) == port[fetching[t]].signal \subseteq sig_recvd[t]

\* signal_wait() returns: for a message, or only for the timer.
Decide(t) == Goto(t, IF GotMail(t) THEN "got" ELSE "end")

\* The list is not looked at before the wait.
fetch_wait(t) ==
  LET S == port[fetching[t]].signal \cup alarm_signal[t]
  IN  /\ At(t, "ready") \/ At(t, "wait")
      /\ \/ SigWaitTake(t, S) /\ Decide(t)
         \/ SigWaitBlock(t, S) /\ Goto(t, "asleep")
      /\ UNCHANGED <<portVars, pc, alarmVars, use>>

fetch_wait_return(t) ==
  /\ at[t] = "asleep"
  /\ SigResume(t)
  /\ Decide(t)
  /\ UNCHANGED <<portVars, pc, alarmVars, use>>

\* msgport_get(), whose result is asserted not to be NULL, and mem_free().
fetch_get(t) ==
  /\ At(t, "got")
  /\ RemHead(fetching[t], Heap)
  /\ Goto(t, IF alarm_signal[t] = {} THEN "out" ELSE "end")
  /\ UNCHANGED <<sigVars, pc, alarmVars, use>>

\* Slip: the timer is left running.
fetch_leave_timer(t) ==
  /\ At(t, "end")
  /\ Goto(t, "stopped")
  /\ UNCHANGED <<sigVars, alarmVars, portVars, pc, use>>

fetch_timer_abort(t) ==
  /\ At(t, "end")
  /\ AlarmStop(t)
  /\ Goto(t, "stopped")
  /\ UNCHANGED <<portVars, pc, use>>

fetch_timer_free(t) ==
  /\ At(t, "stopped")
  /\ AlarmFree(t)
  /\ Goto(t, "out")
  /\ UNCHANGED <<portVars, pc, use>>

-----------------------------------------------------------------------------

\* A task that uses message ports.  No mailbox is a reply port, and a message
\* port stays one ("Assume that the port does not disappear", msgport.c).
PortUser(t) ==
  /\ at[t] = "out"
  /\ \/ Start(t) /\ UNCHANGED use
     \/ \E p \in Port :
          /\ use[p] \in {"none", "port"}
          /\ PortStep(t, p)
          /\ use' = [use EXCEPT ![p] = "port"]
          /\ \A m \in Message : reply_port'[m] # NULL => use'[reply_port'[m]] = "port"
     \/ \E m \in Message : msgport_reply(t, m) /\ UNCHANGED use
  /\ UNCHANGED <<alarmVars, fetching, at>>

MboxUser(t) ==
  \/ \E p \in Port :
       \/ sys_mbox_new(t, p)
       \/ \E m \in Message : sys_mbox_post(t, m, p)
       \/ sys_arch_mbox_tryfetch(t, p)
       \/ sys_mbox_free(t, p)
       \/ sys_arch_mbox_fetch(t, p)
  \/ sys_mbox_set_invalid(t)
  \/ fetch_timer_allocate(t)
  \/ fetch_timer_add(t)
  \/ fetch_wait(t)
  \/ fetch_wait_return(t)
  \/ fetch_get(t)
  \/ fetch_timer_abort(t)
  \/ fetch_timer_free(t)

MboxNext ==
  \/ \E S \in SUBSET armed : AlarmFire(S) /\ UNCHANGED <<portVars, pc, mboxVars>>
  \/ \E t \in Task : PortUser(t) \/ MboxUser(t)

MboxSpec == MboxInit /\ [][MboxNext]_sysVars

-----------------------------------------------------------------------------

\* assert(NULL != m) in sys_arch_mbox_fetch(): the signal and the messages are
\* counted apart, yet the signal of a mailbox never comes without a message,
\* through any number of posts, fetches with and without timeout, and frees.
FetchFindsMessage ==
  \A t \in Task : at[t] = "got" => message_list[fetching[t]] # << >>

\* The Timer and its bit belong to the call: on no path does a fetch return
\* with a timer queued on its dead stack frame or with the timer's bit still
\* allocated, and no free takes the bit away while the timer has it.
TimersReturned ==
  \A t \in Task :
    /\ t \in armed => at[t] \in {"wait", "asleep", "got", "end"}
    /\ alarm_signal[t] # {} => at[t] \notin {"out", "freed"}
    /\ alarm_signal[t] \subseteq sig_alloc[t] \ SIGF_SINGLE

\* "Do not free unallocated signals", "Do not free SIGF_SINGLE!" (task.c): the
\* asserts of signal_free() hold when sys_mbox_free() is called, after any use
\* of the object and of its bit before.
FreeAsserts ==
  \A t \in Task, p \in Port :
    MayFree(t, p) => port[p].signal \subseteq sig_alloc[t] \ SIGF_SINGLE

\* "Block until arrival" (sys_arch.c): a task sleeps in sys_arch_mbox_fetch()
\* only while its mailbox is empty.
FetchBlocksUntilArrival ==
  \A t \in Task :
    at[t] = "asleep" /\ status[t] = "blocked" => message_list[fetching[t]] = << >>
=============================================================================
