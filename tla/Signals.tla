------------------------------- MODULE Signals -------------------------------
(***************************************************************************)
(* What the kernel promises its tasks about signals, without scheduler,    *)
(* interrupts or lists: each task has a set of received signals; a task    *)
(* that waits for signals either gets them at once or is blocked until one *)
(* of them is sent, and then gets, exactly once, what it waited for.       *)
(* Module Kernel implements this specification; the semaphore and the      *)
(* other IPC services are built on it.                                     *)
(***************************************************************************)
EXTENDS Integers

CONSTANTS
  Task,
  BootTask,       \* the task that exists from the start
  SIGNALS_WIDTH

SignalNumber == 0 .. SIGNALS_WIDTH - 1

SIGF_SINGLE == {0}

ASSUME SignalsAssumption ==
  /\ BootTask \in Task
  /\ SIGNALS_WIDTH \in Nat \ {0}

VARIABLES
  status,      \* of each task: "none", "active", "blocked" or "woken"
  sig_alloc,   \* signals each task owns
  sig_wait,    \* argument of its last wait
  sig_recvd    \* signals sent to it and not yet taken

sigVars == <<status, sig_alloc, sig_wait, sig_recvd>>

SigTypeOK ==
  /\ status \in [Task -> {"none", "active", "blocked", "woken"}]
  /\ sig_alloc \in [Task -> SUBSET SignalNumber]
  /\ sig_wait \in [Task -> SUBSET SignalNumber]
  /\ sig_recvd \in [Task -> SUBSET SignalNumber]

SigInit ==
  /\ status = [t \in Task |-> IF t = BootTask THEN "active" ELSE "none"]
  /\ sig_alloc = [t \in Task |-> SIGF_SINGLE]
  /\ sig_wait = [t \in Task |-> {}]
  /\ sig_recvd = [t \in Task |-> {}]

SigCreate(t) ==
  /\ status[t] = "none"
  /\ status' = [status EXCEPT ![t] = "active"]
  /\ sig_alloc' = [sig_alloc EXCEPT ![t] = SIGF_SINGLE]
  /\ sig_wait' = [sig_wait EXCEPT ![t] = {}]
  /\ sig_recvd' = [sig_recvd EXCEPT ![t] = {}]

\* Slip: the search does not look at the bits in use.
FindsAnyBit(t, b) == TRUE

\* signal_allocate(-1) finds bit b, the highest free one.  The callers' asserts
\* that there is one hold.
FindsBit(t, b) ==
  b \notin sig_alloc[t] /\ b + 1 .. SIGNALS_WIDTH - 1 \subseteq sig_alloc[t]

\* Slip: a signal from an earlier use of the bit is still there.
SigAllocateStale(t, b) ==
  /\ status[t] = "active"
  /\ sig_alloc' = [sig_alloc EXCEPT ![t] = @ \cup {b}]
  /\ UNCHANGED <<status, sig_wait, sig_recvd>>

\* A bit is allocated, and starts out not received.  A bit that the task owns
\* already is cleared all the same.
SigAllocate(t, b) ==
  /\ status[t] = "active"
  /\ sig_alloc' = [sig_alloc EXCEPT ![t] = @ \cup {b}]
  /\ sig_wait' = [sig_wait EXCEPT ![t] = @ \ {b}]
  /\ sig_recvd' = [sig_recvd EXCEPT ![t] = @ \ {b}]
  /\ UNCHANGED status

SigFree(t, S) ==
  /\ status[t] = "active"
  /\ S \subseteq sig_alloc[t] \ SIGF_SINGLE
  /\ sig_alloc' = [sig_alloc EXCEPT ![t] = @ \ S]
  /\ UNCHANGED <<status, sig_wait, sig_recvd>>

\* Signals never get lost, and a blocked task is woken by the first one it
\* waits for.
SigSend(t, S) ==
  /\ status[t] # "none"
  /\ sig_recvd' = [sig_recvd EXCEPT ![t] = @ \cup S]
  /\ status' = [status EXCEPT ![t] =
                  IF @ = "blocked" /\ S \cap sig_wait[t] # {} THEN "woken"
                                                             ELSE @]
  /\ UNCHANGED <<sig_alloc, sig_wait>>

\* The wait is over at once ...
SigWaitTake(t, S) ==
  /\ status[t] = "active"
  /\ S \cap sig_recvd[t] # {}
  /\ sig_wait' = [sig_wait EXCEPT ![t] = S]
  /\ sig_recvd' = [sig_recvd EXCEPT ![t] = @ \ S]
  /\ UNCHANGED <<status, sig_alloc>>

\* ... or the task is blocked ...
SigWaitBlock(t, S) ==
  /\ status[t] = "active"
  /\ S \cap sig_recvd[t] = {}
  /\ status' = [status EXCEPT ![t] = "blocked"]
  /\ sig_wait' = [sig_wait EXCEPT ![t] = S]
  /\ UNCHANGED <<sig_alloc, sig_recvd>>

\* ... until it is woken, and then the wait returns: it never blocks again and
\* never returns empty-handed.
SigResume(t) ==
  /\ status[t] = "woken"
  /\ sig_wait[t] \cap sig_recvd[t] # {}
  /\ status' = [status EXCEPT ![t] = "active"]
  /\ sig_recvd' = [sig_recvd EXCEPT ![t] = @ \ sig_wait[t]]
  /\ UNCHANGED <<sig_alloc, sig_wait>>

SigNext ==
  \E t \in Task :
    \/ SigCreate(t)
    \/ SigResume(t)
    \/ \E b \in SignalNumber : SigAllocate(t, b)
    \/ \E S \in SUBSET SignalNumber :
         \/ SigFree(t, S)
         \/ SigSend(t, S)
         \/ SigWaitTake(t, S)
         \/ SigWaitBlock(t, S)

SigSpec == SigInit /\ [][SigNext]_sigVars
=============================================================================
