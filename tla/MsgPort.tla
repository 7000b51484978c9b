------------------------------- MODULE MsgPort -------------------------------
(***************************************************************************)
(* The message ports of src/msgport.c.  A task initializes ports of its    *)
(* own; a task that owns a message sends it to a port or replies it, and a *)
(* task that takes a message off a port owns it from then on.  Module      *)
(* SysMbox adds the mailboxes of the lwIP port.                            *)
(*                                                                         *)
(* As in module Semaphore the tasks use the abstract signal system of      *)
(* module Signals.  The loop of msgport_wait() runs with interrupts        *)
(* disabled except while the task sleeps in signal_wait(), so what it does *)
(* between two sleeps is one step.                                         *)
(***************************************************************************)
EXTENDS Signals, FiniteSets, ListOps

CONSTANTS
  Port, Message,
  NULL,
  Heap    \* owns the message objects that lwIP's mem_malloc() can return

ASSUME MsgPortAssumption ==
  /\ NULL \notin Task \cup Port
  /\ Heap \notin Task \cup {NULL}

VARIABLES
  port,          \* the fields task, signal and action of each MsgPort
  message_list,  \* the messages queued at each port
  reply_port,    \* of each message
  holder,        \* auxiliary: the task (or Heap) that owns each message, NULL
                 \* while the message is queued
  pc             \* the port of the msgport_wait() a task is in, or NULL

portVars == <<port, message_list, reply_port, holder>>
allVars == <<sigVars, portVars, pc>>

\* A port that signals has exactly one signal bit, which is not SIGF_SINGLE.
MsgTypeOK ==
  /\ SigTypeOK
  /\ port \in [Port -> [task : Task \cup {NULL}, signal : SUBSET SignalNumber,
                        action : {"invalid", "signal", "ignore"}]]
  /\ message_list \in [Port -> Seq(Message)]
  /\ reply_port \in [Message -> Port \cup {NULL}]
  /\ holder \in [Message -> Task \cup {NULL, Heap}]
  /\ pc \in [Task -> Port \cup {NULL}]
  /\ \A p \in Port :
       port[p].action = "signal" =>
         Cardinality(port[p].signal) = 1 /\ port[p].signal # SIGF_SINGLE

\* Every message starts out with some task, or on the heap.
MsgInit ==
  /\ SigInit
  /\ port = [p \in Port |-> [task |-> NULL, signal |-> {}, action |-> "invalid"]]
  /\ message_list = [p \in Port |-> << >>]
  /\ reply_port = [m \in Message |-> NULL]
  /\ holder \in [Message -> Task \cup {Heap}]
  /\ pc = [t \in Task |-> NULL]

\* Task t runs application code.
CanCall(t) == status[t] = "active" /\ pc[t] = NULL

Ready(p) == port[p].action # "invalid"

Start(t) == SigCreate(t) /\ UNCHANGED <<portVars, pc>>

-----------------------------------------------------------------------------

\* Slip: the bit number is taken for a mask.
NumberAsMask(b) == {k \in SignalNumber : (b \div 2 ^ k) % 2 = 1}

\* 1 << signum
Mask(b) == {b}

msgport_init(t, p) ==
  /\ CanCall(t)
  /\ ~ Ready(p)
  /\ \E b \in SignalNumber :
       /\ FindsBit(t, b)
       /\ SigAllocate(t, b)
       /\ port' = [port EXCEPT ![p] = [task |-> t, signal |-> Mask(b),
                                       action |-> "signal"]]
  /\ message_list' = [message_list EXCEPT ![p] = << >>]
  /\ UNCHANGED <<reply_port, holder, pc>>

\* Slip: the test of the port's action is the wrong way round.
NotifiesOthers(p) == port[p].task # NULL /\ port[p].action # "signal"

\* Does a message sent to p signal the owner of p?
Notifies(p) == port[p].task # NULL /\ port[p].action = "signal"

\* The body of msgport_send().
Send(m, p) ==
  /\ message_list' = [message_list EXCEPT ![p] = Append(@, m)]
  /\ holder' = [holder EXCEPT ![m] = NULL]
  /\ \/ Notifies(p) /\ SigSend(port[p].task, port[p].signal)
     \/ ~ Notifies(p) /\ UNCHANGED sigVars
  /\ UNCHANGED <<port, pc>>

\* Task t sends a message it owns, having set its reply port.
msgport_send(t, m, p, r) ==
  /\ CanCall(t)
  /\ holder[m] = t
  /\ Ready(p)
  /\ r # NULL => Ready(r)
  /\ reply_port' = [reply_port EXCEPT ![m] = r]
  /\ Send(m, p)

msgport_reply(t, m) ==
  /\ CanCall(t)
  /\ holder[m] = t
  /\ reply_port[m] # NULL
  /\ Send(m, reply_port[m])
  /\ UNCHANGED reply_port

\* Slip: the message is read but not taken off the list.
Peek(q) == q

\* What list_rem_head() leaves.
Rest(q) == Tail(q)

\* The body of msgport_get() when there is a message: it goes to h.
RemHead(p, h) ==
  /\ message_list[p] # << >>
  /\ message_list' = [message_list EXCEPT ![p] = Rest(@)]
  /\ holder' = [holder EXCEPT ![Head(message_list[p])] = h]
  /\ UNCHANGED <<port, reply_port>>

\* Task t, not necessarily the owner of p, takes a message if there is one.
msgport_get(t, p) ==
  /\ CanCall(t)
  /\ Ready(p)
  /\ RemHead(p, t)
  /\ UNCHANGED <<sigVars, pc>>

-----------------------------------------------------------------------------

\* The loop of msgport_wait() ends.
GoesOn(p) == message_list[p] # << >>

\* signal_wait() in msgport_wait() puts task t to sleep.  A signal left over
\* from a message that msgport_get() has taken already ends one round of the
\* loop and no more.
Sleep(t, p) ==
  /\ status' = [status EXCEPT ![t] = "blocked"]
  /\ sig_wait' = [sig_wait EXCEPT ![t] = port[p].signal]
  /\ sig_recvd' = [sig_recvd EXCEPT ![t] = @ \ port[p].signal]
  /\ pc' = [pc EXCEPT ![t] = p]
  /\ UNCHANGED <<sig_alloc, portVars>>

\* msgport_wait() finds the list empty.  If a message is there it returns at
\* once and changes nothing.  user_init() must not wait.
msgport_wait(t, p) ==
  /\ t # BootTask
  /\ CanCall(t)
  /\ Ready(p) /\ port[p].task = t
  /\ message_list[p] = << >>
  /\ Sleep(t, p)

\* A signal has come: look at the list again.
msgport_wait_resume(t, p) ==
  /\ pc[t] = p
  /\ status[t] = "woken"
  /\ \/ /\ GoesOn(p)
        /\ SigResume(t)
        /\ pc' = [pc EXCEPT ![t] = NULL]
        /\ UNCHANGED portVars
     \/ /\ ~ GoesOn(p)
        /\ Sleep(t, p)

\* Task t uses port p.
PortStep(t, p) ==
  \/ msgport_init(t, p)
  \/ msgport_get(t, p)
  \/ msgport_wait(t, p)
  \/ msgport_wait_resume(t, p)
  \/ \E m \in Message, r \in Port \cup {NULL} : msgport_send(t, m, p, r)

MsgNext ==
  \E t \in Task :
    \/ Start(t)
    \/ \E p \in Port : PortStep(t, p)
    \/ \E m \in Message : msgport_reply(t, m)

MsgSpec == MsgInit /\ [][MsgNext]_allVars

-----------------------------------------------------------------------------

\* No message is lost or linked twice: it is queued at one port, once, or it
\* belongs to one task.  Every message is a node of at most one list, so a
\* message that were sent twice would corrupt two ports.
MessagesKept ==
  /\ \A p \in Port : NoDuplicates(message_list[p])
  /\ \A m \in Message :
       /\ holder[m] = NULL <=> \E p \in Port : OnList(message_list[p], m)
       /\ \A p, q \in Port :
            OnList(message_list[p], m) /\ OnList(message_list[q], m) => p = q

\* No wake-up is lost: a task that sleeps in msgport_wait() has an empty port,
\* however the messages before were sent, signalled and taken.
NobodySleepsOnMessages ==
  \A t \in Task :
    pc[t] # NULL /\ status[t] = "blocked" => message_list[pc[t]] = << >>

\* The signal of one port never wakes the owner for another: the ports of a
\* task have signals of their own.
OwnSignals ==
  \A p, q \in Port :
    p # q /\ Ready(p) /\ Ready(q) /\ port[p].task = port[q].task =>
      port[p].signal \cap port[q].signal = {}
=============================================================================
