---------------------------- MODULE SysMboxProofs ----------------------------
(***************************************************************************)
(* The message ports and the mailboxes of the lwIP port, for any tasks,    *)
(* ports and messages.  The invariant comes in layers, each proved with    *)
(* the help of the ones before: where the messages are, the signal bits of *)
(* ports and timers, where the tasks are and who sleeps; and, if a mailbox *)
(* is freed by the task that fetches from it, which task owns which bits   *)
(* and what the signals say about the messages.                            *)
(***************************************************************************)
EXTENDS SysMbox, ListOpsProofs

-----------------------------------------------------------------------------
(* Where the messages are. *)

\* MboxTypeOK without the clause on the number of bits of a port.
TypeInv ==
  /\ SigTypeOK
  /\ AlarmTypeOK
  /\ port \in [Port -> [task : Task \cup {NULL}, signal : SUBSET SignalNumber,
                        action : {"invalid", "signal", "ignore"}]]
  /\ message_list \in [Port -> Seq(Message)]
  /\ reply_port \in [Message -> Port \cup {NULL}]
  /\ holder \in [Message -> Task \cup {NULL, Heap}]
  /\ pc \in [Task -> Port \cup {NULL}]
  /\ use \in [Port -> {"none", "port", "mbox", "closing", "freed"}]
  /\ fetching \in [Task -> Port \cup {NULL}]
  /\ at \in [Task -> FetchLocation]

\* What a MsgPort object serves as agrees with its field action, and an object
\* that is not in use, or not for long, is empty.
UseInv(p) ==
  /\ use[p] = "none" <=> port[p].action = "invalid"
  /\ use[p] = "port" => port[p].action = "signal"
  /\ use[p] \in {"none", "freed"} => message_list[p] = << >>

\* A task waits at a message port, and fetches from a port object or has just
\* freed one.
WhereInv(t) ==
  /\ pc[t] # NULL => use[pc[t]] = "port"
  /\ at[t] # "out" => fetching[t] # NULL
  /\ at[t] = "freed" => use[fetching[t]] = "freed"

\* A mailbox is freed by one task.
Sole ==
  \A t, u \in Task :
    at[t] = "freed" /\ at[u] = "freed" /\ fetching[t] = fetching[u] => t = u

\* The first layer of the invariant: types, objects in use and messages.
ListInv ==
  /\ TypeInv
  /\ \A p \in Port : UseInv(p)
  /\ \A t \in Task : WhereInv(t)
  /\ Sole
  /\ \A m \in Message : reply_port[m] # NULL => use[reply_port[m]] = "port"
  /\ MessagesKept

\* msgport_send(): a message that is in somebody's hands is linked.
LEMMA SendKept ==
  ASSUME ListInv, NEW m \in Message, NEW p \in Port, holder[m] # NULL, Send(m, p)
  PROVE  /\ message_list' \in [Port -> Seq(Message)]
         /\ message_list' = [message_list EXCEPT ![p] = Append(@, m)]
         /\ holder' \in [Message -> Task \cup {NULL, Heap}]
         /\ MessagesKept'
<1>1. /\ message_list \in [Port -> Seq(Message)]
      /\ holder \in [Message -> Task \cup {NULL, Heap}]
      /\ message_list' = [message_list EXCEPT ![p] = Append(@, m)]
      /\ holder' = [holder EXCEPT ![m] = NULL]
  BY DEF ListInv, TypeInv, Send
<1>2. \A q \in Port : ~ OnList(message_list[q], m)
  BY DEF ListInv, MessagesKept
<1>3. /\ Append(message_list[p], m) \in Seq(Message)
      /\ \A x : OnList(Append(message_list[p], m), x) <=> x = m \/ OnList(message_list[p], x)
      /\ NoDuplicates(Append(message_list[p], m))
  BY <1>1, <1>2, AddTailMembers DEF ListInv, MessagesKept
<1>4. \A q \in Port \ {p} : message_list'[q] = message_list[q]
  BY <1>1
<1>5. message_list'[p] = Append(message_list[p], m)
  BY <1>1
<1>6. \A x \in Message \ {m} : holder'[x] = holder[x]
  BY <1>1
<1>7. holder'[m] = NULL
  BY <1>1
<1>8. MessagesKept'
  <2>1. \A q \in Port : NoDuplicates(message_list'[q])
    BY <1>3, <1>4, <1>5 DEF ListInv, MessagesKept
  <2>2. ASSUME NEW x \in Message
        PROVE  /\ holder'[x] = NULL <=> \E q \in Port : OnList(message_list'[q], x)
               /\ \A q, r \in Port :
                    OnList(message_list'[q], x) /\ OnList(message_list'[r], x) => q = r
    <3>1. CASE x = m
      BY <1>2, <1>3, <1>4, <1>5, <1>7, <3>1
    <3>2. CASE x # m
      <4>1. \A q \in Port : OnList(message_list'[q], x) <=> OnList(message_list[q], x)
        BY <1>3, <1>4, <1>5, <3>2
      <4> QED
        BY <1>6, <3>2, <4>1 DEF ListInv, MessagesKept
    <3> QED
      BY <3>1, <3>2
  <2> QED
    BY <2>1, <2>2 DEF MessagesKept
<1> QED
  BY <1>1, <1>3, <1>8

\* msgport_get(): the message at the head is unlinked and goes to h.
LEMMA RemHeadKept ==
  ASSUME ListInv, NEW p \in Port, NEW h \in Task \cup {Heap}, RemHead(p, h)
  PROVE  /\ message_list' \in [Port -> Seq(Message)]
         /\ message_list' = [message_list EXCEPT ![p] = Tail(@)]
         /\ holder' \in [Message -> Task \cup {NULL, Heap}]
         /\ MessagesKept'
<1> DEFINE m == Head(message_list[p])
<1>1. /\ message_list \in [Port -> Seq(Message)]
      /\ holder \in [Message -> Task \cup {NULL, Heap}]
      /\ message_list[p] # << >>
      /\ message_list' = [message_list EXCEPT ![p] = Tail(@)]
      /\ holder' = [holder EXCEPT ![m] = h]
  BY DEF ListInv, TypeInv, RemHead, Rest
<1>2. /\ m \in Message /\ OnList(message_list[p], m)
      /\ Tail(message_list[p]) \in Seq(Message)
      /\ \A x : OnList(Tail(message_list[p]), x) <=> x # m /\ OnList(message_list[p], x)
      /\ NoDuplicates(Tail(message_list[p]))
  BY <1>1, RemHeadMembers DEF ListInv, MessagesKept
<1> HIDE DEF m
<1>3. \A q \in Port \ {p} : message_list'[q] = message_list[q]
  BY <1>1
<1>4. message_list'[p] = Tail(message_list[p])
  BY <1>1
<1>5. \A x \in Message \ {m} : holder'[x] = holder[x]
  BY <1>1
<1>6. holder'[m] = h /\ h # NULL
  BY <1>1, <1>2, MsgPortAssumption
<1>7. MessagesKept'
  <2>1. \A q \in Port : NoDuplicates(message_list'[q])
    BY <1>2, <1>3, <1>4 DEF ListInv, MessagesKept
  <2>2. ASSUME NEW x \in Message
        PROVE  /\ holder'[x] = NULL <=> \E q \in Port : OnList(message_list'[q], x)
               /\ \A q, r \in Port :
                    OnList(message_list'[q], x) /\ OnList(message_list'[r], x) => q = r
    <3>1. CASE x = m
      <4>1. \A q \in Port : OnList(message_list[q], m) => q = p
        BY <1>2 DEF ListInv, MessagesKept
      <4>2. \A q \in Port : ~ OnList(message_list'[q], m)
        BY <1>2, <1>3, <1>4, <4>1
      <4> QED
        BY <1>6, <3>1, <4>2
    <3>2. CASE x # m
      <4>1. \A q \in Port : OnList(message_list'[q], x) <=> OnList(message_list[q], x)
        BY <1>2, <1>3, <1>4, <3>2
      <4> QED
        BY <1>5, <3>2, <4>1 DEF ListInv, MessagesKept
    <3> QED
      BY <3>1, <3>2
  <2> QED
    BY <2>1, <2>2 DEF MessagesKept
<1> QED
  BY <1>1, <1>2, <1>7

\* The initialization of an object that is not in use links or loses nothing.
LEMMA ListInitKept ==
  ASSUME ListInv, NEW p \in Port, ~ Ready(p),
         message_list' = [message_list EXCEPT ![p] = << >>], UNCHANGED holder
  PROVE  message_list' = message_list /\ MessagesKept'
<1>1. message_list[p] = << >> /\ message_list \in [Port -> Seq(Message)]
  BY DEF ListInv, TypeInv, UseInv, Ready
<1>2. message_list' = message_list
  BY <1>1
<1> QED
  BY <1>2 DEF ListInv, MessagesKept

\* The steps that neither initialize nor free a port object.
LEMMA QuietKept ==
  ASSUME ListInv, TypeInv', UNCHANGED <<port, reply_port, pc>>,
         \/ UNCHANGED <<message_list, holder>>
         \/ \E p \in Port, h \in Task \cup {Heap} : RemHead(p, h)
         \/ \E p \in Port, m \in Message : 
              /\ holder[m] # NULL /\ Send(m, p)
              /\ use[p] \notin {"none", "freed"},
         \A p \in Port : \/ use'[p] = use[p]
                         \/ {use'[p], use[p]} \subseteq {"mbox", "closing"},
         \A t \in Task :
           /\ at'[t] # "out" => fetching'[t] # NULL
           /\ at'[t] = "freed" => at[t] = "freed" /\ fetching'[t] = fetching[t]
  PROVE  ListInv'
<1>1. MessagesKept'
  BY SendKept, RemHeadKept DEF ListInv, MessagesKept
<1>2. ASSUME NEW q \in Port
      PROVE  UseInv(q)'
  <2>1. /\ UseInv(q)
        /\ use[q] = "none" <=> use'[q] = "none"
        /\ use[q] = "freed" <=> use'[q] = "freed"
    BY DEF ListInv
  <2>2. use[q] \in {"none", "freed"} => message_list'[q] = message_list[q]
    <3>1. CASE \E p \in Port, h \in Task \cup {Heap} : RemHead(p, h)
      <4>1. PICK p \in Port, h \in Task \cup {Heap} : RemHead(p, h)
        BY <3>1
      <4>2. message_list[p] # << >> /\ message_list' = [message_list EXCEPT ![p] = Tail(@)]
        BY <4>1 DEF RemHead, Rest
      <4> QED
        BY <2>1, <4>2 DEF UseInv, ListInv, TypeInv
    <3>2. CASE \E p \in Port, m \in Message :
                 holder[m] # NULL /\ Send(m, p) /\ use[p] \notin {"none", "freed"}
      <4>1. PICK p \in Port, m \in Message : Send(m, p) /\ use[p] \notin {"none", "freed"}
        BY <3>2
      <4>2. message_list' = [message_list EXCEPT ![p] = Append(@, m)]
        BY <4>1 DEF Send
      <4> QED
        BY <2>1, <4>1, <4>2 DEF ListInv, TypeInv
    <3> QED
      BY <3>1, <3>2
  <2> QED
    BY <2>1, <2>2 DEF UseInv
<1>3. (\A t \in Task : WhereInv(t)') /\ Sole'
  <2>1. Sole'
    BY DEF ListInv, Sole
  <2>2. ASSUME NEW t \in Task
        PROVE  WhereInv(t)'
    <3>1. WhereInv(t) /\ fetching[t] \in Port \cup {NULL} /\ pc[t] \in Port \cup {NULL}
      BY DEF ListInv, TypeInv
    <3>2. pc'[t] # NULL => use'[pc'[t]] = "port"
      BY <3>1 DEF WhereInv
    <3>3. at'[t] = "freed" => use'[fetching'[t]] = "freed"
      BY <3>1 DEF WhereInv
    <3> QED
      BY <3>2, <3>3 DEF WhereInv
  <2> QED
    BY <2>1, <2>2
<1>4. ASSUME NEW m \in Message, reply_port'[m] # NULL
      PROVE  use'[reply_port'[m]] = "port"
  <2>1. reply_port'[m] \in Port /\ use[reply_port'[m]] = "port"
    BY <1>4 DEF ListInv, TypeInv
  <2> QED
    BY <2>1
<1> QED
  BY <1>1, <1>2, <1>3, <1>4 DEF ListInv

\* SigSend, SigAllocate ... keep the types.
LEMMA SigTypes ==
  ASSUME SigTypeOK, NEW t, NEW S \in SUBSET SignalNumber, NEW b \in SignalNumber,
         \/ SigSend(t, S) \/ SigAllocate(t, b) \/ SigFree(t, S) \/ SigCreate(t)
         \/ SigWaitTake(t, S) \/ SigWaitBlock(t, S) \/ SigResume(t)
         \/ UNCHANGED sigVars
  PROVE  SigTypeOK'
<1>1. SIGF_SINGLE \subseteq SignalNumber
  BY SignalsAssumption DEF SignalNumber, SIGF_SINGLE
<1> QED
  BY <1>1 DEF SigTypeOK, SigSend, SigAllocate, SigFree, SigCreate, SigWaitTake,
              SigWaitBlock, SigResume, sigVars

\* The signal a message sent to p may cause.
LEMMA SendTypes ==
  ASSUME ListInv, NEW m \in Message, NEW p \in Port, Send(m, p)
  PROVE  SigTypeOK'
<1>1. SigTypeOK /\ port[p].signal \in SUBSET SignalNumber /\ 0 \in SignalNumber
  BY SignalsAssumption DEF ListInv, TypeInv, SignalNumber
<1> QED
  BY <1>1, SigTypes DEF Send

\* Tasks that use message ports.
LEMMA PortUserLists ==
  ASSUME ListInv, NEW t \in Task, PortUser(t)
  PROVE  ListInv'
<1> USE DEF alarmVars, portVars
<1>0. TypeInv /\ SigTypeOK /\ 0 \in SignalNumber /\ {} \in SUBSET SignalNumber
  BY SignalsAssumption DEF ListInv, TypeInv, SignalNumber
<1>1. UNCHANGED <<alarmVars, fetching, at>>
  BY DEF PortUser
<1>2. CASE Start(t) /\ UNCHANGED use
  <2>1. TypeInv'
    BY <1>0, <1>1, <1>2, SigTypes DEF TypeInv, AlarmTypeOK, Start
  <2>2. UNCHANGED <<port, reply_port, pc, message_list, holder>>
    BY <1>2 DEF Start
  <2> QED
    BY <1>1, <1>2, <2>1, <2>2, QuietKept DEF ListInv, WhereInv
<1>3. ASSUME NEW m \in Message, msgport_reply(t, m), UNCHANGED use
      PROVE  ListInv'
  <2> DEFINE p == reply_port[m]
  <2>1. /\ p \in Port /\ use[p] = "port" /\ holder[m] # NULL
        /\ Send(m, p) /\ UNCHANGED reply_port
    BY <1>0, <1>3, MsgPortAssumption DEF msgport_reply, ListInv, TypeInv
  <2> HIDE DEF p
  <2>2. UNCHANGED <<port, pc>> /\ SigTypeOK'
    BY <2>1, SendTypes DEF Send
  <2>3. TypeInv'
    BY <1>0, <1>1, <1>3, <2>1, <2>2, SendKept DEF TypeInv, AlarmTypeOK
  <2> QED
    BY <1>1, <1>3, <2>1, <2>2, <2>3, QuietKept DEF ListInv, WhereInv
<1>4. ASSUME NEW p \in Port, use[p] \in {"none", "port"}, PortStep(t, p),
             use' = [use EXCEPT ![p] = "port"],
             \A m \in Message : reply_port'[m] # NULL => use'[reply_port'[m]] = "port"
      PROVE  ListInv'
  <2>1. CASE msgport_init(t, p)
    <3>1. PICK b \in SignalNumber :
            /\ SigAllocate(t, b)
            /\ port' = [port EXCEPT ![p] = [task |-> t, signal |-> {b}, action |-> "signal"]]
      BY <2>1 DEF msgport_init, Mask
    <3>2. /\ ~ Ready(p) /\ message_list' = [message_list EXCEPT ![p] = << >>]
          /\ UNCHANGED <<reply_port, holder, pc>>
      BY <2>1 DEF msgport_init
    <3>3. message_list' = message_list /\ MessagesKept'
      BY <3>2, ListInitKept
    <3>4. SigTypeOK'
      BY <1>0, <3>1, SigTypes
    <3>5. [task |-> t, signal |-> {b}, action |-> "signal"] \in
            [task : Task \cup {NULL}, signal : SUBSET SignalNumber,
             action : {"invalid", "signal", "ignore"}]
      OBVIOUS
    <3>6. TypeInv'
      BY <1>0, <1>1, <1>4, <3>1, <3>2, <3>3, <3>4, <3>5 DEF TypeInv, AlarmTypeOK
    <3>7. ASSUME NEW q \in Port
          PROVE  UseInv(q)'
      BY <1>0, <1>4, <3>1, <3>3 DEF UseInv, ListInv, TypeInv
    <3>8. (\A u \in Task : WhereInv(u)') /\ Sole'
      BY <1>1, <1>4, <3>2 DEF ListInv, WhereInv, TypeInv, Sole
    <3> QED
      BY <1>4, <3>3, <3>6, <3>7, <3>8 DEF ListInv
  <2>2. ASSUME use[p] = "port"
        PROVE  use' = use
    BY <1>0, <1>4, <2>2 DEF TypeInv
  <2>3. CASE msgport_get(t, p)
    <3>1. /\ use[p] = "port" /\ RemHead(p, t) /\ UNCHANGED <<sigVars, pc>>
      BY <1>4, <2>3 DEF msgport_get, Ready, ListInv, UseInv
    <3>2. UNCHANGED <<port, reply_port>>
      BY <3>1 DEF RemHead
    <3>3. TypeInv'
      BY <1>0, <1>1, <2>2, <3>1, <3>2, RemHeadKept DEF TypeInv, SigTypeOK, AlarmTypeOK, sigVars
    <3> QED
      BY <1>1, <2>2, <3>1, <3>2, <3>3, QuietKept DEF ListInv, WhereInv
  <2>4. ASSUME NEW m \in Message, NEW r \in Port \cup {NULL}, msgport_send(t, m, p, r)
        PROVE  ListInv'
    <3>1. /\ use[p] = "port" /\ Send(m, p) /\ holder[m] # NULL
          /\ reply_port' = [reply_port EXCEPT ![m] = r]
      BY <1>0, <1>4, <2>4, MsgPortAssumption DEF msgport_send, Ready, ListInv, UseInv
    <3>2. UNCHANGED <<port, pc>> /\ SigTypeOK'
      BY <3>1, SendTypes DEF Send
    <3>3. TypeInv'
      BY <1>0, <1>1, <2>2, <3>1, <3>2, SendKept DEF TypeInv, AlarmTypeOK
    <3>4. ASSUME NEW q \in Port
          PROVE  UseInv(q)'
      <4>1. message_list' = [message_list EXCEPT ![p] = Append(@, m)]
        BY <3>1 DEF Send
      <4> QED
        BY <2>2, <3>1, <3>2, <4>1 DEF UseInv, ListInv, TypeInv
    <3>5. (\A u \in Task : WhereInv(u)') /\ Sole'
      BY <1>1, <2>2, <3>1, <3>2 DEF ListInv, WhereInv, Sole
    <3> QED
      BY <1>4, <3>1, <3>3, <3>4, <3>5, SendKept DEF ListInv
  <2>5. ASSUME use[p] = "port", SigTypeOK',
               pc' \in {[pc EXCEPT ![t] = p], [pc EXCEPT ![t] = NULL]}, UNCHANGED portVars
        PROVE  ListInv'
    <3>1. TypeInv' /\ MessagesKept'
      <4>1. pc' \in [Task -> Port \cup {NULL}]
        BY <1>0, <2>5 DEF TypeInv
      <4>2. MessagesKept'
        BY <2>5 DEF ListInv, MessagesKept
      <4> QED
        BY <1>0, <1>1, <2>2, <2>5, <4>1, <4>2 DEF TypeInv, AlarmTypeOK
    <3>2. (\A u \in Task : WhereInv(u)') /\ Sole'
      BY <1>0, <1>1, <2>2, <2>5 DEF ListInv, WhereInv, TypeInv, Sole
    <3> QED
      BY <2>2, <2>5, <3>1, <3>2 DEF ListInv, UseInv
  <2>6. CASE msgport_wait(t, p)
    <3>1. use[p] = "port" /\ Sleep(t, p)
      BY <1>4, <2>6 DEF msgport_wait, Ready, ListInv, UseInv
    <3>2. SigTypeOK'
      BY <1>0, <3>1 DEF Sleep, SigTypeOK, TypeInv
    <3> QED
      BY <2>5, <3>1, <3>2 DEF Sleep
  <2>7. CASE msgport_wait_resume(t, p)
    <3>1. use[p] = "port"
      BY <2>7, MsgPortAssumption DEF msgport_wait_resume, ListInv, WhereInv
    <3>2. CASE SigResume(t) /\ pc' = [pc EXCEPT ![t] = NULL] /\ UNCHANGED portVars
      BY <1>0, <2>5, <3>1, <3>2, SigTypes
    <3>3. CASE Sleep(t, p)
      <4>1. SigTypeOK'
        BY <1>0, <3>3 DEF Sleep, SigTypeOK, TypeInv
      <4> QED
        BY <2>5, <3>1, <3>3, <4>1 DEF Sleep
    <3> QED
      BY <2>7, <3>2, <3>3 DEF msgport_wait_resume
  <2> QED
    BY <1>4, <2>1, <2>3, <2>4, <2>6, <2>7 DEF PortStep
<1> QED
  BY <1>2, <1>3, <1>4 DEF PortUser

\* Tasks that use mailboxes.
LEMMA MboxUserLists ==
  ASSUME ListInv, NEW t \in Task, MboxUser(t)
  PROVE  ListInv'
<1> USE DEF alarmVars, portVars, mboxVars
<1>0. /\ TypeInv /\ SigTypeOK /\ AlarmTypeOK /\ 0 \in SignalNumber
      /\ {} \in SUBSET SignalNumber
      /\ \A u \in Task : at[u] # "out" => fetching[u] # NULL
  BY SignalsAssumption DEF ListInv, TypeInv, SignalNumber, WhereInv
<1>1. ASSUME NEW p \in Port, sys_mbox_new(t, p)
      PROVE  ListInv'
  <2>1. /\ port' = [port EXCEPT ![p] = [task |-> NULL, signal |-> {}, action |-> "ignore"]]
        /\ message_list' = [message_list EXCEPT ![p] = << >>]
        /\ use' = [use EXCEPT ![p] = "mbox"]
        /\ UNCHANGED <<sigVars, reply_port, holder, pc, alarmVars, fetching, at>>
        /\ use[p] = "none" /\ ~ Ready(p)
    BY <1>1 DEF sys_mbox_new, ListInv, UseInv, Ready
  <2>2. message_list' = message_list /\ MessagesKept'
    BY <2>1, ListInitKept
  <2>3. TypeInv'
    <3>1. [task |-> NULL, signal |-> {}, action |-> "ignore"] \in
            [task : Task \cup {NULL}, signal : SUBSET SignalNumber,
             action : {"invalid", "signal", "ignore"}]
      OBVIOUS
    <3> QED
      BY <1>0, <2>1, <2>2, <3>1 DEF TypeInv, SigTypeOK, AlarmTypeOK, sigVars
  <2>4. ASSUME NEW q \in Port
        PROVE  UseInv(q)'
    BY <1>0, <2>1, <2>2 DEF UseInv, ListInv, TypeInv
  <2>5. (\A u \in Task : WhereInv(u)') /\ Sole'
    BY <1>0, <2>1 DEF ListInv, WhereInv, TypeInv, Sole
  <2>6. \A m \in Message : reply_port'[m] # NULL => use'[reply_port'[m]] = "port"
    BY <1>0, <2>1 DEF ListInv, TypeInv
  <2> QED
    BY <2>2, <2>3, <2>4, <2>5, <2>6 DEF ListInv
<1>2. ASSUME NEW p \in Port, NEW m \in Message, sys_mbox_post(t, m, p)
      PROVE  ListInv'
  <2>1. /\ Send(m, p) /\ holder[m] # NULL /\ use[p] = "mbox"
        /\ UNCHANGED <<reply_port, alarmVars, mboxVars>>
    BY <1>2, MsgPortAssumption DEF sys_mbox_post
  <2>2. UNCHANGED <<port, pc>> /\ SigTypeOK'
    BY <2>1, SendTypes DEF Send
  <2>3. TypeInv'
    BY <1>0, <2>1, <2>2, SendKept DEF TypeInv, AlarmTypeOK
  <2> QED
    BY <1>0, <2>1, <2>2, <2>3, QuietKept
<1>3. ASSUME NEW p \in Port, sys_arch_mbox_tryfetch(t, p)
      PROVE  ListInv'
  <2>1. /\ RemHead(p, Heap) /\ use[p] \in {"mbox", "closing"}
        /\ use' \in {[use EXCEPT ![p] = "mbox"], [use EXCEPT ![p] = "closing"]}
        /\ UNCHANGED <<sigVars, pc, alarmVars, fetching, at>>
    BY <1>3 DEF sys_arch_mbox_tryfetch, AfterPoll
  <2>2. UNCHANGED <<port, reply_port>>
    BY <2>1 DEF RemHead
  <2>3. /\ use' \in [Port -> {"none", "port", "mbox", "closing", "freed"}]
        /\ \A q \in Port : \/ use'[q] = use[q]
                           \/ {use'[q], use[q]} \subseteq {"mbox", "closing"}
    BY <1>0, <2>1 DEF TypeInv
  <2>4. TypeInv'
    BY <1>0, <2>1, <2>2, <2>3, RemHeadKept DEF TypeInv, SigTypeOK, AlarmTypeOK, sigVars
  <2> QED
    BY <1>0, <2>1, <2>2, <2>3, <2>4, QuietKept
<1>4. ASSUME NEW p \in Port, sys_mbox_free(t, p)
      PROVE  ListInv'
  <2>1. /\ use' = [use EXCEPT ![p] = "freed"]
        /\ at' = [at EXCEPT ![t] = "freed"] /\ fetching' = [fetching EXCEPT ![t] = p]
        /\ use[p] \in {"mbox", "closing"} /\ message_list[p] = << >>
        /\ \A u \in Task : fetching[u] # p
        /\ SigFree(t, port[p].signal)
        /\ UNCHANGED <<port, message_list, reply_port, holder, pc, alarmVars>>
    BY <1>4 DEF sys_mbox_free, MayFree
  <2>2. TypeInv'
    <3>1. SigTypeOK' /\ AlarmTypeOK'
      BY <1>0, <2>1 DEF TypeInv, SigTypeOK, SigFree, AlarmTypeOK
    <3>2. "freed" \in FetchLocation
      BY DEF FetchLocation
    <3> QED
      BY <1>0, <2>1, <3>1, <3>2 DEF TypeInv
  <2>3. ASSUME NEW q \in Port
        PROVE  UseInv(q)'
    BY <1>0, <2>1 DEF UseInv, ListInv, TypeInv
  <2>4. (\A u \in Task : WhereInv(u)') /\ Sole'
    BY <1>0, <2>1, MsgPortAssumption DEF ListInv, WhereInv, TypeInv, Sole
  <2>5. \A m \in Message : reply_port'[m] # NULL => use'[reply_port'[m]] = "port"
    BY <1>0, <2>1 DEF ListInv, TypeInv
  <2>6. MessagesKept'
    BY <2>1 DEF ListInv, MessagesKept
  <2> QED
    BY <2>2, <2>3, <2>4, <2>5, <2>6 DEF ListInv
<1>5. ASSUME NEW p \in Port, sys_arch_mbox_fetch(t, p)
      PROVE  ListInv'
  <2>1. /\ use[p] = "mbox"
        /\ at' = [at EXCEPT ![t] = "ready"] /\ fetching' = [fetching EXCEPT ![t] = p]
        /\ UNCHANGED <<message_list, reply_port, holder, pc, alarmVars, use>>
    BY <1>5 DEF sys_arch_mbox_fetch
  <2> DEFINE Fields == [task : Task \cup {NULL}, signal : SUBSET SignalNumber,
                        action : {"invalid", "signal", "ignore"}]
             OnlyBinds == \A q \in Port : \/ port'[q].action = port[q].action
                                          \/ port'[q].action = "signal" /\ q = p
  <2>2. port' \in [Port -> Fields] /\ SigTypeOK' /\ OnlyBinds
    <3>1. port \in [Port -> Fields]
      BY <1>0 DEF TypeInv
    <3>2. ASSUME UNCHANGED port, UNCHANGED sigVars
          PROVE  port' \in [Port -> Fields] /\ SigTypeOK' /\ OnlyBinds
      BY <1>0, <3>1, <3>2, SigTypes
    <3>3. ASSUME NEW b \in SignalNumber, SigAllocate(t, b),
                 port' = [port EXCEPT ![p] = [task |-> t, signal |-> {b}, action |-> "signal"]]
          PROVE  port' \in [Port -> Fields] /\ SigTypeOK' /\ OnlyBinds
      <4>1. [task |-> t, signal |-> {b}, action |-> "signal"] \in Fields
        OBVIOUS
      <4>2. SigTypeOK'
        BY <1>0, <3>3, SigTypes
      <4>3. OnlyBinds
        BY <3>1, <3>3
      <4>4. port' \in [Port -> Fields]
        BY <3>1, <3>3, <4>1
      <4> QED
        BY <4>2, <4>3, <4>4
    <3> QED
      BY <1>5, <3>2, <3>3 DEF sys_arch_mbox_fetch, Mask
  <2>3. TypeInv'
    <3>1. "ready" \in FetchLocation
      BY DEF FetchLocation
    <3> QED
      BY <1>0, <2>1, <2>2, <3>1 DEF TypeInv, AlarmTypeOK
  <2>4. ASSUME NEW q \in Port
        PROVE  UseInv(q)'
    BY <2>1, <2>2 DEF UseInv, ListInv
  <2>5. (\A u \in Task : WhereInv(u)') /\ Sole'
    BY <1>0, <2>1, MsgPortAssumption DEF ListInv, WhereInv, TypeInv, Sole
  <2>6. MessagesKept'
    BY <2>1 DEF ListInv, MessagesKept
  <2> QED
    BY <2>1, <2>3, <2>4, <2>5, <2>6 DEF ListInv
<1>6. ASSUME NEW loc \in FetchLocation \ {"freed"}, Goto(t, loc), at[t] # "out",
             SigTypeOK', AlarmTypeOK', UNCHANGED <<port, reply_port, pc, use>>,
             \/ UNCHANGED <<message_list, holder>>
             \/ RemHead(fetching[t], Heap)
      PROVE  ListInv'
  <2>1. fetching[t] \in Port
    BY <1>0, <1>6 DEF TypeInv
  <2>2. /\ at' \in [Task -> FetchLocation] /\ fetching' \in [Task -> Port \cup {NULL}]
        /\ \A u \in Task :
             /\ at'[u] # "out" => fetching'[u] # NULL
             /\ at'[u] = "freed" => at[u] = "freed" /\ fetching'[u] = fetching[u]
    BY <1>0, <1>6, <2>1, MsgPortAssumption DEF TypeInv, Goto
  <2>3. /\ message_list' \in [Port -> Seq(Message)]
        /\ holder' \in [Message -> Task \cup {NULL, Heap}]
    BY <1>0, <1>6, <2>1, RemHeadKept DEF TypeInv
  <2>4. TypeInv'
    BY <1>0, <1>6, <2>2, <2>3 DEF TypeInv
  <2> QED
    BY <1>6, <2>1, <2>2, <2>4, QuietKept
<1> USE DEF At
<1>7. {"out", "ready", "timer", "wait", "asleep", "got", "end", "stopped"}
        \subseteq FetchLocation \ {"freed"}
  BY DEF FetchLocation
<1>8. CASE fetch_timer_allocate(t)
  <2>1. PICK b \in SignalNumber : AlarmAllocate(t, b)
    BY <1>8 DEF fetch_timer_allocate
  <2>2. SigTypeOK' /\ AlarmTypeOK'
    BY <1>0, <2>1, SigTypes DEF AlarmAllocate, AlarmTypeOK
  <2> QED
    BY <1>6, <1>7, <1>8, <2>2 DEF fetch_timer_allocate
<1>9. CASE fetch_timer_add(t) \/ fetch_timer_abort(t)
  <2>1. SigTypeOK' /\ AlarmTypeOK'
    BY <1>0, <1>9 DEF fetch_timer_add, fetch_timer_abort, AlarmSet, AlarmStop, AlarmTypeOK,
                      SigTypeOK, sigVars
  <2> QED
    BY <1>6, <1>7, <1>9, <2>1 DEF fetch_timer_add, fetch_timer_abort
<1>10. CASE fetch_timer_free(t)
  <2>1. SigTypeOK' /\ AlarmTypeOK'
    BY <1>0, <1>10 DEF fetch_timer_free, AlarmFree, SigFree, AlarmTypeOK, SigTypeOK
  <2> QED
    BY <1>6, <1>7, <1>10, <2>1 DEF fetch_timer_free
<1>11. CASE fetch_wait(t) \/ fetch_wait_return(t)
  <2> DEFINE S == port[fetching[t]].signal \cup alarm_signal[t]
  <2>1. at[t] # "out" /\ UNCHANGED <<portVars, pc, alarmVars, use>>
    BY <1>11 DEF fetch_wait, fetch_wait_return
  <2>2. S \in SUBSET SignalNumber
    BY <1>0, <2>1 DEF TypeInv, AlarmTypeOK
  <2>3. SigWaitTake(t, S) \/ SigWaitBlock(t, S) \/ SigResume(t)
    BY <1>11 DEF fetch_wait, fetch_wait_return
  <2>4. SigTypeOK' /\ AlarmTypeOK'
    <3> HIDE DEF S
    <3> QED
      BY <1>0, <2>1, <2>2, <2>3, SigTypes DEF AlarmTypeOK
  <2>5. \E loc \in FetchLocation \ {"freed"} : Goto(t, loc)
    BY <1>7, <1>11 DEF fetch_wait, fetch_wait_return, Decide
  <2> QED
    BY <1>6, <2>1, <2>4, <2>5
<1>12. CASE fetch_get(t)
  <2>1. /\ at[t] # "out" /\ RemHead(fetching[t], Heap) /\ UNCHANGED <<sigVars, pc, alarmVars, use>>
        /\ \E loc \in FetchLocation \ {"freed"} : Goto(t, loc)
    BY <1>7, <1>12 DEF fetch_get
  <2>2. SigTypeOK' /\ AlarmTypeOK'
    BY <1>0, <2>1 DEF SigTypeOK, AlarmTypeOK, sigVars
  <2> QED
    BY <1>6, <2>1, <2>2 DEF RemHead
<1>13. CASE sys_mbox_set_invalid(t)
  <2> DEFINE p == fetching[t]
  <2>1. /\ port' = [port EXCEPT ![p].action = "invalid"]
        /\ use' = [use EXCEPT ![p] = "none"]
        /\ at[t] = "freed" /\ Goto(t, "out")
        /\ UNCHANGED <<sigVars, message_list, reply_port, holder, pc, alarmVars>>
    BY <1>13 DEF sys_mbox_set_invalid
  <2>2. p \in Port /\ use[p] = "freed"
    BY <1>0, <2>1 DEF TypeInv, ListInv, WhereInv
  <2> HIDE DEF p
  <2>3. TypeInv'
    <3>1. SigTypeOK' /\ AlarmTypeOK'
      BY <1>0, <2>1 DEF SigTypeOK, AlarmTypeOK, sigVars
    <3>2. port' \in [Port -> [task : Task \cup {NULL}, signal : SUBSET SignalNumber,
                              action : {"invalid", "signal", "ignore"}]]
      BY <1>0, <2>1 DEF TypeInv
    <3>3. /\ at' \in [Task -> FetchLocation] /\ fetching' \in [Task -> Port \cup {NULL}]
          /\ use' \in [Port -> {"none", "port", "mbox", "closing", "freed"}]
      BY <1>0, <1>7, <2>1 DEF Goto, TypeInv
    <3> QED
      BY <1>0, <2>1, <3>1, <3>2, <3>3 DEF TypeInv
  <2>4. ASSUME NEW q \in Port
        PROVE  UseInv(q)'
    BY <1>0, <2>1, <2>2 DEF UseInv, ListInv, TypeInv
  <2>5. /\ at'[t] = "out"
        /\ \A u \in Task \ {t} : /\ at'[u] = at[u] /\ fetching'[u] = fetching[u]
                                 /\ at[u] = "freed" => fetching[u] # p
    BY <1>0, <2>1 DEF ListInv, TypeInv, Goto, Sole, p
  <2>6. (\A u \in Task : WhereInv(u)') /\ Sole'
    <3>1. Sole'
      BY <2>5 DEF ListInv, Sole
    <3>2. \A q \in Port \ {p} : use'[q] = use[q]
      BY <1>0, <2>1 DEF TypeInv
    <3>3. ASSUME NEW u \in Task
          PROVE  WhereInv(u)'
      <4>1. WhereInv(u) /\ fetching[u] \in Port \cup {NULL} /\ pc[u] \in Port \cup {NULL}
        BY <1>0 DEF ListInv, TypeInv
      <4>2. pc'[u] # NULL => use'[pc'[u]] = "port"
        BY <2>1, <2>2, <3>2, <4>1 DEF WhereInv
      <4>3. /\ at'[u] # "out" => fetching'[u] # NULL
            /\ at'[u] = "freed" => use'[fetching'[u]] = "freed"
        BY <2>5, <3>2, <4>1 DEF WhereInv
      <4> QED
        BY <4>2, <4>3 DEF WhereInv
    <3> QED
      BY <3>1, <3>3
  <2>7. \A m \in Message : reply_port'[m] # NULL => use'[reply_port'[m]] = "port"
    BY <1>0, <2>1, <2>2 DEF ListInv, TypeInv
  <2>8. MessagesKept'
    BY <2>1 DEF ListInv, MessagesKept
  <2> QED
    BY <2>3, <2>4, <2>6, <2>7, <2>8 DEF ListInv
<1> QED
  BY <1>1, <1>2, <1>3, <1>4, <1>5, <1>8, <1>9, <1>10, <1>11, <1>12, <1>13 DEF MboxUser

\* The first layer is inductive.
LEMMA ListInitInv == MboxInit => ListInv
<1> SUFFICES ASSUME MboxInit
             PROVE  ListInv
  OBVIOUS
<1> USE DEF MboxInit, MsgInit, SigInit, AlarmInit
<1>1. TypeInv
  <2>1. SIGF_SINGLE \subseteq SignalNumber
    BY SignalsAssumption DEF SignalNumber, SIGF_SINGLE
  <2>2. << >> \in Seq(Message)
    OBVIOUS
  <2>3. SigTypeOK /\ AlarmTypeOK
    BY <2>1 DEF SigTypeOK, AlarmTypeOK
  <2>4. port \in [Port -> [task : Task \cup {NULL}, signal : SUBSET SignalNumber,
                           action : {"invalid", "signal", "ignore"}]]
    OBVIOUS
  <2> QED
    BY <2>2, <2>3, <2>4 DEF TypeInv, FetchLocation
<1>2. \A q \in Port : ~ (\E m : OnList(message_list[q], m)) /\ NoDuplicates(message_list[q])
  BY DEF OnList, NoDuplicates
<1>3. \A m \in Message : holder[m] # NULL
  BY MsgPortAssumption
<1>4. MessagesKept
  BY <1>2, <1>3 DEF MessagesKept
<1>5. /\ \A p \in Port : UseInv(p)
      /\ \A t \in Task : WhereInv(t)
      /\ Sole
  BY DEF UseInv, WhereInv, Sole
<1> QED
  BY <1>1, <1>4, <1>5 DEF ListInv

\* Every step keeps the messages where they belong.
LEMMA ListNextInv ==
  ASSUME ListInv, [MboxNext]_sysVars
  PROVE  ListInv'
<1>1. ASSUME UNCHANGED <<message_list, holder, port, reply_port, pc, use, fetching, at>>,
             SigTypeOK', AlarmTypeOK'
      PROVE  ListInv'
  <2>1. TypeInv'
    BY <1>1 DEF ListInv, TypeInv
  <2> QED
    BY <1>1, <2>1, QuietKept DEF ListInv, WhereInv
<1>2. CASE UNCHANGED sysVars
  <2>1. SigTypeOK' /\ AlarmTypeOK'
    BY <1>2 DEF ListInv, TypeInv, SigTypeOK, AlarmTypeOK, sysVars, allVars, sigVars, alarmVars
  <2> QED
    BY <1>1, <1>2, <2>1 DEF sysVars, allVars, portVars, mboxVars
<1>3. ASSUME NEW S \in SUBSET armed, AlarmFire(S), UNCHANGED <<portVars, pc, mboxVars>>
      PROVE  ListInv'
  <2>1. SigTypeOK' /\ AlarmTypeOK'
    BY <1>3 DEF ListInv, TypeInv, SigTypeOK, AlarmTypeOK, AlarmFire
  <2> QED
    BY <1>1, <1>3, <2>1 DEF portVars, mboxVars
<1> QED
  BY <1>2, <1>3, PortUserLists, MboxUserLists DEF MboxNext

-----------------------------------------------------------------------------
(* The signal bits of ports and timers, and where the tasks are. *)

\* A message sent to p signals task t.
Bound(p, t) == port[p].action = "signal" /\ port[p].task = t

\* A port that signals has one bit.
PortBits(p) ==
  /\ port[p].action = "ignore" => port[p].task = NULL /\ port[p].signal = {}
  /\ port[p].action = "signal" =>
       /\ port[p].task \in Task /\ status[port[p].task] # "none"
       /\ \E b \in SignalNumber \ {0} : port[p].signal = {b}

\* A task owns the bit of its timer.
TaskBits(t) ==
  /\ 0 \in sig_alloc[t] /\ alarm_signal[t] \subseteq sig_alloc[t] \ {0}
  /\ status[t] = "none" => alarm_signal[t] = {}

\* The second layer.
BitInv ==
  /\ \A p \in Port : PortBits(p)
  /\ \A t \in Task : TaskBits(t)

\* A sleeping task sleeps at a port of its own, on the bits of that port and
\* its timer, and has a timer only inside a fetch.
CtlInv(t) ==
  /\ status[t] = "none" => pc[t] = NULL /\ at[t] = "out"
  /\ fetching[t] # NULL => at[t] # "out"
  /\ at[t] \notin {"out", "freed"} => use[fetching[t]] = "mbox" /\ Bound(fetching[t], t)
  /\ pc[t] # NULL =>
       at[t] = "out" /\ Bound(pc[t], t) /\ sig_wait[t] = port[pc[t]].signal
  /\ status[t] \in {"blocked", "woken"} <=> pc[t] # NULL \/ at[t] = "asleep"
  /\ at[t] = "asleep" => sig_wait[t] = port[fetching[t]].signal \cup alarm_signal[t]
  /\ t \in armed => alarm_signal[t] # {} /\ at[t] \in {"wait", "asleep", "got", "end"}
  /\ alarm_signal[t] # {} => at[t] \notin {"out", "ready", "freed"}

\* The third layer.
WaitInv == \A t \in Task : CtlInv(t)

\* What a step must tell about the ports and the tasks it changes.
LEMMA KeptBits ==
  ASSUME ListInv, BitInv,
         \A p \in Port : port'[p] = port[p] \/ PortBits(p)',
         \A t \in Task :
           \/ /\ alarm_signal'[t] = alarm_signal[t] /\ sig_alloc'[t] = sig_alloc[t]
              /\ status'[t] = "none" => status[t] = "none"
           \/ TaskBits(t)',
         \A t \in Task : status[t] # "none" => status'[t] # "none"
  PROVE  BitInv'
<1>1. ASSUME NEW p \in Port
      PROVE  PortBits(p)'
  BY DEF BitInv, PortBits
<1>2. ASSUME NEW t \in Task
      PROVE  TaskBits(t)'
  BY DEF BitInv, TaskBits
<1> QED
  BY <1>1, <1>2 DEF BitInv

\* Task t binds port p to a bit that it did not own: msgport_init() and
\* sys_arch_mbox_fetch().
LEMMA BindBits ==
  ASSUME ListInv, BitInv, NEW t \in Task, NEW p \in Port, NEW b \in SignalNumber,
         FindsBit(t, b), SigAllocate(t, b),
         port' = [port EXCEPT ![p] = [task |-> t, signal |-> {b}, action |-> "signal"]],
         UNCHANGED alarm_signal
  PROVE  BitInv'
<1>1. b \notin sig_alloc[t] /\ b # 0 /\ status[t] = "active" /\ UNCHANGED status
  BY DEF FindsBit, BitInv, TaskBits, SigAllocate
<1>2. /\ port'[p] = [task |-> t, signal |-> {b}, action |-> "signal"]
      /\ \A q \in Port \ {p} : port'[q] = port[q]
      /\ \A u \in Task : sig_alloc'[u] = IF u = t THEN sig_alloc[t] \cup {b} ELSE sig_alloc[u]
  BY DEF ListInv, TypeInv, SigTypeOK, SigAllocate
<1>3. PortBits(p)'
  BY <1>1, <1>2 DEF PortBits
<1>4. TaskBits(t)'
  BY <1>1, <1>2 DEF TaskBits, BitInv
<1> QED
  BY <1>1, <1>2, <1>3, <1>4, KeptBits

\* A message that is sent changes no task's status to or from "none".
LEMMA SendQuiet ==
  ASSUME ListInv, NEW m \in Message, NEW p \in Port, Send(m, p)
  PROVE  /\ UNCHANGED <<port, pc, sig_alloc, sig_wait>>
         /\ \A t \in Task : status'[t] = "none" <=> status[t] = "none"
<1>1. CASE Notifies(p) /\ SigSend(port[p].task, port[p].signal)
  BY <1>1 DEF Send, SigSend, ListInv, TypeInv, SigTypeOK
<1>2. CASE UNCHANGED sigVars
  BY <1>2 DEF Send, sigVars
<1> QED
  BY <1>1, <1>2 DEF Send

\* The second layer is inductive, given the third.
LEMMA BitInitInv == MboxInit => BitInv
<1> SUFFICES ASSUME MboxInit
             PROVE  BitInv
  OBVIOUS
<1> USE DEF MboxInit, MsgInit, SigInit, AlarmInit
<1>1. \A p \in Port : PortBits(p)
  BY DEF PortBits
<1>2. \A t \in Task : TaskBits(t)
  BY DEF TaskBits, SIGF_SINGLE
<1> QED
  BY <1>1, <1>2 DEF BitInv

\* Every step keeps the bits of the ports and the timers.
LEMMA BitNextInv ==
  ASSUME ListInv, BitInv, WaitInv, [MboxNext]_sysVars
  PROVE  BitInv'
<1> USE DEF alarmVars, portVars, sigVars
<1>0. TypeInv /\ SigTypeOK /\ AlarmTypeOK
  BY DEF ListInv, TypeInv
<1>1. CASE UNCHANGED sysVars
  BY <1>1, KeptBits DEF sysVars, allVars
<1>2. ASSUME NEW S \in SUBSET armed, AlarmFire(S), UNCHANGED <<portVars, pc, mboxVars>>
      PROVE  BitInv'
  BY <1>2, KeptBits DEF AlarmFire
<1>3. ASSUME NEW m \in Message, NEW p \in Port, Send(m, p), UNCHANGED alarmVars
      PROVE  BitInv'
  BY <1>3, SendQuiet, KeptBits
<1>4. ASSUME NEW t \in Task, status[t] # "none", UNCHANGED <<sig_alloc, port, alarm_signal>>,
             \/ UNCHANGED status
             \/ status' \in {[status EXCEPT ![t] = "blocked"], [status EXCEPT ![t] = "active"]}
      PROVE  BitInv'
  <2>1. \A u \in Task : status'[u] = "none" <=> status[u] = "none"
    BY <1>0, <1>4 DEF SigTypeOK
  <2> QED
    BY <1>4, <2>1, KeptBits
<1>5. ASSUME NEW t \in Task, PortUser(t)
      PROVE  BitInv'
  <2>0. UNCHANGED alarmVars
    BY <1>5 DEF PortUser
  <2>1. CASE Start(t)
    <3>1. /\ status[t] = "none" /\ UNCHANGED port
          /\ \A u \in Task : /\ sig_alloc'[u] = IF u = t THEN {0} ELSE sig_alloc[u]
                             /\ status'[u] = IF u = t THEN "active" ELSE status[u]
      BY <1>0, <2>1 DEF Start, SigCreate, SigTypeOK, SIGF_SINGLE
    <3>2. TaskBits(t)'
      BY <2>0, <3>1 DEF TaskBits, BitInv
    <3> QED
      BY <2>0, <3>1, <3>2, KeptBits
  <2>2. ASSUME NEW m \in Message, msgport_reply(t, m)
        PROVE  BitInv'
    <3>1. reply_port[m] \in Port /\ Send(m, reply_port[m])
      BY <1>0, <2>2 DEF msgport_reply, TypeInv
    <3> QED
      BY <1>3, <2>0, <3>1
  <2>3. ASSUME NEW p \in Port, PortStep(t, p)
        PROVE  BitInv'
    <3>1. CASE msgport_init(t, p)
      <4>1. PICK b \in SignalNumber :
              /\ FindsBit(t, b) /\ SigAllocate(t, b)
              /\ port' = [port EXCEPT ![p] = [task |-> t, signal |-> {b}, action |-> "signal"]]
        BY <3>1 DEF msgport_init, Mask
      <4> QED
        BY <2>0, <4>1, BindBits
    <3>2. CASE msgport_get(t, p)
      BY <2>0, <3>2, KeptBits DEF msgport_get, RemHead
    <3>3. CASE msgport_wait(t, p)
      BY <1>4, <2>0, <3>3 DEF msgport_wait, Sleep, CanCall
    <3>4. CASE msgport_wait_resume(t, p)
      BY <1>4, <2>0, <3>4 DEF msgport_wait_resume, Sleep, SigResume
    <3>5. ASSUME NEW m \in Message, NEW r \in Port \cup {NULL}, msgport_send(t, m, p, r)
          PROVE  BitInv'
      BY <1>3, <2>0, <3>5 DEF msgport_send
    <3> QED
      BY <2>3, <3>1, <3>2, <3>3, <3>4, <3>5 DEF PortStep
  <2> QED
    BY <1>5, <2>1, <2>2, <2>3 DEF PortUser
<1>6. ASSUME NEW t \in Task, MboxUser(t)
      PROVE  BitInv'
  <2>1. ASSUME NEW p \in Port, sys_mbox_new(t, p)
        PROVE  BitInv'
    <3>1. /\ port' = [port EXCEPT ![p] = [task |-> NULL, signal |-> {}, action |-> "ignore"]]
          /\ UNCHANGED <<sigVars, alarmVars>>
      BY <2>1 DEF sys_mbox_new
    <3>2. /\ port'[p] = [task |-> NULL, signal |-> {}, action |-> "ignore"]
          /\ \A q \in Port \ {p} : port'[q] = port[q]
      BY <1>0, <3>1 DEF TypeInv
    <3>3. PortBits(p)'
      BY <3>2 DEF PortBits
    <3> QED
      BY <3>1, <3>2, <3>3, KeptBits
  <2>2. ASSUME NEW p \in Port, NEW m \in Message, sys_mbox_post(t, m, p)
        PROVE  BitInv'
    BY <1>3, <2>2 DEF sys_mbox_post
  <2>3. ASSUME NEW p \in Port, sys_arch_mbox_tryfetch(t, p)
        PROVE  BitInv'
    BY <2>3, KeptBits DEF sys_arch_mbox_tryfetch, RemHead
  <2>4. ASSUME NEW p \in Port, sys_mbox_free(t, p)
        PROVE  BitInv'
    <3>1. SigFree(t, port[p].signal) /\ UNCHANGED <<port, alarmVars>> /\ at[t] = "out"
      BY <2>4 DEF sys_mbox_free, MayFree, Idle
    <3>2. /\ port[p].signal \subseteq sig_alloc[t] \ {0} /\ UNCHANGED status
          /\ \A u \in Task : sig_alloc'[u] = IF u = t THEN sig_alloc[t] \ port[p].signal
                                                      ELSE sig_alloc[u]
      BY <1>0, <3>1 DEF SigFree, SigTypeOK, SIGF_SINGLE
    <3>3. alarm_signal[t] = {}
      BY <3>1 DEF WaitInv, CtlInv
    <3>4. TaskBits(t)'
      BY <3>1, <3>2, <3>3 DEF TaskBits, BitInv
    <3> QED
      BY <3>1, <3>2, <3>4, KeptBits
  <2>5. CASE sys_mbox_set_invalid(t)
    <3>1. /\ port' = [port EXCEPT ![fetching[t]].action = "invalid"]
          /\ UNCHANGED <<sigVars, alarmVars>>
      BY <2>5 DEF sys_mbox_set_invalid
    <3>2. ASSUME NEW q \in Port
          PROVE  port'[q] = port[q] \/ PortBits(q)'
      BY <1>0, <3>1 DEF TypeInv, PortBits
    <3> QED
      BY <3>1, <3>2, KeptBits
  <2>6. ASSUME NEW p \in Port, sys_arch_mbox_fetch(t, p)
        PROVE  BitInv'
    <3>1. CASE UNCHANGED <<port, sigVars>>
      BY <2>6, <3>1, KeptBits DEF sys_arch_mbox_fetch
    <3>2. ASSUME NEW b \in SignalNumber, FindsBit(t, b), SigAllocate(t, b),
                 port' = [port EXCEPT ![p] = [task |-> t, signal |-> {b}, action |-> "signal"]]
          PROVE  BitInv'
      BY <2>6, <3>2, BindBits DEF sys_arch_mbox_fetch
    <3> QED
      BY <2>6, <3>1, <3>2 DEF sys_arch_mbox_fetch, Mask
  <2>7. CASE fetch_timer_allocate(t)
    <3>1. PICK b \in SignalNumber : AlarmAllocate(t, b) /\ UNCHANGED port
      BY <2>7 DEF fetch_timer_allocate
    <3>2. /\ b \notin sig_alloc[t] /\ status[t] = "active" /\ UNCHANGED status
          /\ \A u \in Task : /\ sig_alloc'[u] = IF u = t THEN sig_alloc[t] \cup {b} ELSE sig_alloc[u]
                             /\ alarm_signal'[u] = IF u = t THEN {b} ELSE alarm_signal[u]
      BY <1>0, <3>1 DEF AlarmAllocate, FindsBit, SigTypeOK, AlarmTypeOK, SigAllocate
    <3>3. TaskBits(t)'
      BY <3>2 DEF TaskBits, BitInv
    <3> QED
      BY <3>1, <3>2, <3>3, KeptBits
  <2>8. CASE fetch_timer_add(t) \/ fetch_timer_abort(t)
    BY <2>8, KeptBits DEF fetch_timer_add, fetch_timer_abort, AlarmSet, AlarmStop
  <2>9. CASE fetch_timer_free(t)
    <3>1. AlarmFree(t) /\ UNCHANGED port
      BY <2>9 DEF fetch_timer_free
    <3>2. /\ UNCHANGED status
          /\ \A u \in Task : /\ sig_alloc'[u] = IF u = t THEN sig_alloc[t] \ alarm_signal[t]
                                                         ELSE sig_alloc[u]
                             /\ alarm_signal'[u] = IF u = t THEN {} ELSE alarm_signal[u]
      BY <1>0, <3>1 DEF AlarmFree, SigTypeOK, AlarmTypeOK, SigFree
    <3>3. TaskBits(t)'
      BY <3>2 DEF TaskBits, BitInv
    <3> QED
      BY <3>1, <3>2, <3>3, KeptBits
  <2>10. CASE fetch_wait(t) \/ fetch_wait_return(t)
    BY <1>4, <2>10 DEF fetch_wait, fetch_wait_return, SigWaitTake, SigWaitBlock, SigResume
  <2>11. CASE fetch_get(t)
    BY <2>11, KeptBits DEF fetch_get, RemHead
  <2> QED
    BY <1>6, <2>1, <2>2, <2>3, <2>4, <2>5, <2>6, <2>7, <2>8, <2>9, <2>10, <2>11 DEF MboxUser
<1> QED
  BY <1>1, <1>2, <1>5, <1>6 DEF MboxNext

\* A step that takes nothing away from where task u is.
SameCtl(u) ==
  /\ pc'[u] = pc[u] /\ at'[u] = at[u] /\ fetching'[u] = fetching[u]
  /\ sig_wait'[u] = sig_wait[u] /\ alarm_signal'[u] = alarm_signal[u]
  /\ status'[u] = "none" <=> status[u] = "none"
  /\ status'[u] \in {"blocked", "woken"} <=> status[u] \in {"blocked", "woken"}
  /\ u \in armed' => u \in armed
  /\ \A q \in Port : q = pc[u] \/ q = fetching[u] => port'[q] = port[q] /\ use'[q] = use[q]

\* Such a step preserves what is known about u.
LEMMA SameWait ==
  ASSUME ListInv, WaitInv, NEW u \in Task, SameCtl(u)
  PROVE  CtlInv(u)'
<1>1. CtlInv(u) /\ pc[u] \in Port \cup {NULL} /\ fetching[u] \in Port \cup {NULL}
  BY DEF WaitInv, ListInv, TypeInv
<1>2. at[u] # "out" => fetching[u] # NULL
  BY DEF ListInv, WhereInv
<1> QED
  BY <1>1, <1>2 DEF CtlInv, SameCtl, Bound

\* A step of task t that changes no port and leaves the other tasks alone.
LEMMA StepWait ==
  ASSUME ListInv, WaitInv, NEW t \in Task, CtlInv(t)',
         \A q \in Port : (\E u \in Task \ {t} : q = pc[u] \/ q = fetching[u])
                           => port'[q] = port[q] /\ use'[q] = use[q],
         \A u \in Task \ {t} :
           /\ pc'[u] = pc[u] /\ at'[u] = at[u] /\ fetching'[u] = fetching[u]
           /\ sig_wait'[u] = sig_wait[u] /\ alarm_signal'[u] = alarm_signal[u]
           /\ status'[u] = status[u] /\ (u \in armed' => u \in armed)
  PROVE  WaitInv'
<1>1. ASSUME NEW u \in Task \ {t}
      PROVE  CtlInv(u)'
  BY <1>1, SameWait DEF SameCtl
<1> QED
  BY <1>1 DEF WaitInv

\* Sending a message wakes at most its receiver.
LEMMA SendWait ==
  ASSUME ListInv, BitInv, WaitInv, NEW m \in Message, NEW p \in Port, Send(m, p),
         UNCHANGED <<alarmVars, mboxVars>>
  PROVE  WaitInv'
<1>1. UNCHANGED <<port, pc, sig_alloc, sig_wait>>
  BY SendQuiet
<1>2. \A u \in Task : /\ status'[u] = "none" <=> status[u] = "none"
                      /\ status'[u] \in {"blocked", "woken"} <=> status[u] \in {"blocked", "woken"}
  <2>1. CASE SigSend(port[p].task, port[p].signal)
    BY <2>1 DEF SigSend, ListInv, TypeInv, SigTypeOK
  <2>2. CASE UNCHANGED sigVars
    BY <2>2 DEF sigVars
  <2> QED
    BY <2>1, <2>2 DEF Send
<1>3. \A u \in Task : SameCtl(u)
  BY <1>1, <1>2 DEF SameCtl, alarmVars, mboxVars
<1> QED
  BY <1>3, SameWait DEF WaitInv

\* The third layer is inductive.
LEMMA WaitInitInv == MboxInit => WaitInv
<1> SUFFICES ASSUME MboxInit, NEW t \in Task
             PROVE  CtlInv(t)
  BY DEF WaitInv
<1>1. /\ pc[t] = NULL /\ at[t] = "out" /\ fetching[t] = NULL /\ t \notin armed
      /\ alarm_signal[t] = {} /\ status[t] \in {"active", "none"}
  BY DEF MboxInit, MsgInit, SigInit, AlarmInit
<1> QED
  BY <1>1 DEF CtlInv

\* ... in the steps of tasks that use message ports,
LEMMA PortUserWait ==
  ASSUME ListInv, BitInv, WaitInv, NEW t \in Task, PortUser(t)
  PROVE  WaitInv'
<1> USE DEF alarmVars, portVars, mboxVars
<1>0. TypeInv /\ SigTypeOK /\ CtlInv(t)
  BY DEF ListInv, TypeInv, WaitInv
<1>1. UNCHANGED <<alarmVars, fetching, at>> /\ at[t] = "out" /\ fetching[t] = NULL
  BY <1>0 DEF PortUser, CtlInv
<1>2. CASE Start(t) /\ UNCHANGED use
  <2>1. /\ UNCHANGED <<port, pc>> /\ status[t] = "none" /\ status'[t] = "active"
        /\ \A u \in Task \ {t} : status'[u] = status[u] /\ sig_wait'[u] = sig_wait[u]
    BY <1>0, <1>2 DEF Start, SigCreate, SigTypeOK
  <2>2. CtlInv(t)'
    BY <1>0, <1>1, <2>1 DEF CtlInv
  <2> QED
    BY <1>1, <1>2, <2>1, <2>2, StepWait
<1>3. ASSUME NEW m \in Message, msgport_reply(t, m), UNCHANGED use
      PROVE  WaitInv'
  <2>1. reply_port[m] \in Port /\ Send(m, reply_port[m])
    BY <1>0, <1>3 DEF msgport_reply, TypeInv
  <2> QED
    BY <1>1, <1>3, <2>1, SendWait
<1>4. ASSUME NEW p \in Port, use[p] \in {"none", "port"}, PortStep(t, p),
             use' = [use EXCEPT ![p] = "port"]
      PROVE  WaitInv'
  <2>1. CASE msgport_init(t, p)
    <3>1. PICK b \in SignalNumber :
            /\ SigAllocate(t, b)
            /\ port' = [port EXCEPT ![p] = [task |-> t, signal |-> {b}, action |-> "signal"]]
      BY <2>1 DEF msgport_init, Mask
    <3>2. ~ Ready(p) /\ UNCHANGED pc /\ pc[t] = NULL /\ status[t] = "active"
      BY <2>1 DEF msgport_init, CanCall
    <3>3. \A q \in Port : (\E u \in Task \ {t} : q = pc[u] \/ q = fetching[u])
                            => port'[q] = port[q] /\ use'[q] = use[q]
      <4>1. \A u \in Task : p # pc[u] /\ p # fetching[u]
        BY <3>2, MsgPortAssumption
           DEF WaitInv, CtlInv, ListInv, UseInv, WhereInv, Bound, Ready
      <4> QED
        BY <1>0, <1>4, <3>1, <4>1 DEF TypeInv
    <3>4. UNCHANGED status /\ \A u \in Task \ {t} : sig_wait'[u] = sig_wait[u]
      BY <1>0, <3>1 DEF SigAllocate, SigTypeOK
    <3>5. CtlInv(t)'
      BY <1>0, <1>1, <3>2, <3>4 DEF CtlInv
    <3> QED
      BY <1>1, <3>2, <3>3, <3>4, <3>5, StepWait
  <2>2. ASSUME use[p] = "port"
        PROVE  use' = use
    BY <1>0, <1>4, <2>2 DEF TypeInv
  <2>3. ASSUME Ready(p)
        PROVE  use' = use
    BY <1>4, <2>2, <2>3 DEF ListInv, UseInv, Ready
  <2>4. CASE msgport_get(t, p)
    <3>1. UNCHANGED <<sigVars, port, pc, use>>
      BY <2>3, <2>4 DEF msgport_get, RemHead
    <3> QED
      BY <1>1, <3>1, SameWait DEF SameCtl, WaitInv, sigVars
  <2>5. ASSUME NEW m \in Message, NEW r \in Port \cup {NULL}, msgport_send(t, m, p, r)
        PROVE  WaitInv'
    BY <1>1, <2>3, <2>5, SendWait DEF msgport_send
  <2>6. ASSUME use[p] = "port", Bound(p, t), Sleep(t, p)
        PROVE  WaitInv'
    <3>1. /\ status'[t] = "blocked" /\ sig_wait'[t] = port[p].signal /\ pc'[t] = p
          /\ UNCHANGED port /\ p # NULL
          /\ \A u \in Task \ {t} : /\ status'[u] = status[u] /\ sig_wait'[u] = sig_wait[u]
                                   /\ pc'[u] = pc[u]
      BY <1>0, <2>6, MsgPortAssumption DEF Sleep, SigTypeOK, TypeInv
    <3>2. CtlInv(t)'
      BY <1>0, <1>1, <2>6, <3>1 DEF CtlInv, Bound
    <3> QED
      BY <1>1, <2>2, <2>6, <3>1, <3>2, StepWait
  <2>7. CASE msgport_wait(t, p)
    <3>1. use[p] = "port" /\ Bound(p, t) /\ Sleep(t, p)
      BY <1>4, <2>7 DEF msgport_wait, Ready, ListInv, UseInv, Bound
    <3> QED
      BY <3>1, <2>6
  <2>8. CASE msgport_wait_resume(t, p)
    <3>1. use[p] = "port" /\ Bound(p, t) /\ pc[t] = p /\ status[t] = "woken"
      BY <1>0, <2>8, MsgPortAssumption DEF msgport_wait_resume, ListInv, WhereInv, CtlInv
    <3>2. CASE SigResume(t) /\ pc' = [pc EXCEPT ![t] = NULL] /\ UNCHANGED portVars
      <4>1. /\ status'[t] = "active" /\ pc'[t] = NULL /\ UNCHANGED <<port, sig_wait>>
            /\ \A u \in Task \ {t} : status'[u] = status[u] /\ pc'[u] = pc[u]
        BY <1>0, <3>2 DEF SigResume, SigTypeOK, TypeInv
      <4>2. CtlInv(t)'
        BY <1>0, <1>1, <4>1 DEF CtlInv
      <4> QED
        BY <1>1, <2>2, <3>1, <4>1, <4>2, StepWait
    <3> QED
      BY <2>6, <2>8, <3>1, <3>2 DEF msgport_wait_resume
  <2> QED
    BY <1>4, <2>1, <2>4, <2>5, <2>7, <2>8 DEF PortStep
<1> QED
  BY <1>2, <1>3, <1>4 DEF PortUser

\* ... and of tasks that use mailboxes.
LEMMA MboxUserWait ==
  ASSUME ListInv, BitInv, WaitInv, NEW t \in Task, MboxUser(t)
  PROVE  WaitInv'
<1> USE DEF alarmVars, portVars, mboxVars
<1>0. /\ TypeInv /\ SigTypeOK /\ AlarmTypeOK /\ CtlInv(t)
      /\ at[t] # "out" => fetching[t] \in Port
  BY DEF ListInv, TypeInv, WaitInv, WhereInv
<1>1. ASSUME NEW p \in Port, sys_mbox_new(t, p)
      PROVE  WaitInv'
  <2>1. /\ port' = [port EXCEPT ![p] = [task |-> NULL, signal |-> {}, action |-> "ignore"]]
        /\ use' = [use EXCEPT ![p] = "mbox"]
        /\ UNCHANGED <<sigVars, pc, alarmVars, fetching, at>> /\ use[p] = "none"
    BY <1>1 DEF sys_mbox_new
  <2>2. \A u \in Task : p # pc[u] /\ p # fetching[u]
    BY <2>1, MsgPortAssumption DEF WaitInv, CtlInv, ListInv, WhereInv
  <2>3. \A q \in Port \ {p} : port'[q] = port[q] /\ use'[q] = use[q]
    BY <1>0, <2>1 DEF TypeInv
  <2> QED
    BY <2>1, <2>2, <2>3, SameWait DEF SameCtl, WaitInv, sigVars
<1>2. ASSUME NEW p \in Port, NEW m \in Message, sys_mbox_post(t, m, p)
      PROVE  WaitInv'
  BY <1>2, SendWait DEF sys_mbox_post
<1>3. ASSUME NEW p \in Port, sys_arch_mbox_tryfetch(t, p)
      PROVE  WaitInv'
  <2>1. /\ UNCHANGED <<sigVars, port, pc, alarmVars, fetching, at>>
        /\ \A q \in Port \ {p} : use'[q] = use[q]
        /\ use[p] \in {"mbox", "closing"} /\ \A u \in Task : fetching[u] # p
    BY <1>0, <1>3 DEF sys_arch_mbox_tryfetch, RemHead, TypeInv
  <2>2. \A u \in Task : p # pc[u]
    BY <2>1, MsgPortAssumption DEF ListInv, WhereInv
  <2> QED
    BY <2>1, <2>2, SameWait DEF SameCtl, WaitInv, sigVars
<1>4. ASSUME NEW p \in Port, sys_mbox_free(t, p)
      PROVE  WaitInv'
  <2>1. /\ use' = [use EXCEPT ![p] = "freed"]
        /\ at' = [at EXCEPT ![t] = "freed"] /\ fetching' = [fetching EXCEPT ![t] = p]
        /\ use[p] \in {"mbox", "closing"} /\ at[t] = "out" /\ pc[t] = NULL
        /\ status[t] = "active" /\ \A u \in Task : fetching[u] # p
        /\ UNCHANGED <<port, status, sig_wait, pc, alarmVars>>
    BY <1>4 DEF sys_mbox_free, MayFree, SigFree, Idle, CanCall
  <2>2. \A u \in Task : p # pc[u]
    BY <2>1, MsgPortAssumption DEF ListInv, WhereInv
  <2>3. /\ at'[t] = "freed"
        /\ \A u \in Task \ {t} : at'[u] = at[u] /\ fetching'[u] = fetching[u]
        /\ \A q \in Port \ {p} : use'[q] = use[q]
    BY <1>0, <2>1 DEF TypeInv
  <2>4. CtlInv(t)'
    BY <1>0, <2>1, <2>3 DEF CtlInv
  <2> QED
    BY <2>1, <2>2, <2>3, <2>4, StepWait
<1>5. ASSUME NEW p \in Port, sys_arch_mbox_fetch(t, p)
      PROVE  WaitInv'
  <2>1. /\ use[p] = "mbox" /\ port[p].task \in {NULL, t}
        /\ status[t] = "active" /\ pc[t] = NULL /\ at[t] = "out"
        /\ at'[t] = "ready" /\ fetching'[t] = p /\ p # NULL
        /\ \A u \in Task \ {t} : at'[u] = at[u] /\ fetching'[u] = fetching[u]
        /\ UNCHANGED <<pc, alarmVars, use>>
    BY <1>0, <1>5, MsgPortAssumption DEF sys_arch_mbox_fetch, Fetcher, Idle, CanCall, TypeInv
  <2> DEFINE OnlyBinds ==
               /\ UNCHANGED status /\ \A u \in Task \ {t} : sig_wait'[u] = sig_wait[u]
               /\ Bound(p, t)'
               /\ \A q \in Port : (\E u \in Task \ {t} : q = pc[u] \/ q = fetching[u])
                                    => port'[q] = port[q] /\ use'[q] = use[q]
  <2>2. OnlyBinds
    <3>1. CASE port[p].signal # {} /\ UNCHANGED <<port, sigVars>>
      <4>1. port[p].action = "signal" /\ port[p].task = t
        BY <1>0, <2>1, <3>1, MsgPortAssumption
           DEF BitInv, PortBits, ListInv, UseInv, TypeInv
      <4> QED
        BY <2>1, <3>1, <4>1 DEF Bound, sigVars
    <3>2. ASSUME NEW b \in SignalNumber, SigAllocate(t, b), port[p].signal = {},
                 port' = [port EXCEPT ![p] = [task |-> t, signal |-> {b}, action |-> "signal"]]
          PROVE  OnlyBinds
      <4>1. port[p].action # "signal"
        BY <3>2 DEF BitInv, PortBits
      <4>2. \A u \in Task : p # pc[u] /\ p # fetching[u]
        BY <2>1, <4>1, MsgPortAssumption DEF WaitInv, CtlInv, ListInv, WhereInv, Bound
      <4>3. /\ port'[p] = [task |-> t, signal |-> {b}, action |-> "signal"]
            /\ \A q \in Port \ {p} : port'[q] = port[q]
        BY <1>0, <3>2 DEF TypeInv
      <4>4. UNCHANGED status /\ \A u \in Task \ {t} : sig_wait'[u] = sig_wait[u]
        BY <1>0, <3>2 DEF SigAllocate, SigTypeOK
      <4> QED
        BY <2>1, <4>2, <4>3, <4>4 DEF Bound
    <3> QED
      BY <1>5, <3>1, <3>2 DEF sys_arch_mbox_fetch, Mask
  <2>3. CtlInv(t)'
    BY <1>0, <2>1, <2>2 DEF CtlInv
  <2> QED
    BY <2>1, <2>2, <2>3, StepWait
<1>6. ASSUME NEW loc \in FetchLocation \ {"freed"}, Goto(t, loc), at[t] \notin {"out", "freed"},
             UNCHANGED <<port, pc, use>>,
             \A u \in Task \ {t} :
               /\ sig_wait'[u] = sig_wait[u] /\ alarm_signal'[u] = alarm_signal[u]
               /\ status'[u] = status[u] /\ (u \in armed' => u \in armed),
             status'[t] \in {"blocked", "woken"} <=> loc = "asleep",
             status'[t] # "none",
             loc = "asleep" => sig_wait'[t] = port[fetching[t]].signal \cup alarm_signal'[t],
             t \in armed' => alarm_signal'[t] # {} /\ loc \in {"wait", "asleep", "got", "end"},
             alarm_signal'[t] # {} => loc \notin {"out", "ready"}
      PROVE  WaitInv'
  <2>1. /\ at'[t] = loc /\ fetching'[t] = IF loc = "out" THEN NULL ELSE fetching[t]
        /\ \A u \in Task \ {t} : at'[u] = at[u] /\ fetching'[u] = fetching[u]
    BY <1>0, <1>6 DEF Goto, TypeInv
  <2>2. pc[t] = NULL /\ use[fetching[t]] = "mbox" /\ Bound(fetching[t], t)
    BY <1>0, <1>6, MsgPortAssumption DEF CtlInv
  <2>3. CtlInv(t)'
    BY <1>6, <2>1, <2>2 DEF CtlInv, Bound
  <2> QED
    BY <1>6, <2>1, <2>3, StepWait
<1> USE DEF At
<1>7. {"out", "ready", "timer", "wait", "asleep", "got", "end", "stopped"}
        \subseteq FetchLocation \ {"freed"}
  BY DEF FetchLocation
<1>8. CASE fetch_timer_allocate(t)
  <2>1. PICK b \in SignalNumber : AlarmAllocate(t, b)
    BY <1>8 DEF fetch_timer_allocate
  <2>2. /\ \A u \in Task \ {t} : sig_wait'[u] = sig_wait[u] /\ alarm_signal'[u] = alarm_signal[u]
        /\ UNCHANGED <<armed, status>>
    BY <1>0, <2>1 DEF AlarmAllocate, SigAllocate, SigTypeOK, AlarmTypeOK
  <2>3. t \notin armed
    BY <1>0, <1>8 DEF CtlInv, fetch_timer_allocate
  <2> QED
    BY <1>6, <1>7, <1>8, <2>2, <2>3 DEF fetch_timer_allocate
<1>9. CASE fetch_timer_add(t)
  <2>1. /\ UNCHANGED <<sigVars, alarm_signal>> /\ at[t] = "timer" /\ status[t] = "active"
        /\ \/ armed' = armed \cup {t} /\ alarm_signal[t] # {}
           \/ armed' = armed
    BY <1>9 DEF fetch_timer_add, AlarmSet
  <2>2. t \in armed' => alarm_signal[t] # {}
    BY <1>0, <2>1 DEF CtlInv
  <2> QED
    BY <1>6, <1>7, <1>9, <2>1, <2>2 DEF fetch_timer_add, sigVars
<1>10. CASE fetch_timer_abort(t)
  <2>1. /\ UNCHANGED <<sigVars, alarm_signal>> /\ at[t] = "end" /\ status[t] = "active"
        /\ armed' = armed \ {t}
    BY <1>10 DEF fetch_timer_abort, AlarmStop
  <2> QED
    BY <1>6, <1>7, <1>10, <2>1 DEF fetch_timer_abort, sigVars
<1>11. CASE fetch_timer_free(t)
  <2>1. /\ UNCHANGED <<status, sig_wait, armed>> /\ at[t] = "stopped" /\ status[t] = "active"
        /\ t \notin armed
        /\ alarm_signal'[t] = {} /\ \A u \in Task \ {t} : alarm_signal'[u] = alarm_signal[u]
    BY <1>0, <1>11 DEF fetch_timer_free, AlarmFree, SigFree, AlarmTypeOK
  <2> QED
    BY <1>6, <1>7, <1>11, <2>1 DEF fetch_timer_free
<1>12. CASE fetch_wait(t) \/ fetch_wait_return(t)
  <2> DEFINE S == port[fetching[t]].signal \cup alarm_signal[t]
  <2>1. /\ UNCHANGED <<portVars, pc, alarmVars, use>>
        /\ at[t] \in {"ready", "wait", "asleep"}
        /\ t \in armed => alarm_signal[t] # {}
    BY <1>0, <1>12 DEF fetch_wait, fetch_wait_return, CtlInv
  <2>2. CASE SigWaitBlock(t, S) /\ Goto(t, "asleep")
    <3>1. /\ status'[t] = "blocked" /\ sig_wait'[t] = S
          /\ \A u \in Task \ {t} : status'[u] = status[u] /\ sig_wait'[u] = sig_wait[u]
      BY <1>0, <2>2 DEF SigWaitBlock, SigTypeOK
    <3> QED
      BY <1>6, <1>7, <2>1, <2>2, <3>1
  <2>3. CASE SigWaitTake(t, S) /\ Decide(t)
    <3>1. /\ status'[t] = "active"
          /\ \A u \in Task \ {t} : status'[u] = status[u] /\ sig_wait'[u] = sig_wait[u]
      BY <1>0, <2>3 DEF SigWaitTake, SigTypeOK
    <3> QED
      BY <1>6, <1>7, <2>1, <2>3, <3>1 DEF Decide
  <2>4. CASE SigResume(t) /\ Decide(t)
    <3>1. /\ status'[t] = "active"
          /\ \A u \in Task \ {t} : status'[u] = status[u] /\ sig_wait'[u] = sig_wait[u]
      BY <1>0, <2>4 DEF SigResume, SigTypeOK
    <3> QED
      BY <1>6, <1>7, <2>1, <2>4, <3>1 DEF Decide
  <2> QED
    BY <1>12, <2>2, <2>3, <2>4 DEF fetch_wait, fetch_wait_return
<1>13. CASE fetch_get(t)
  <2>1. /\ at[t] = "got" /\ status[t] = "active"
        /\ UNCHANGED <<sigVars, port, pc, alarmVars, use>>
        /\ Goto(t, IF alarm_signal[t] = {} THEN "out" ELSE "end")
    BY <1>13 DEF fetch_get, RemHead
  <2>2. t \in armed => alarm_signal[t] # {}
    BY <1>0 DEF CtlInv
  <2> QED
    BY <1>6, <1>7, <2>1, <2>2 DEF sigVars
<1>14. CASE sys_mbox_set_invalid(t)
  <2> DEFINE p == fetching[t]
  <2>1. /\ port' = [port EXCEPT ![p].action = "invalid"] /\ use' = [use EXCEPT ![p] = "none"]
        /\ at[t] = "freed" /\ status[t] = "active" /\ Goto(t, "out")
        /\ UNCHANGED <<sigVars, pc, alarmVars>>
    BY <1>14 DEF sys_mbox_set_invalid
  <2>2. p \in Port /\ use[p] = "freed" /\ pc[t] = NULL /\ alarm_signal[t] = {} /\ t \notin armed
    BY <1>0, <2>1 DEF ListInv, WhereInv, CtlInv
  <2>3. /\ at'[t] = "out" /\ fetching'[t] = NULL
        /\ \A u \in Task \ {t} : at'[u] = at[u] /\ fetching'[u] = fetching[u]
    BY <1>0, <2>1 DEF Goto, TypeInv
  <2>4. ASSUME NEW u \in Task \ {t}
        PROVE  pc[u] # p /\ fetching[u] # p
    BY <2>1, <2>2, MsgPortAssumption DEF ListInv, WhereInv, Sole, WaitInv, CtlInv
  <2>5. \A q \in Port \ {p} : port'[q] = port[q] /\ use'[q] = use[q]
    BY <1>0, <2>1 DEF TypeInv
  <2>6. CtlInv(t)'
    BY <2>1, <2>2, <2>3 DEF CtlInv, sigVars
  <2> QED
    BY <2>1, <2>3, <2>4, <2>5, <2>6, StepWait DEF sigVars
<1> QED
  BY <1>1, <1>2, <1>3, <1>4, <1>5, <1>8, <1>9, <1>10, <1>11, <1>12, <1>13, <1>14 DEF MboxUser

\* Every step keeps the waits and the code locations in agreement.
LEMMA WaitNextInv ==
  ASSUME ListInv, BitInv, WaitInv, [MboxNext]_sysVars
  PROVE  WaitInv'
<1>1. CASE UNCHANGED sysVars
  BY <1>1, SameWait DEF SameCtl, WaitInv, sysVars, allVars, sigVars, portVars, alarmVars, mboxVars
<1>2. ASSUME NEW S \in SUBSET armed, AlarmFire(S), UNCHANGED <<portVars, pc, mboxVars>>
      PROVE  WaitInv'
  BY <1>2, SameWait DEF SameCtl, WaitInv, AlarmFire, portVars, mboxVars
<1> QED
  BY <1>1, <1>2, PortUserWait, MboxUserWait DEF MboxNext

-----------------------------------------------------------------------------
(* Who sleeps at a message port: the fourth layer is NobodySleepsOnMessages. *)

\* Every step leaves the tasks that sleep in msgport_wait() at empty ports.
LEMMA SleepNextInv ==
  ASSUME ListInv, BitInv, WaitInv, NobodySleepsOnMessages, [MboxNext]_sysVars
  PROVE  NobodySleepsOnMessages'
<1> USE DEF portVars, sigVars
<1>0. TypeInv /\ SigTypeOK /\ \A u \in Task : pc[u] \in Port \cup {NULL}
  BY DEF ListInv, TypeInv
<1>1. ASSUME \A u \in Task :
               pc'[u] # NULL /\ status'[u] = "blocked" =>
                 \/ /\ pc[u] = pc'[u] /\ status[u] = "blocked"
                    /\ message_list'[pc[u]] = message_list[pc[u]]
                 \/ message_list'[pc'[u]] = << >>
      PROVE  NobodySleepsOnMessages'
  BY <1>1 DEF NobodySleepsOnMessages
<1>2. ASSUME NEW m \in Message, NEW p \in Port, Send(m, p)
      PROVE  NobodySleepsOnMessages'
  <2>1. UNCHANGED <<port, pc, sig_wait>>
    BY <1>2, SendQuiet
  <2>2. \A q \in Port \ {p} : message_list'[q] = message_list[q]
    BY <1>0, <1>2 DEF Send, TypeInv
  <2>3. \A u \in Task : /\ status'[u] = "blocked" => status[u] = "blocked"
                        /\ Bound(p, u) /\ status'[u] = "blocked" =>
                             port[p].signal \cap sig_wait[u] = {}
    <3>1. CASE Notifies(p) /\ SigSend(port[p].task, port[p].signal)
      BY <1>0, <3>1 DEF Notifies, SigSend, SigTypeOK, Bound
    <3>2. CASE ~ Notifies(p) /\ UNCHANGED sigVars
      BY <3>2, MsgPortAssumption DEF Notifies, Bound
    <3> QED
      BY <1>2, <3>1, <3>2 DEF Send
  <2>4. ASSUME NEW u \in Task, pc[u] # NULL, status'[u] = "blocked"
        PROVE  pc[u] # p
    <3>1. CtlInv(u) /\ PortBits(p)
      BY DEF WaitInv, BitInv
    <3> QED
      BY <2>3, <2>4, <3>1 DEF CtlInv, PortBits, Bound
  <2> QED
    BY <1>0, <1>1, <2>1, <2>2, <2>3, <2>4
<1>3. ASSUME NEW p \in Port, NEW h, RemHead(p, h), UNCHANGED <<status, pc>>
      PROVE  NobodySleepsOnMessages'
  <2>1. message_list[p] # << >> /\ \A q \in Port \ {p} : message_list'[q] = message_list[q]
    BY <1>0, <1>3 DEF RemHead, TypeInv
  <2> QED
    BY <1>0, <1>1, <1>3, <2>1 DEF NobodySleepsOnMessages
<1>4. CASE UNCHANGED sysVars
  BY <1>1, <1>4 DEF sysVars, allVars
<1>5. ASSUME NEW S \in SUBSET armed, AlarmFire(S), UNCHANGED <<portVars, pc, mboxVars>>
      PROVE  NobodySleepsOnMessages'
  BY <1>1, <1>5 DEF AlarmFire
<1>6. ASSUME NEW t \in Task, PortUser(t)
      PROVE  NobodySleepsOnMessages'
  <2>1. CASE Start(t)
    BY <1>0, <1>1, <2>1 DEF Start, SigCreate, SigTypeOK
  <2>2. ASSUME NEW m \in Message, msgport_reply(t, m)
        PROVE  NobodySleepsOnMessages'
    BY <1>0, <1>2, <2>2 DEF msgport_reply, TypeInv
  <2>3. ASSUME NEW p \in Port, PortStep(t, p)
        PROVE  NobodySleepsOnMessages'
    <3>1. CASE msgport_init(t, p)
      <4>1. UNCHANGED <<message_list, status, pc>>
        BY <3>1, ListInitKept DEF msgport_init, SigAllocate
      <4> QED
        BY <1>1, <4>1
    <3>2. CASE msgport_get(t, p)
      BY <1>3, <3>2 DEF msgport_get
    <3>3. ASSUME Sleep(t, p), message_list[p] = << >>
          PROVE  NobodySleepsOnMessages'
      <4>1. /\ pc'[t] = p /\ UNCHANGED message_list
            /\ \A u \in Task \ {t} : status'[u] = status[u] /\ pc'[u] = pc[u]
        BY <1>0, <3>3 DEF Sleep, SigTypeOK, TypeInv
      <4> QED
        BY <1>1, <3>3, <4>1
    <3>4. CASE msgport_wait(t, p)
      BY <3>3, <3>4 DEF msgport_wait
    <3>5. CASE msgport_wait_resume(t, p)
      <4>1. CASE SigResume(t) /\ pc' = [pc EXCEPT ![t] = NULL] /\ UNCHANGED portVars
        <5>1. /\ pc'[t] = NULL /\ UNCHANGED message_list
              /\ \A u \in Task \ {t} : status'[u] = status[u] /\ pc'[u] = pc[u]
          BY <1>0, <4>1 DEF SigResume, SigTypeOK, TypeInv
        <5> QED
          BY <1>1, <5>1
      <4> QED
        BY <3>3, <3>5, <4>1 DEF msgport_wait_resume, GoesOn
    <3>6. ASSUME NEW m \in Message, NEW r \in Port \cup {NULL}, msgport_send(t, m, p, r)
          PROVE  NobodySleepsOnMessages'
      BY <1>2, <3>6 DEF msgport_send
    <3> QED
      BY <2>3, <3>1, <3>2, <3>4, <3>5, <3>6 DEF PortStep
  <2> QED
    BY <1>6, <2>1, <2>2, <2>3 DEF PortUser
<1>7. ASSUME NEW t \in Task, MboxUser(t)
      PROVE  NobodySleepsOnMessages'
  <2>1. ASSUME NEW p \in Port, sys_mbox_new(t, p)
        PROVE  NobodySleepsOnMessages'
    <3>1. ~ Ready(p)
      BY <2>1 DEF sys_mbox_new, ListInv, UseInv, Ready
    <3>2. UNCHANGED <<message_list, status, pc>>
      BY <2>1, <3>1, ListInitKept DEF sys_mbox_new
    <3> QED
      BY <1>1, <3>2
  <2>2. ASSUME NEW p \in Port, NEW m \in Message, sys_mbox_post(t, m, p)
        PROVE  NobodySleepsOnMessages'
    BY <1>2, <2>2 DEF sys_mbox_post
  <2>3. ASSUME NEW p \in Port, sys_arch_mbox_tryfetch(t, p)
        PROVE  NobodySleepsOnMessages'
    BY <1>3, <2>3 DEF sys_arch_mbox_tryfetch
  <2>4. CASE \/ \E p \in Port : sys_mbox_free(t, p) \/ sys_arch_mbox_fetch(t, p)
             \/ sys_mbox_set_invalid(t) \/ fetch_timer_allocate(t) \/ fetch_timer_add(t)
             \/ fetch_timer_abort(t) \/ fetch_timer_free(t)
    <3>1. UNCHANGED <<message_list, status, pc>>
      BY <2>4 DEF sys_mbox_free, sys_arch_mbox_fetch, sys_mbox_set_invalid,
                  fetch_timer_allocate, fetch_timer_add, fetch_timer_abort, fetch_timer_free,
                  SigFree, SigAllocate, AlarmAllocate, AlarmSet, AlarmStop, AlarmFree
    <3> QED
      BY <1>1, <3>1
  <2>5. CASE fetch_wait(t) \/ fetch_wait_return(t)
    <3>1. /\ UNCHANGED <<message_list, pc>> /\ at[t] # "out"
          /\ \/ UNCHANGED status
             \/ status' \in {[status EXCEPT ![t] = "blocked"], [status EXCEPT ![t] = "active"]}
      BY <2>5 DEF fetch_wait, fetch_wait_return, At, SigWaitTake, SigWaitBlock, SigResume
    <3>2. pc[t] = NULL /\ \A u \in Task \ {t} : status'[u] = status[u]
      BY <1>0, <3>1 DEF WaitInv, CtlInv, SigTypeOK
    <3> QED
      BY <1>1, <3>1, <3>2
  <2>6. CASE fetch_get(t)
    <3>1. fetching[t] \in Port
      BY <1>0, <2>6 DEF fetch_get, At, ListInv, WhereInv, TypeInv
    <3> QED
      BY <1>3, <2>6, <3>1 DEF fetch_get
  <2> QED
    BY <1>7, <2>1, <2>2, <2>3, <2>4, <2>5, <2>6 DEF MboxUser
<1> QED
  BY <1>4, <1>5, <1>6, <1>7 DEF MboxNext

\* The layers that hold whoever frees the mailboxes.
SafeInv == ListInv /\ BitInv /\ WaitInv /\ NobodySleepsOnMessages

-----------------------------------------------------------------------------
(* Which task owns which bits, if mailboxes are freed by their fetchers. *)

\* The bit of a port belongs to its task, which has its timer on another one.
\* Between sys_mbox_free() and sys_mbox_set_invalid() the port names a bit that
\* is free already, but its task is busy with just that.
Owned(p, t) ==
  Bound(p, t) =>
    /\ port[p].signal \cap alarm_signal[t] = {}
    /\ use[p] # "freed" => port[p].signal \subseteq sig_alloc[t]
    /\ use[p] = "freed" => at[t] = "freed" /\ fetching[t] = p

\* What OwnSignals says, for the ports that signal.
Apart ==
  \A p, q \in Port : \A t \in Task :
    p # q /\ Bound(p, t) /\ Bound(q, t) => port[p].signal \cap port[q].signal = {}

\* The fifth layer.
OwnInv ==
  /\ \A p \in Port, t \in Task : Owned(p, t)
  /\ Apart

\* Steps that bind no port.
LEMMA KeptOwn ==
  ASSUME OwnInv,
         \A p \in Port, t \in Task :
           Bound(p, t)' => /\ Bound(p, t) /\ port'[p] = port[p]
                           /\ port[p].signal \cap alarm_signal'[t] = {}
                           /\ use'[p] # "freed" =>
                                /\ use[p] # "freed"
                                /\ port[p].signal \cap sig_alloc[t] \subseteq sig_alloc'[t]
                           /\ use'[p] = "freed" => at'[t] = "freed" /\ fetching'[t] = p
  PROVE  OwnInv'
<1>1. ASSUME NEW p \in Port, NEW t \in Task, Bound(p, t)'
      PROVE  /\ port'[p].signal \cap alarm_signal'[t] = {}
             /\ use'[p] # "freed" => port'[p].signal \subseteq sig_alloc'[t]
             /\ use'[p] = "freed" => at'[t] = "freed" /\ fetching'[t] = p
  <2>1. /\ Bound(p, t) /\ port'[p] = port[p]
        /\ port[p].signal \cap alarm_signal'[t] = {}
        /\ use'[p] # "freed" =>
             use[p] # "freed" /\ port[p].signal \cap sig_alloc[t] \subseteq sig_alloc'[t]
        /\ use'[p] = "freed" => at'[t] = "freed" /\ fetching'[t] = p
    BY <1>1
  <2>2. Owned(p, t)
    BY DEF OwnInv
  <2> QED
    BY <2>1, <2>2 DEF Owned
<1>2. Apart'
  BY DEF OwnInv, Apart
<1> QED
  BY <1>1, <1>2 DEF OwnInv, Owned

\* Steps that bind, allocate and free nothing.
LEMMA QuietOwn ==
  ASSUME OwnInv, UNCHANGED <<port, alarm_signal, sig_alloc>>,
         \A p \in Port : use'[p] = "freed" <=> use[p] = "freed",
         \A t \in Task : at[t] = "freed" => at'[t] = "freed" /\ fetching'[t] = fetching[t]
  PROVE  OwnInv'
<1>1. ASSUME NEW p \in Port, NEW t \in Task, Bound(p, t)'
      PROVE  /\ Bound(p, t) /\ port'[p] = port[p]
             /\ port[p].signal \cap alarm_signal'[t] = {}
             /\ use'[p] # "freed" =>
                  use[p] # "freed" /\ port[p].signal \cap sig_alloc[t] \subseteq sig_alloc'[t]
             /\ use'[p] = "freed" => at'[t] = "freed" /\ fetching'[t] = p
  <2>1. Bound(p, t) /\ Owned(p, t)
    BY <1>1 DEF OwnInv, Bound
  <2> QED
    BY <2>1 DEF Owned
<1> QED
  BY <1>1, KeptOwn

\* A bit that a task finds free is not the bit of a port of its own.
LEMMA FreshBit ==
  ASSUME OwnInv, NEW t \in Task, NEW b, FindsBit(t, b), at[t] # "freed"
  PROVE  \A q \in Port : Bound(q, t) => use[q] # "freed" /\ b \notin port[q].signal
BY DEF OwnInv, Owned, FindsBit

\* Task t binds port p, which did not signal before.
LEMMA BindOwn ==
  ASSUME SafeInv, OwnInv, NEW t \in Task, NEW p \in Port, NEW b \in SignalNumber,
         FindsBit(t, b), SigAllocate(t, b), port[p].action # "signal", use[p] # "freed",
         port' = [port EXCEPT ![p] = [task |-> t, signal |-> {b}, action |-> "signal"]],
         at[t] = "out", UNCHANGED alarm_signal,
         \A q \in Port : use'[q] = "freed" <=> use[q] = "freed",
         \A u \in Task \ {t} : at'[u] = at[u] /\ fetching'[u] = fetching[u]
  PROVE  OwnInv'
<1>0. TypeInv /\ SigTypeOK /\ alarm_signal[t] = {}
  BY DEF SafeInv, ListInv, TypeInv, WaitInv, CtlInv
<1>1. /\ port'[p] = [task |-> t, signal |-> {b}, action |-> "signal"]
      /\ \A q \in Port \ {p} : port'[q] = port[q]
      /\ \A u \in Task : sig_alloc'[u] = IF u = t THEN sig_alloc[t] \cup {b} ELSE sig_alloc[u]
  BY <1>0 DEF TypeInv, SigTypeOK, SigAllocate
<1>2. \A u \in Task : /\ ~ Bound(p, u)
                      /\ Bound(p, u)' <=> u = t
                      /\ \A q \in Port \ {p} : Bound(q, u)' <=> Bound(q, u)
  BY <1>1 DEF Bound
<1>3. \A q \in Port : Bound(q, t) => use[q] # "freed" /\ b \notin port[q].signal
  BY FreshBit
<1>4. ASSUME NEW q \in Port, NEW u \in Task
      PROVE  Owned(q, u)'
  <2>1. CASE q = p
    BY <1>0, <1>1, <1>2, <2>1 DEF Owned
  <2>2. CASE q # p
    <3>1. Owned(q, u) /\ (Bound(q, u)' <=> Bound(q, u)) /\ port'[q] = port[q]
      BY <1>1, <1>2, <2>2 DEF OwnInv
    <3>2. CASE u = t
      BY <1>1, <1>3, <3>1, <3>2 DEF Owned
    <3>3. CASE u # t
      BY <1>1, <3>1, <3>3 DEF Owned
    <3> QED
      BY <3>2, <3>3
  <2> QED
    BY <2>1, <2>2
<1>5. Apart'
  <2> SUFFICES ASSUME NEW q \in Port, NEW r \in Port, NEW u \in Task,
                      q # r, Bound(q, u)', Bound(r, u)'
               PROVE  port'[q].signal \cap port'[r].signal = {}
    BY DEF Apart
  <2>1. CASE q = p
    BY <1>1, <1>2, <1>3, <2>1
  <2>2. CASE r = p
    BY <1>1, <1>2, <1>3, <2>2
  <2>3. CASE q # p /\ r # p
    BY <1>1, <1>2, <2>3 DEF OwnInv, Apart
  <2> QED
    BY <2>1, <2>2, <2>3
<1> QED
  BY <1>4, <1>5 DEF OwnInv

\* Nothing is bound at boot.
LEMMA OwnInitInv == MboxInit => OwnInv
<1> SUFFICES ASSUME MboxInit
             PROVE  OwnInv
  OBVIOUS
<1>1. \A p \in Port, t \in Task : ~ Bound(p, t)
  BY DEF MboxInit, MsgInit, Bound
<1> QED
  BY <1>1 DEF OwnInv, Owned, Apart

\* The fifth layer is inductive: in the steps of tasks that use message ports,
LEMMA PortUserOwn ==
  ASSUME SafeInv, OwnInv, NEW t \in Task, PortUser(t)
  PROVE  OwnInv'
<1> USE DEF alarmVars, portVars, sigVars
<1>0. TypeInv /\ SigTypeOK
  BY DEF SafeInv, ListInv, TypeInv
<1>1. UNCHANGED <<alarmVars, fetching, at>> /\ at[t] = "out"
  BY DEF PortUser
<1>2. CASE Start(t) /\ UNCHANGED use
  <2>1. /\ status[t] = "none" /\ UNCHANGED port
        /\ \A u \in Task \ {t} : sig_alloc'[u] = sig_alloc[u]
    BY <1>0, <1>2 DEF Start, SigCreate, SigTypeOK
  <2>2. \A q \in Port : ~ Bound(q, t)
    BY <2>1 DEF SafeInv, BitInv, PortBits, Bound
  <2>3. ASSUME NEW q \in Port, NEW u \in Task, Bound(q, u)'
        PROVE  Bound(q, u) /\ u # t /\ Owned(q, u)
    BY <2>1, <2>2, <2>3 DEF OwnInv, Bound
  <2> QED
    BY <1>1, <1>2, <2>1, <2>3, KeptOwn DEF Owned
<1>3. ASSUME NEW m \in Message, NEW p \in Port, Send(m, p), UNCHANGED use
      PROVE  OwnInv'
  BY <1>1, <1>3, SendQuiet, QuietOwn DEF SafeInv
<1>4. ASSUME NEW m \in Message, msgport_reply(t, m), UNCHANGED use
      PROVE  OwnInv'
  BY <1>0, <1>3, <1>4 DEF msgport_reply, TypeInv
<1>5. ASSUME NEW p \in Port, use[p] \in {"none", "port"}, PortStep(t, p),
             use' = [use EXCEPT ![p] = "port"]
      PROVE  OwnInv'
  <2>0. /\ \A q \in Port : use'[q] = "freed" <=> use[q] = "freed"
        /\ Ready(p) => UNCHANGED use
    BY <1>0, <1>5 DEF TypeInv, SafeInv, ListInv, UseInv, Ready
  <2>1. CASE msgport_init(t, p)
    <3>1. PICK b \in SignalNumber :
            /\ FindsBit(t, b) /\ SigAllocate(t, b)
            /\ port' = [port EXCEPT ![p] = [task |-> t, signal |-> {b}, action |-> "signal"]]
      BY <2>1 DEF msgport_init, Mask
    <3>2. port[p].action # "signal"
      BY <2>1 DEF msgport_init, Ready
    <3> QED
      BY <1>1, <1>5, <2>0, <3>1, <3>2, BindOwn
  <2>2. CASE msgport_get(t, p) \/ msgport_wait(t, p) \/ msgport_wait_resume(t, p)
    <3>1. UNCHANGED <<port, sig_alloc>>
      BY <2>2 DEF msgport_get, RemHead, msgport_wait, msgport_wait_resume, Sleep, SigResume
    <3> QED
      BY <1>1, <2>0, <3>1, QuietOwn
  <2>3. ASSUME NEW m \in Message, NEW r \in Port \cup {NULL}, msgport_send(t, m, p, r)
        PROVE  OwnInv'
    BY <1>3, <2>0, <2>3 DEF msgport_send
  <2> QED
    BY <1>5, <2>1, <2>2, <2>3 DEF PortStep
<1> QED
  BY <1>2, <1>4, <1>5 DEF PortUser

\* ... and of tasks that use mailboxes.
LEMMA MboxUserOwn ==
  ASSUME FreedByFetcher, SafeInv, OwnInv, NEW t \in Task, MboxUser(t)
  PROVE  OwnInv'
<1> USE DEF alarmVars, portVars, sigVars, mboxVars
<1>0. /\ TypeInv /\ SigTypeOK /\ AlarmTypeOK /\ CtlInv(t)
      /\ at[t] # "out" => fetching[t] \in Port
  BY DEF SafeInv, ListInv, TypeInv, WaitInv, WhereInv
<1>1. ASSUME NEW p \in Port, sys_mbox_new(t, p)
      PROVE  OwnInv'
  <2>1. /\ port' = [port EXCEPT ![p] = [task |-> NULL, signal |-> {}, action |-> "ignore"]]
        /\ use' = [use EXCEPT ![p] = "mbox"] /\ use[p] = "none"
        /\ UNCHANGED <<sigVars, alarmVars, fetching, at>>
    BY <1>1 DEF sys_mbox_new
  <2>2. ASSUME NEW q \in Port, NEW u \in Task, Bound(q, u)'
        PROVE  /\ Bound(q, u) /\ port'[q] = port[q] /\ use'[q] = use[q] /\ Owned(q, u)
    BY <1>0, <2>1, <2>2 DEF TypeInv, Bound, OwnInv
  <2>3. ASSUME NEW q \in Port, NEW u \in Task, Bound(q, u)'
        PROVE  /\ Bound(q, u) /\ port'[q] = port[q]
               /\ port[q].signal \cap alarm_signal'[u] = {}
               /\ use'[q] # "freed" =>
                    use[q] # "freed" /\ port[q].signal \cap sig_alloc[u] \subseteq sig_alloc'[u]
               /\ use'[q] = "freed" => at'[u] = "freed" /\ fetching'[u] = q
    <3>1. UNCHANGED <<sig_alloc, alarm_signal, fetching, at>>
      BY <2>1
    <3>2. Bound(q, u) /\ port'[q] = port[q] /\ use'[q] = use[q] /\ Owned(q, u)
      BY <2>2, <2>3
    <3> QED
      BY <3>1, <3>2 DEF Owned
  <2> QED
    BY <2>3, KeptOwn
<1>2. ASSUME NEW p \in Port, NEW m \in Message, sys_mbox_post(t, m, p)
      PROVE  OwnInv'
  BY <1>2, SendQuiet, QuietOwn DEF sys_mbox_post, SafeInv
<1>3. ASSUME NEW p \in Port, sys_arch_mbox_tryfetch(t, p)
      PROVE  OwnInv'
  <2>1. /\ UNCHANGED <<port, sigVars, alarmVars, fetching, at>>
        /\ \A q \in Port : use'[q] = "freed" <=> use[q] = "freed"
    BY <1>0, <1>3 DEF sys_arch_mbox_tryfetch, RemHead, AfterPoll, TypeInv
  <2> QED
    BY <2>1, QuietOwn
<1>4. ASSUME NEW p \in Port, sys_mbox_free(t, p)
      PROVE  OwnInv'
  <2>1. /\ use' = [use EXCEPT ![p] = "freed"]
        /\ at' = [at EXCEPT ![t] = "freed"] /\ fetching' = [fetching EXCEPT ![t] = p]
        /\ use[p] \in {"mbox", "closing"} /\ port[p].task \in {NULL, t} /\ at[t] = "out"
        /\ SigFree(t, port[p].signal) /\ UNCHANGED <<port, alarmVars>>
    BY <1>4 DEF sys_mbox_free, MayFree, Fetcher, Idle
  <2>2. /\ use'[p] = "freed" /\ \A q \in Port \ {p} : use'[q] = use[q]
        /\ at'[t] = "freed" /\ fetching'[t] = p
        /\ \A u \in Task \ {t} : at'[u] = at[u] /\ fetching'[u] = fetching[u]
        /\ sig_alloc'[t] = sig_alloc[t] \ port[p].signal
        /\ \A u \in Task \ {t} : sig_alloc'[u] = sig_alloc[u]
    BY <1>0, <2>1 DEF TypeInv, SigFree, SigTypeOK
  <2>3. \A u \in Task : Bound(p, u) => u = t
    BY <2>1, MsgPortAssumption DEF Bound
  <2>4. \A q \in Port \ {p} : Bound(q, t) => port[q].signal \cap port[p].signal = {}
    <3>1. CASE Bound(p, t)
      BY <3>1 DEF OwnInv, Apart
    <3>2. CASE ~ Bound(p, t)
      <4>1. port[p].action = "ignore"
        BY <1>0, <2>1, <3>2, MsgPortAssumption
           DEF Bound, TypeInv, SafeInv, ListInv, UseInv, BitInv, PortBits
      <4> QED
        BY <4>1 DEF SafeInv, BitInv, PortBits
    <3> QED
      BY <3>1, <3>2
  <2>5. ASSUME NEW q \in Port, NEW u \in Task, Bound(q, u)'
        PROVE  /\ Bound(q, u) /\ port'[q] = port[q]
               /\ port[q].signal \cap alarm_signal'[u] = {}
               /\ use'[q] # "freed" =>
                    use[q] # "freed" /\ port[q].signal \cap sig_alloc[u] \subseteq sig_alloc'[u]
               /\ use'[q] = "freed" => at'[u] = "freed" /\ fetching'[u] = q
    <3>1. Bound(q, u) /\ Owned(q, u)
      BY <2>1, <2>5 DEF OwnInv, Bound
    <3>2. CASE q = p
      BY <2>1, <2>2, <2>3, <3>1, <3>2 DEF Owned
    <3>3. CASE q # p
      <4>1. port[q].signal \cap sig_alloc[u] \subseteq sig_alloc'[u]
        BY <2>2, <2>4, <3>1, <3>3
      <4>2. use[q] = "freed" => u # t
        BY <2>1, <3>1 DEF Owned
      <4> QED
        BY <2>1, <2>2, <3>1, <3>3, <4>1, <4>2 DEF Owned
    <3> QED
      BY <3>2, <3>3
  <2> QED
    BY <2>5, KeptOwn
<1>5. CASE sys_mbox_set_invalid(t)
  <2> DEFINE p == fetching[t]
  <2>1. /\ port' = [port EXCEPT ![p].action = "invalid"] /\ use' = [use EXCEPT ![p] = "none"]
        /\ at[t] = "freed" /\ Goto(t, "out") /\ UNCHANGED <<sigVars, alarmVars>>
    BY <1>5 DEF sys_mbox_set_invalid, At
  <2>2. p \in Port /\ \A u \in Task \ {t} : at'[u] = at[u] /\ fetching'[u] = fetching[u]
    BY <1>0, <2>1 DEF Goto, TypeInv
  <2>3. /\ port'[p].action = "invalid"
        /\ \A q \in Port \ {p} : port'[q] = port[q] /\ use'[q] = use[q]
    BY <1>0, <2>1, <2>2 DEF TypeInv
  <2>4. ASSUME NEW q \in Port, NEW u \in Task, Bound(q, u)'
        PROVE  /\ q # p /\ Bound(q, u) /\ Owned(q, u)
               /\ use[q] = "freed" => u # t
    <3>1. q # p /\ Bound(q, u) /\ Owned(q, u)
      BY <2>3, <2>4 DEF OwnInv, Bound
    <3> QED
      BY <3>1 DEF Owned
  <2> HIDE DEF p
  <2> QED
    BY <2>1, <2>2, <2>3, <2>4, KeptOwn DEF Owned
<1>6. ASSUME NEW p \in Port, sys_arch_mbox_fetch(t, p)
      PROVE  OwnInv'
  <2>1. /\ use[p] = "mbox" /\ at[t] = "out" /\ UNCHANGED <<use, alarmVars>>
        /\ \A u \in Task \ {t} : at'[u] = at[u] /\ fetching'[u] = fetching[u]
    BY <1>0, <1>6 DEF sys_arch_mbox_fetch, Idle, TypeInv
  <2>2. CASE UNCHANGED <<port, sigVars>>
    BY <2>1, <2>2, QuietOwn
  <2>3. ASSUME NEW b \in SignalNumber, FindsBit(t, b), SigAllocate(t, b),
               port[p].signal = {},
               port' = [port EXCEPT ![p] = [task |-> t, signal |-> {b}, action |-> "signal"]]
        PROVE  OwnInv'
    <3>1. port[p].action # "signal"
      BY <2>3 DEF SafeInv, BitInv, PortBits
    <3> QED
      BY <2>1, <2>3, <3>1, BindOwn
  <2> QED
    BY <1>6, <2>2, <2>3 DEF sys_arch_mbox_fetch, Mask
<1> USE DEF At
<1>7. ASSUME NEW loc, Goto(t, loc), at[t] # "freed"
      PROVE  \A u \in Task : at[u] = "freed" => at'[u] = "freed" /\ fetching'[u] = fetching[u]
  BY <1>0, <1>7 DEF Goto, TypeInv
<1>8. CASE fetch_timer_allocate(t)
  <2>1. PICK b \in SignalNumber : AlarmAllocate(t, b)
    BY <1>8 DEF fetch_timer_allocate
  <2>2. UNCHANGED <<port, use>> /\ at[t] = "ready" /\ Goto(t, "timer")
    BY <1>8 DEF fetch_timer_allocate
  <2>3. \A u \in Task : /\ sig_alloc[u] \subseteq sig_alloc'[u]
                        /\ alarm_signal'[u] = IF u = t THEN {b} ELSE alarm_signal[u]
    BY <1>0, <2>1 DEF AlarmAllocate, SigAllocate, SigTypeOK, AlarmTypeOK
  <2>4. \A q \in Port : Bound(q, t) => b \notin port[q].signal
    BY <2>1, <2>2, FreshBit DEF AlarmAllocate
  <2>5. ASSUME NEW q \in Port, NEW u \in Task, Bound(q, u)'
        PROVE  /\ Bound(q, u) /\ Owned(q, u) /\ port[q].signal \cap alarm_signal'[u] = {}
               /\ port[q].signal \cap sig_alloc[u] \subseteq sig_alloc'[u]
    <3>1. Bound(q, u) /\ Owned(q, u)
      BY <2>2, <2>5 DEF OwnInv, Bound
    <3> QED
      BY <2>3, <2>4, <3>1 DEF Owned
  <2> QED
    BY <1>7, <2>2, <2>5, KeptOwn DEF Owned
<1>9. CASE fetch_timer_add(t) \/ fetch_timer_abort(t) \/ fetch_wait(t) \/ fetch_wait_return(t)
           \/ fetch_get(t)
  <2>1. UNCHANGED <<port, alarm_signal, sig_alloc, use>> /\ at[t] # "freed"
    BY <1>9 DEF fetch_timer_add, fetch_timer_abort, fetch_wait, fetch_wait_return, fetch_get,
                AlarmSet, AlarmStop, SigWaitTake, SigWaitBlock, SigResume, RemHead
  <2>2. \E loc : Goto(t, loc)
    BY <1>9 DEF fetch_timer_add, fetch_timer_abort, fetch_wait, fetch_wait_return, fetch_get,
                Decide
  <2> QED
    BY <1>7, <2>1, <2>2, QuietOwn
<1>10. CASE fetch_timer_free(t)
  <2>1. UNCHANGED <<port, use>> /\ at[t] = "stopped" /\ Goto(t, "out") /\ AlarmFree(t)
    BY <1>10 DEF fetch_timer_free
  <2>2. \A u \in Task : /\ alarm_signal'[u] \subseteq alarm_signal[u]
                        /\ sig_alloc[u] \ alarm_signal[u] \subseteq sig_alloc'[u]
    BY <1>0, <2>1 DEF AlarmFree, SigFree, SigTypeOK, AlarmTypeOK
  <2>3. ASSUME NEW q \in Port, NEW u \in Task, Bound(q, u)'
        PROVE  /\ Bound(q, u) /\ Owned(q, u) /\ port[q].signal \cap alarm_signal'[u] = {}
               /\ port[q].signal \cap sig_alloc[u] \subseteq sig_alloc'[u]
    <3>1. Bound(q, u) /\ Owned(q, u)
      BY <2>1, <2>3 DEF OwnInv, Bound
    <3> QED
      BY <2>2, <3>1 DEF Owned
  <2> QED
    BY <1>7, <2>1, <2>3, KeptOwn DEF Owned
<1> QED
  BY <1>1, <1>2, <1>3, <1>4, <1>5, <1>6, <1>8, <1>9, <1>10 DEF MboxUser

\* Every step keeps the account of the signal bits.
LEMMA OwnNextInv ==
  ASSUME FreedByFetcher, SafeInv, OwnInv, [MboxNext]_sysVars
  PROVE  OwnInv'
<1>1. CASE UNCHANGED sysVars
  BY <1>1, QuietOwn DEF sysVars, allVars, sigVars, portVars, alarmVars, mboxVars
<1>2. ASSUME NEW S \in SUBSET armed, AlarmFire(S), UNCHANGED <<portVars, pc, mboxVars>>
      PROVE  OwnInv'
  BY <1>2, QuietOwn DEF AlarmFire, portVars, mboxVars
<1> QED
  BY <1>1, <1>2, PortUserOwn, MboxUserOwn DEF MboxNext

-----------------------------------------------------------------------------
(* What the signals say about the messages, under the same hypothesis. *)

\* The signal of a mailbox does not come without a message.
MailInv(p, t) ==
  use[p] = "mbox" /\ Bound(p, t) /\ port[p].signal \subseteq sig_recvd[t]
    => Len(message_list[p]) >= 1

\* The message that ended a wait is still there, beside those whose signal has
\* come since.
GotInv(t) ==
  at[t] = "got" =>
    /\ Len(message_list[fetching[t]]) >= 1
    /\ port[fetching[t]].signal \subseteq sig_recvd[t] => Len(message_list[fetching[t]]) >= 2

\* The sixth layer.
NewsInv ==
  /\ \A p \in Port, t \in Task : MailInv(p, t)
  /\ \A t \in Task : GotInv(t)

\* The inductive invariant of the mailboxes that their fetchers free.
MboxInv == SafeInv /\ OwnInv /\ NewsInv

\* The bit of a port that signals.
LEMMA BoundBit ==
  ASSUME MboxInv, NEW p \in Port, NEW t \in Task, Bound(p, t)
  PROVE  \E b \in SignalNumber \ {0} : port[p].signal = {b} /\ b \notin alarm_signal[t]
BY DEF MboxInv, SafeInv, OwnInv, Owned, BitInv, PortBits, Bound

\* What is known about a task in sys_arch_mbox_fetch().
LEMMA FetcherFacts ==
  ASSUME MboxInv, NEW t \in Task, at[t] \notin {"out", "freed"}
  PROVE  /\ fetching[t] \in Port /\ use[fetching[t]] = "mbox" /\ Bound(fetching[t], t)
         /\ pc[t] = NULL
BY MsgPortAssumption DEF MboxInv, SafeInv, WaitInv, CtlInv, ListInv, WhereInv, TypeInv

\* Steps that move no message.
LEMMA QuietNews ==
  ASSUME MboxInv, UNCHANGED message_list,
         \A q \in Port, u \in Task :
           use'[q] = "mbox" /\ Bound(q, u)' /\ port'[q].signal \subseteq sig_recvd'[u]
             => use[q] = "mbox" /\ Bound(q, u) /\ port[q].signal \subseteq sig_recvd[u],
         \A u \in Task :
           at'[u] = "got" =>
             \/ /\ at[u] = "got" /\ fetching'[u] = fetching[u]
                /\ port'[fetching'[u]].signal \subseteq sig_recvd'[u]
                     => port[fetching[u]].signal \subseteq sig_recvd[u]
             \/ /\ Len(message_list[fetching'[u]]) >= 1
                /\ ~ (port'[fetching'[u]].signal \subseteq sig_recvd'[u])
  PROVE  NewsInv'
<1>1. ASSUME NEW q \in Port, NEW u \in Task
      PROVE  MailInv(q, u)'
  BY DEF MboxInv, NewsInv, MailInv
<1>2. ASSUME NEW u \in Task
      PROVE  GotInv(u)'
  BY DEF MboxInv, NewsInv, GotInv
<1> QED
  BY <1>1, <1>2 DEF NewsInv

\* A message and its signal arrive together.
LEMMA SendNews ==
  ASSUME MboxInv, NEW m \in Message, NEW p \in Port, Send(m, p), UNCHANGED mboxVars
  PROVE  NewsInv'
<1>0. TypeInv /\ SigTypeOK
  BY DEF MboxInv, SafeInv, ListInv, TypeInv
<1>1. UNCHANGED <<port, use, fetching, at>>
  BY SendQuiet DEF MboxInv, SafeInv, mboxVars
<1>2. /\ \A q \in Port \ {p} : message_list'[q] = message_list[q]
      /\ Len(message_list'[p]) = Len(message_list[p]) + 1
      /\ \A q \in Port : Len(message_list[q]) \in Nat
  <2>1. message_list' = [message_list EXCEPT ![p] = Append(@, m)]
    BY DEF Send
  <2>2. \A q \in Port : message_list[q] \in Seq(Message) /\ Len(message_list[q]) \in Nat
    BY <1>0, LenProperties DEF TypeInv
  <2> QED
    BY <1>0, <2>1, <2>2, AppendProperties DEF TypeInv
<1>3. \A u \in Task :
        /\ Bound(p, u) => sig_recvd'[u] = sig_recvd[u] \cup port[p].signal
        /\ ~ Bound(p, u) => sig_recvd'[u] = sig_recvd[u]
  <2>1. CASE Notifies(p) /\ SigSend(port[p].task, port[p].signal)
    BY <1>0, <2>1 DEF Notifies, SigSend, SigTypeOK, Bound
  <2>2. CASE ~ Notifies(p) /\ UNCHANGED sigVars
    BY <1>0, <2>2, MsgPortAssumption DEF Notifies, Bound, sigVars
  <2> QED
    BY <2>1, <2>2 DEF Send
<1>4. ASSUME NEW q \in Port, NEW u \in Task, q # p, Bound(q, u),
             port[q].signal \subseteq sig_recvd'[u]
      PROVE  port[q].signal \subseteq sig_recvd[u]
  <2>1. CASE Bound(p, u)
    <3>1. port[q].signal \cap port[p].signal = {}
      BY <1>4, <2>1 DEF MboxInv, OwnInv, Apart
    <3> QED
      BY <1>3, <1>4, <2>1, <3>1
  <2>2. CASE ~ Bound(p, u)
    BY <1>3, <1>4, <2>2
  <2> QED
    BY <2>1, <2>2
<1>5. ASSUME NEW q \in Port, NEW u \in Task
      PROVE  MailInv(q, u)'
  <2>1. MailInv(q, u)
    BY DEF MboxInv, NewsInv
  <2> QED
    BY <1>1, <1>2, <1>4, <2>1 DEF MailInv, Bound
<1>6. ASSUME NEW u \in Task
      PROVE  GotInv(u)'
  <2>1. SUFFICES ASSUME at[u] = "got"
                 PROVE  GotInv(u)'
    BY <1>1 DEF GotInv
  <2>2. fetching[u] \in Port /\ Bound(fetching[u], u) /\ GotInv(u)
    BY <2>1, FetcherFacts DEF MboxInv, NewsInv
  <2> QED
    BY <1>1, <1>2, <1>4, <2>1, <2>2 DEF GotInv
<1> QED
  BY <1>5, <1>6 DEF NewsInv

\* A message is taken off port p.
LEMMA RemHeadNews ==
  ASSUME MboxInv, NEW p \in Port, NEW h, RemHead(p, h), UNCHANGED sigVars,
         \A q \in Port \ {p} : use'[q] = use[q],
         \A u \in Task : at'[u] = "got" => at[u] = "got" /\ fetching'[u] = fetching[u]
                                             /\ fetching[u] # p,
         \A u \in Task : use'[p] = "mbox" /\ Bound(p, u) /\ port[p].signal \subseteq sig_recvd[u]
                           => Len(message_list[p]) >= 2
  PROVE  NewsInv'
<1>0. TypeInv
  BY DEF MboxInv, SafeInv, ListInv
<1>1. /\ UNCHANGED port /\ message_list[p] # << >>
      /\ \A q \in Port \ {p} : message_list'[q] = message_list[q]
      /\ Len(message_list'[p]) = Len(message_list[p]) - 1
      /\ \A q \in Port : Len(message_list[q]) \in Nat
  <2>1. message_list' = [message_list EXCEPT ![p] = Tail(@)] /\ message_list[p] # << >>
    BY DEF RemHead, Rest
  <2>2. \A q \in Port : message_list[q] \in Seq(Message) /\ Len(message_list[q]) \in Nat
    BY <1>0, LenProperties DEF TypeInv
  <2>3. Len(Tail(message_list[p])) = Len(message_list[p]) - 1
    BY <2>1, <2>2, HeadTailProperties
  <2> QED
    BY <1>0, <2>1, <2>2, <2>3 DEF TypeInv, RemHead
<1>2. ASSUME NEW q \in Port, NEW u \in Task
      PROVE  MailInv(q, u)'
  <2>1. MailInv(q, u)
    BY DEF MboxInv, NewsInv
  <2> QED
    BY <1>1, <2>1 DEF MailInv, Bound, sigVars
<1>3. ASSUME NEW u \in Task
      PROVE  GotInv(u)'
  <2>1. SUFFICES ASSUME at'[u] = "got"
                 PROVE  GotInv(u)'
    BY DEF GotInv
  <2>2. at[u] = "got" /\ fetching'[u] = fetching[u] /\ fetching[u] # p
    BY <2>1
  <2>3. fetching[u] \in Port /\ GotInv(u)
    BY <2>2, FetcherFacts DEF MboxInv, NewsInv
  <2> QED
    BY <1>1, <2>2, <2>3 DEF GotInv, sigVars
<1> QED
  BY <1>2, <1>3 DEF NewsInv

\* The sixth layer is inductive: in the steps of tasks that use message ports,
LEMMA PortUserNews ==
  ASSUME MboxInv, NEW t \in Task, PortUser(t)
  PROVE  NewsInv'
<1> USE DEF portVars
<1>0. TypeInv /\ SigTypeOK
  BY DEF MboxInv, SafeInv, ListInv, TypeInv
<1>1. UNCHANGED <<fetching, at>> /\ at[t] = "out"
  BY DEF PortUser
<1>2. CASE Start(t) /\ UNCHANGED use
  <2>1. /\ UNCHANGED <<port, message_list>> /\ sig_recvd'[t] = {}
        /\ \A u \in Task \ {t} : sig_recvd'[u] = sig_recvd[u]
    BY <1>0, <1>2 DEF Start, SigCreate, SigTypeOK
  <2>2. \A q \in Port, u \in Task :
          port[q].signal \subseteq sig_recvd'[u] => port[q].signal \subseteq sig_recvd[u]
    BY <2>1
  <2>3. \A u \in Task :
          at'[u] = "got" => /\ at[u] = "got" /\ fetching'[u] = fetching[u]
                            /\ port'[fetching'[u]].signal \subseteq sig_recvd'[u]
                                 => port[fetching[u]].signal \subseteq sig_recvd[u]
    BY <1>1, <2>1
  <2> QED
    BY <1>2, <2>1, <2>2, <2>3, QuietNews DEF Bound
<1>3. ASSUME NEW m \in Message, msgport_reply(t, m), UNCHANGED use
      PROVE  NewsInv'
  <2>1. reply_port[m] \in Port /\ Send(m, reply_port[m])
    BY <1>0, <1>3 DEF msgport_reply, TypeInv
  <2> QED
    BY <1>1, <1>3, <2>1, SendNews DEF mboxVars
<1>4. ASSUME NEW p \in Port, use[p] \in {"none", "port"}, PortStep(t, p),
             use' = [use EXCEPT ![p] = "port"]
      PROVE  NewsInv'
  <2>0. use'[p] = "port" /\ \A q \in Port \ {p} : use'[q] = use[q]
    BY <1>0, <1>4 DEF TypeInv
  <2>1. ASSUME UNCHANGED message_list, \A q \in Port \ {p} : port'[q] = port[q],
               port[p].action = "signal" => port'[p] = port[p],
               \A u \in Task \ {t} : sig_recvd'[u] = sig_recvd[u],
               sig_recvd'[t] \subseteq sig_recvd[t]
        PROVE  NewsInv'
    <3>1. \A q \in Port, u \in Task :
            use'[q] = "mbox" /\ Bound(q, u)' /\ port'[q].signal \subseteq sig_recvd'[u]
              => use[q] = "mbox" /\ Bound(q, u) /\ port[q].signal \subseteq sig_recvd[u]
      BY <2>0, <2>1 DEF Bound
    <3>2. ASSUME NEW u \in Task, at'[u] = "got"
          PROVE  /\ at[u] = "got" /\ fetching'[u] = fetching[u]
                 /\ port'[fetching'[u]].signal \subseteq sig_recvd'[u]
                      => port[fetching[u]].signal \subseteq sig_recvd[u]
      <4>1. at[u] = "got" /\ fetching'[u] = fetching[u]
        BY <1>1, <3>2
      <4>2. fetching[u] \in Port /\ fetching[u] # p
        BY <1>4, <4>1, FetcherFacts
      <4> QED
        BY <2>1, <4>1, <4>2
    <3> QED
      BY <2>1, <3>1, <3>2, QuietNews
  <2>2. CASE msgport_init(t, p)
    <3>1. PICK b \in SignalNumber :
            /\ SigAllocate(t, b)
            /\ port' = [port EXCEPT ![p] = [task |-> t, signal |-> {b}, action |-> "signal"]]
      BY <2>2 DEF msgport_init, Mask
    <3>2. ~ Ready(p)
      BY <2>2 DEF msgport_init
    <3>3. UNCHANGED message_list
      BY <2>2, <3>2, ListInitKept DEF msgport_init, MboxInv, SafeInv
    <3>4. /\ sig_recvd'[t] \subseteq sig_recvd[t]
          /\ \A u \in Task \ {t} : sig_recvd'[u] = sig_recvd[u]
      BY <1>0, <3>1 DEF SigAllocate, SigTypeOK
    <3>5. \A q \in Port \ {p} : port'[q] = port[q]
      BY <1>0, <3>1 DEF TypeInv
    <3>6. port[p].action # "signal"
      BY <3>2 DEF Ready
    <3> QED
      BY <2>1, <3>3, <3>4, <3>5, <3>6
  <2>3. CASE msgport_get(t, p)
    <3>1. RemHead(p, t) /\ UNCHANGED sigVars
      BY <2>3 DEF msgport_get
    <3>2. \A u \in Task : at[u] = "got" => fetching[u] # p
      BY <1>4, FetcherFacts
    <3> QED
      BY <1>1, <2>0, <3>1, <3>2, RemHeadNews
  <2>4. ASSUME NEW m \in Message, NEW r \in Port \cup {NULL}, msgport_send(t, m, p, r)
        PROVE  NewsInv'
    <3>1. Send(m, p) /\ use' = use
      BY <1>0, <1>4, <2>4 DEF msgport_send, Ready, MboxInv, SafeInv, ListInv, UseInv, TypeInv
    <3> QED
      BY <1>1, <3>1, SendNews DEF mboxVars
  <2>5. CASE msgport_wait(t, p) \/ msgport_wait_resume(t, p)
    <3>1. CASE Sleep(t, p)
      <4>1. /\ sig_recvd'[t] \subseteq sig_recvd[t] /\ UNCHANGED <<port, message_list>>
            /\ \A u \in Task \ {t} : sig_recvd'[u] = sig_recvd[u]
        BY <1>0, <3>1 DEF Sleep, SigTypeOK
      <4> QED
        BY <2>1, <4>1
    <3>2. CASE SigResume(t) /\ UNCHANGED portVars
      <4>1. /\ sig_recvd'[t] \subseteq sig_recvd[t] /\ UNCHANGED <<port, message_list>>
            /\ \A u \in Task \ {t} : sig_recvd'[u] = sig_recvd[u]
        BY <1>0, <3>2 DEF SigResume, SigTypeOK
      <4> QED
        BY <2>1, <4>1
    <3> QED
      BY <2>5, <3>1, <3>2 DEF msgport_wait, msgport_wait_resume
  <2> QED
    BY <1>4, <2>2, <2>3, <2>4, <2>5 DEF PortStep
<1> QED
  BY <1>2, <1>3, <1>4 DEF PortUser

\* ... and of tasks that use mailboxes.
LEMMA MboxUserNews ==
  ASSUME MboxInv, NEW t \in Task, MboxUser(t)
  PROVE  NewsInv'
<1> USE DEF portVars
<1>0. TypeInv /\ SigTypeOK
  BY DEF MboxInv, SafeInv, ListInv, TypeInv
<1>1. ASSUME NEW p \in Port, UNCHANGED message_list,
             \A u \in Task : at'[u] = "got" => at[u] = "got" /\ fetching'[u] = fetching[u],
             \A q \in Port \ {p} : port'[q] = port[q] /\ use'[q] = use[q],
             \A u \in Task : /\ at[u] = "got" => fetching[u] # p
                             /\ ~ (use'[p] = "mbox" /\ Bound(p, u)'),
             UNCHANGED sig_recvd
      PROVE  NewsInv'
  <2>1. \A q \in Port, u \in Task :
          use'[q] = "mbox" /\ Bound(q, u)' /\ port'[q].signal \subseteq sig_recvd'[u]
            => use[q] = "mbox" /\ Bound(q, u) /\ port[q].signal \subseteq sig_recvd[u]
    BY <1>1 DEF Bound
  <2>2. ASSUME NEW u \in Task, at'[u] = "got"
        PROVE  /\ at[u] = "got" /\ fetching'[u] = fetching[u]
               /\ port'[fetching'[u]].signal \subseteq sig_recvd'[u]
                    => port[fetching[u]].signal \subseteq sig_recvd[u]
    BY <1>1, <2>2, FetcherFacts
  <2> QED
    BY <1>1, <2>1, <2>2, QuietNews
<1>2. ASSUME NEW p \in Port, sys_mbox_new(t, p)
      PROVE  NewsInv'
  <2>1. /\ use[p] = "none" /\ UNCHANGED <<sigVars, pc, fetching, at, holder>>
        /\ port' = [port EXCEPT ![p] = [task |-> NULL, signal |-> {}, action |-> "ignore"]]
        /\ use' = [use EXCEPT ![p] = "mbox"]
        /\ message_list' = [message_list EXCEPT ![p] = << >>]
    BY <1>2 DEF sys_mbox_new
  <2>2. ~ Ready(p)
    BY <2>1 DEF Ready, MboxInv, SafeInv, ListInv, UseInv
  <2>3. UNCHANGED message_list
    BY <2>1, <2>2, ListInitKept DEF MboxInv, SafeInv
  <2>4. \A u \in Task : at[u] = "got" => fetching[u] # p
    BY <2>1, FetcherFacts
  <2>5. /\ \A q \in Port \ {p} : port'[q] = port[q] /\ use'[q] = use[q]
        /\ port'[p].action = "ignore"
    BY <1>0, <2>1 DEF TypeInv
  <2> QED
    BY <1>1, <2>1, <2>3, <2>4, <2>5 DEF Bound, sigVars
<1>3. ASSUME NEW p \in Port, NEW m \in Message, sys_mbox_post(t, m, p)
      PROVE  NewsInv'
  BY <1>3, SendNews DEF sys_mbox_post
<1>4. ASSUME NEW p \in Port, sys_arch_mbox_tryfetch(t, p)
      PROVE  NewsInv'
  <2>1. /\ RemHead(p, Heap) /\ UNCHANGED <<sigVars, pc, fetching, at>>
        /\ \A u \in Task : fetching[u] # p
        /\ use' = [use EXCEPT ![p] = AfterPoll(p)]
    BY <1>4 DEF sys_arch_mbox_tryfetch
  <2>2. /\ \A q \in Port \ {p} : use'[q] = use[q]
        /\ \A u \in Task : Bound(p, u) => use'[p] # "mbox"
    BY <1>0, <2>1 DEF TypeInv, AfterPoll, Bound
  <2> QED
    BY <2>1, <2>2, RemHeadNews
<1>5. ASSUME NEW p \in Port, sys_mbox_free(t, p)
      PROVE  NewsInv'
  <2>1. /\ use' = [use EXCEPT ![p] = "freed"] /\ \A u \in Task : fetching[u] # p
        /\ at' = [at EXCEPT ![t] = "freed"] /\ fetching' = [fetching EXCEPT ![t] = p]
        /\ UNCHANGED <<port, sig_recvd, message_list>>
    BY <1>5 DEF sys_mbox_free, MayFree, SigFree
  <2>2. /\ \A u \in Task : at'[u] = "got" => at[u] = "got" /\ fetching'[u] = fetching[u]
        /\ use'[p] = "freed" /\ \A q \in Port \ {p} : use'[q] = use[q]
    BY <1>0, <2>1 DEF TypeInv
  <2> QED
    BY <1>1, <2>1, <2>2
<1>6. CASE sys_mbox_set_invalid(t)
  <2> DEFINE p == fetching[t]
  <2>1. /\ port' = [port EXCEPT ![p].action = "invalid"] /\ use' = [use EXCEPT ![p] = "none"]
        /\ at[t] = "freed" /\ Goto(t, "out") /\ UNCHANGED <<sig_recvd, message_list>>
    BY <1>6 DEF sys_mbox_set_invalid, At, sigVars
  <2>2. p \in Port /\ use[p] = "freed"
    BY <1>0, <2>1 DEF MboxInv, SafeInv, ListInv, WhereInv, TypeInv
  <2>3. \A u \in Task : at[u] = "got" => fetching[u] # p
    BY <2>2, FetcherFacts
  <2>4. \A u \in Task : at'[u] = "got" => at[u] = "got" /\ fetching'[u] = fetching[u]
    BY <1>0, <2>1 DEF Goto, TypeInv
  <2>5. use'[p] = "none" /\ \A q \in Port \ {p} : port'[q] = port[q] /\ use'[q] = use[q]
    BY <1>0, <2>1, <2>2 DEF TypeInv
  <2> HIDE DEF p
  <2> QED
    BY <1>1, <2>1, <2>2, <2>3, <2>4, <2>5
<1>7. ASSUME NEW p \in Port, sys_arch_mbox_fetch(t, p)
      PROVE  NewsInv'
  <2>1. /\ at[t] = "out" /\ at'[t] = "ready" /\ UNCHANGED <<message_list, pc, use>>
        /\ \A u \in Task \ {t} : at'[u] = at[u] /\ fetching'[u] = fetching[u]
    BY <1>0, <1>7 DEF sys_arch_mbox_fetch, Idle, TypeInv
  <2>2. CASE UNCHANGED <<port, sigVars>>
    <3>1. \A u \in Task : at'[u] = "got" => u # t
      BY <2>1
    <3> QED
      BY <2>1, <2>2, <3>1, QuietNews DEF Bound, sigVars
  <2>3. ASSUME NEW b \in SignalNumber, SigAllocate(t, b), port[p].signal = {},
               port' = [port EXCEPT ![p] = [task |-> t, signal |-> {b}, action |-> "signal"]]
        PROVE  NewsInv'
    <3>1. /\ sig_recvd'[t] = sig_recvd[t] \ {b} /\ UNCHANGED status
          /\ \A u \in Task \ {t} : sig_recvd'[u] = sig_recvd[u]
      BY <1>0, <2>3 DEF SigAllocate, SigTypeOK
    <3>2. /\ port'[p] = [task |-> t, signal |-> {b}, action |-> "signal"]
          /\ \A q \in Port \ {p} : port'[q] = port[q]
      BY <1>0, <2>3 DEF TypeInv
    <3>3. port[p].action # "signal"
      BY <2>3 DEF MboxInv, SafeInv, BitInv, PortBits
    <3>4. ASSUME NEW q \in Port, NEW u \in Task,
                 use'[q] = "mbox" /\ Bound(q, u)' /\ port'[q].signal \subseteq sig_recvd'[u]
          PROVE  use[q] = "mbox" /\ Bound(q, u) /\ port[q].signal \subseteq sig_recvd[u]
      <4>1. q # p
        BY <3>1, <3>2, <3>4 DEF Bound
      <4> QED
        BY <2>1, <3>1, <3>2, <3>4, <4>1 DEF Bound
    <3>5. ASSUME NEW u \in Task, at'[u] = "got"
          PROVE  /\ at[u] = "got" /\ fetching'[u] = fetching[u]
                 /\ port'[fetching'[u]].signal \subseteq sig_recvd'[u]
                      => port[fetching[u]].signal \subseteq sig_recvd[u]
      <4>1. u # t /\ at[u] = "got" /\ fetching'[u] = fetching[u]
        BY <2>1, <3>5
      <4>2. fetching[u] \in Port /\ fetching[u] # p
        BY <3>3, <4>1, FetcherFacts DEF Bound
      <4> QED
        BY <3>1, <3>2, <4>1, <4>2
    <3> QED
      BY <2>1, <3>1, <3>4, <3>5, QuietNews
  <2> QED
    BY <1>7, <2>2, <2>3 DEF sys_arch_mbox_fetch, Mask
<1>8. ASSUME NEW loc, Goto(t, loc), UNCHANGED <<message_list, port, use>>,
             \A u \in Task \ {t} : sig_recvd'[u] = sig_recvd[u],
             sig_recvd'[t] \subseteq sig_recvd[t],
             loc = "got" => /\ Len(message_list[fetching[t]]) >= 1
                            /\ ~ (port[fetching[t]].signal \subseteq sig_recvd'[t])
      PROVE  NewsInv'
  <2>1. /\ at'[t] = loc /\ (loc = "got" => fetching'[t] = fetching[t])
        /\ \A u \in Task \ {t} : at'[u] = at[u] /\ fetching'[u] = fetching[u]
    BY <1>0, <1>8 DEF Goto, TypeInv
  <2>2. \A q \in Port, u \in Task :
          use'[q] = "mbox" /\ Bound(q, u)' /\ port'[q].signal \subseteq sig_recvd'[u]
            => use[q] = "mbox" /\ Bound(q, u) /\ port[q].signal \subseteq sig_recvd[u]
    BY <1>8 DEF Bound
  <2>3. \A u \in Task :
          at'[u] = "got" =>
            \/ /\ at[u] = "got" /\ fetching'[u] = fetching[u]
               /\ port'[fetching'[u]].signal \subseteq sig_recvd'[u]
                    => port[fetching[u]].signal \subseteq sig_recvd[u]
            \/ /\ Len(message_list[fetching'[u]]) >= 1
               /\ ~ (port'[fetching'[u]].signal \subseteq sig_recvd'[u])
    BY <1>8, <2>1
  <2> QED
    BY <1>8, <2>2, <2>3, QuietNews
<1> USE DEF At
<1>9. CASE fetch_timer_allocate(t)
  <2>1. PICK b \in SignalNumber : AlarmAllocate(t, b)
    BY <1>9 DEF fetch_timer_allocate
  <2>2. /\ \A u \in Task \ {t} : sig_recvd'[u] = sig_recvd[u]
        /\ sig_recvd'[t] \subseteq sig_recvd[t] /\ UNCHANGED status
    BY <1>0, <2>1 DEF AlarmAllocate, SigAllocate, SigTypeOK
  <2> QED
    BY <1>8, <1>9, <2>2 DEF fetch_timer_allocate
<1>10. CASE fetch_timer_add(t) \/ fetch_timer_abort(t) \/ fetch_timer_free(t)
  <2>1. UNCHANGED <<status, sig_recvd>>
    BY <1>10 DEF fetch_timer_add, fetch_timer_abort, fetch_timer_free, AlarmSet, AlarmStop,
                AlarmFree, SigFree, sigVars
  <2> QED
    BY <1>8, <1>10, <2>1 DEF fetch_timer_add, fetch_timer_abort, fetch_timer_free
<1>11. CASE fetch_wait(t) \/ fetch_wait_return(t)
  <2> DEFINE p == fetching[t]
             S == port[p].signal \cup alarm_signal[t]
  <2>1. at[t] \in {"ready", "wait", "asleep"} /\ UNCHANGED <<portVars, pc, use>>
    BY <1>11 DEF fetch_wait, fetch_wait_return
  <2>2. p \in Port /\ use[p] = "mbox" /\ Bound(p, t) /\ MailInv(p, t)
    BY <2>1, FetcherFacts DEF MboxInv, NewsInv
  <2>3. at[t] = "asleep" => sig_wait[t] = S
    BY DEF MboxInv, SafeInv, WaitInv, CtlInv
  <2>4. CASE SigWaitBlock(t, S) /\ Goto(t, "asleep")
    <3>1. UNCHANGED sig_recvd /\ \A u \in Task \ {t} : status'[u] = status[u]
      BY <1>0, <2>4 DEF SigWaitBlock, SigTypeOK
    <3> QED
      BY <1>8, <2>1, <2>4, <3>1
  <2>5. ASSUME Decide(t),
               sig_recvd'[t] = sig_recvd[t] \ S,
               \A u \in Task \ {t} : sig_recvd'[u] = sig_recvd[u]
        PROVE  NewsInv'
    <3>1. PICK b \in SignalNumber : port[p].signal = {b}
      BY <2>2, BoundBit
    <3>2. ~ (port[p].signal \subseteq sig_recvd'[t])
      BY <2>5, <3>1
    <3>3. GotMail(t) => Len(message_list[p]) >= 1
      BY <2>2 DEF GotMail, MailInv
    <3> QED
      BY <1>8, <2>1, <2>5, <3>2, <3>3 DEF Decide
  <2>6. CASE fetch_wait(t)
    <3>1. CASE SigWaitTake(t, S) /\ Decide(t)
      <4>1. sig_recvd'[t] = sig_recvd[t] \ S
        BY <1>0, <3>1 DEF SigWaitTake, SigTypeOK
      <4>2. \A u \in Task \ {t} : sig_recvd'[u] = sig_recvd[u]
        BY <1>0, <3>1 DEF SigWaitTake, SigTypeOK
      <4> QED
        BY <2>5, <3>1, <4>1, <4>2
    <3>2. CASE SigWaitBlock(t, S) /\ Goto(t, "asleep")
      BY <2>4, <3>2
    <3> QED
      BY <2>6, <3>1, <3>2 DEF fetch_wait
  <2>7. CASE fetch_wait_return(t)
    <3>1. SigResume(t) /\ Decide(t) /\ at[t] = "asleep"
      BY <2>7 DEF fetch_wait_return
    <3>2. sig_recvd'[t] = sig_recvd[t] \ S
      BY <1>0, <2>3, <3>1 DEF SigResume, SigTypeOK
    <3>3. \A u \in Task \ {t} : sig_recvd'[u] = sig_recvd[u]
      BY <1>0, <3>1 DEF SigResume, SigTypeOK
    <3> QED
      BY <2>5, <3>1, <3>2, <3>3
  <2> QED
    BY <1>11, <2>6, <2>7
<1>12. CASE fetch_get(t)
  <2> DEFINE p == fetching[t]
  <2>1. /\ at[t] = "got" /\ RemHead(p, Heap) /\ UNCHANGED <<sigVars, pc, use>>
        /\ \E loc \in {"out", "end"} : Goto(t, loc)
    BY <1>12 DEF fetch_get
  <2>2. p \in Port /\ Bound(p, t) /\ GotInv(t)
    BY <2>1, FetcherFacts DEF MboxInv, NewsInv
  <2>3. ASSUME NEW u \in Task, at'[u] = "got"
        PROVE  at[u] = "got" /\ fetching'[u] = fetching[u] /\ fetching[u] # p
    <3>1. u # t /\ at[u] = "got" /\ fetching'[u] = fetching[u]
      BY <1>0, <2>1, <2>3 DEF Goto, TypeInv
    <3>2. Bound(fetching[u], u)
      BY <3>1, FetcherFacts
    <3> QED
      BY <2>2, <3>1, <3>2 DEF Bound
  <2>4. \A u \in Task : Bound(p, u) => u = t
    BY <2>2 DEF Bound
  <2> HIDE DEF p
  <2>5. at[t] = "got" /\ port[p].signal \subseteq sig_recvd[t] => Len(message_list[p]) >= 2
    BY <2>2 DEF GotInv, p
  <2> QED
    BY <2>1, <2>2, <2>3, <2>4, <2>5, RemHeadNews
<1> QED
  BY <1>2, <1>3, <1>4, <1>5, <1>7, <1>9, <1>10, <1>11, <1>12, <1>6 DEF MboxUser

\* Every step keeps signals and messages in agreement.
LEMMA NewsNextInv ==
  ASSUME MboxInv, [MboxNext]_sysVars
  PROVE  NewsInv'
<1>1. CASE UNCHANGED sysVars
  BY <1>1, QuietNews DEF Bound, sysVars, allVars, sigVars, portVars, mboxVars
<1>2. ASSUME NEW S \in SUBSET armed, AlarmFire(S), UNCHANGED <<portVars, pc, mboxVars>>
      PROVE  NewsInv'
  <2>1. /\ UNCHANGED <<port, message_list, pc, use, fetching, at>>
        /\ \A u \in Task : /\ sig_recvd'[u] \subseteq sig_recvd[u] \cup alarm_signal[u]
                           /\ status'[u] = "blocked" => status[u] = "blocked"
    BY <1>2 DEF AlarmFire, portVars, mboxVars
  <2>2. ASSUME NEW q \in Port, NEW u \in Task, Bound(q, u),
               port[q].signal \subseteq sig_recvd'[u]
        PROVE  port[q].signal \subseteq sig_recvd[u]
    <3>1. PICK b \in SignalNumber : port[q].signal = {b} /\ b \notin alarm_signal[u]
      BY <2>2, BoundBit
    <3> QED
      BY <2>1, <2>2, <3>1
  <2>3. \A u \in Task : at[u] = "got" => fetching[u] \in Port /\ Bound(fetching[u], u)
    BY FetcherFacts
  <2> QED
    BY <2>1, <2>2, <2>3, QuietNews DEF Bound
<1> QED
  BY <1>1, <1>2, PortUserNews, MboxUserNews DEF MboxNext

-----------------------------------------------------------------------------
(* The theorems. *)

\* The state at boot: nobody waits, and no port is in use.
LEMMA BootInv == MboxInit => SafeInv /\ OwnInv /\ NewsInv
<1> SUFFICES ASSUME MboxInit
             PROVE  SafeInv /\ OwnInv /\ NewsInv
  OBVIOUS
<1>1. /\ \A p \in Port : use[p] = "none"
      /\ \A t \in Task : at[t] = "out" /\ pc[t] = NULL
  BY DEF MboxInit, MsgInit
<1>2. NewsInv
  BY <1>1 DEF NewsInv, MailInv, GotInv
<1>3. NobodySleepsOnMessages
  BY <1>1 DEF NobodySleepsOnMessages
<1> QED
  BY <1>2, <1>3, ListInitInv, BitInitInv, WaitInitInv, OwnInitInv DEF SafeInv

\* SafeInv is an invariant of the message ports and the mailboxes, whichever
\* task frees a mailbox.
THEOREM SafeInvCorrect == MboxSpec => []SafeInv
<1>1. MboxInit => SafeInv
  BY BootInv
<1>2. SafeInv /\ [MboxNext]_sysVars => SafeInv'
  BY ListNextInv, BitNextInv, WaitNextInv, SleepNextInv DEF SafeInv
<1> QED
  BY <1>1, <1>2, PTL DEF MboxSpec

\* MboxInv is an invariant of mailboxes that are freed by the tasks that fetch
\* from them.
THEOREM MboxInvCorrect ==
  ASSUME FreedByFetcher
  PROVE  MboxSpec => []MboxInv
<1>1. MboxInit => MboxInv
  BY BootInv DEF MboxInv
<1>2. MboxInv /\ [MboxNext]_sysVars => MboxInv'
  BY ListNextInv, BitNextInv, WaitNextInv, SleepNextInv, OwnNextInv, NewsNextInv
     DEF MboxInv, SafeInv
<1> QED
  BY <1>1, <1>2, PTL DEF MboxSpec

\* The types; in particular a port that signals has exactly one bit.
THEOREM MboxTypeCorrect == MboxSpec => []MboxTypeOK
<1>1. SafeInv => MboxTypeOK
  <2> SUFFICES ASSUME SafeInv
               PROVE  MboxTypeOK
    OBVIOUS
  <2>1. ASSUME NEW p \in Port, port[p].action = "signal"
        PROVE  Cardinality(port[p].signal) = 1 /\ port[p].signal # SIGF_SINGLE
    <3>1. PICK b \in SignalNumber \ {0} : port[p].signal = {b}
      BY <2>1 DEF SafeInv, BitInv, PortBits
    <3> QED
      BY <3>1, FS_Singleton DEF SIGF_SINGLE
  <2> QED
    BY <2>1 DEF SafeInv, ListInv, TypeInv, MboxTypeOK, MsgTypeOK
<1> QED
  BY <1>1, SafeInvCorrect, PTL

\* No message is lost, or linked twice.
THEOREM MessagesKeptCorrect == MboxSpec => []MessagesKept
<1>1. SafeInv => MessagesKept
  BY DEF SafeInv, ListInv
<1> QED
  BY <1>1, SafeInvCorrect, PTL

\* No wake-up is lost: nobody sleeps in msgport_wait() at a port with messages.
THEOREM NobodySleepsCorrect == MboxSpec => []NobodySleepsOnMessages
<1>1. SafeInv => NobodySleepsOnMessages
  BY DEF SafeInv
<1> QED
  BY <1>1, SafeInvCorrect, PTL

\* sys_arch_mbox_fetch() returns its timer and the timer's bit on every path,
\* and no sys_mbox_free(), in whichever task, takes the bit of a timer.
THEOREM TimersReturnedCorrect == MboxSpec => []TimersReturned
<1>1. SafeInv => TimersReturned
  <2> SUFFICES ASSUME SafeInv, NEW t \in Task
               PROVE  /\ t \in armed => at[t] \in {"wait", "asleep", "got", "end"}
                      /\ alarm_signal[t] # {} => at[t] \notin {"out", "freed"}
                      /\ alarm_signal[t] \subseteq sig_alloc[t] \ SIGF_SINGLE
    BY DEF TimersReturned
  <2> QED
    BY DEF SafeInv, WaitInv, CtlInv, BitInv, TaskBits, SIGF_SINGLE
<1> QED
  BY <1>1, SafeInvCorrect, PTL

\* If mailboxes are freed by the tasks that fetch from them, the ports of a
\* task have signals of their own.
THEOREM OwnSignalsCorrect ==
  ASSUME FreedByFetcher
  PROVE  MboxSpec => []OwnSignals
<1>1. MboxInv => OwnSignals
  <2> SUFFICES ASSUME MboxInv, NEW p \in Port, NEW q \in Port, p # q, Ready(p), Ready(q),
                      port[p].task = port[q].task
               PROVE  port[p].signal \cap port[q].signal = {}
    BY DEF OwnSignals
  <2>1. PortBits(p) /\ PortBits(q) /\ Apart
    BY DEF MboxInv, SafeInv, BitInv, OwnInv
  <2>2. port[p].action \in {"ignore", "signal"} /\ port[q].action \in {"ignore", "signal"}
    BY DEF MboxInv, SafeInv, ListInv, TypeInv, Ready
  <2> QED
    BY <2>1, <2>2 DEF PortBits, Apart, Bound
<1> QED
  BY <1>1, MboxInvCorrect, PTL

\* Under the same hypothesis the assert in sys_arch_mbox_fetch() holds: its
\* signal does not come without a message.
THEOREM FetchFindsMessageCorrect ==
  ASSUME FreedByFetcher
  PROVE  MboxSpec => []FetchFindsMessage
<1>1. MboxInv => FetchFindsMessage
  <2> SUFFICES ASSUME MboxInv, NEW t \in Task, at[t] = "got"
               PROVE  message_list[fetching[t]] # << >>
    BY DEF FetchFindsMessage
  <2>1. Len(message_list[fetching[t]]) >= 1
    BY DEF MboxInv, NewsInv, GotInv
  <2> QED
    BY <2>1
<1> QED
  BY <1>1, MboxInvCorrect, PTL

\* Under the same hypothesis the asserts of signal_free() hold in
\* sys_mbox_free(): the bit of the mailbox is one of the calling task's.
THEOREM FreeAssertsCorrect ==
  ASSUME FreedByFetcher
  PROVE  MboxSpec => []FreeAsserts
<1>1. MboxInv => FreeAsserts
  <2> SUFFICES ASSUME MboxInv, NEW t \in Task, NEW p \in Port, MayFree(t, p)
               PROVE  port[p].signal \subseteq sig_alloc[t] \ SIGF_SINGLE
    BY DEF FreeAsserts
  <2>1. use[p] \in {"mbox", "closing"} /\ port[p].task \in {NULL, t}
    BY DEF MayFree, Fetcher
  <2>2. PortBits(p) /\ Owned(p, t) /\ port[p].action \in {"ignore", "signal"}
    BY <2>1 DEF MboxInv, SafeInv, BitInv, OwnInv, ListInv, TypeInv, UseInv
  <2> QED
    BY <2>1, <2>2, MsgPortAssumption DEF PortBits, Owned, Bound, SIGF_SINGLE
<1> QED
  BY <1>1, MboxInvCorrect, PTL
=============================================================================
