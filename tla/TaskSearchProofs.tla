-------------------------- MODULE TaskSearchProofs --------------------------
(* task_find() finds the ready and the waiting tasks, for any number of them. *)
EXTENDS TaskSearch, KernelProofs

\* list_find() finds the task that is on the list under its name.
LEMMA FindByName ==
  ASSUME NEW q \in Seq(Task), NoDuplicates(q), NEW t \in Task
  PROVE  list_find(q, name, name[t]) = IF OnList(q, t) THEN {t} ELSE {}
<1>1. \A i \in 1 .. Len(q) : q[i] \in Task
  BY ElementOfSeq
<1>2. \A i \in 1 .. Len(q) : name[q[i]] = name[t] <=> q[i] = t
  BY <1>1, NamesAssumption
<1>3. Len(q) \in Nat
  BY LenProperties
<1>4. CASE OnList(q, t)
  <2>1. PICK k \in 1 .. Len(q) : q[k] = t
    BY <1>4 DEF OnList
  <2>2. \A j \in 1 .. k - 1 : j \in 1 .. Len(q) /\ j # k
    BY <1>3, <2>1
  <2>3. \A j \in 1 .. k - 1 : name[q[j]] # name[t]
    BY <1>2, <2>1, <2>2 DEF NoDuplicates
  <2>4. t \in list_find(q, name, name[t])
    BY <2>1, <2>3 DEF list_find
  <2>5. \A x \in list_find(q, name, name[t]) : x = t
    BY <1>2 DEF list_find
  <2> QED
    BY <1>4, <2>4, <2>5
<1>5. CASE ~ OnList(q, t)
  BY <1>2, <1>5 DEF OnList, list_find
<1> QED
  BY <1>4, <1>5

\* A task is found by its name, and no other, whenever it is ready or waiting;
\* for other names task_find() returns at worst the running task.
THEOREM SearchCorrect == Spec => []SearchFindsScheduled
<1>1. Inv => SearchFindsScheduled
  <2> SUFFICES ASSUME Inv, NEW t \in Task
               PROVE  IF state[t] \in {"ready", "waiting"}
                      THEN task_find(name[t]) = {t}
                      ELSE task_find(name[t]) \subseteq {running, NULL}
    BY DEF SearchFindsScheduled
  <2>1. /\ state[t] = "ready" <=> OnList(ready, t)
        /\ state[t] = "waiting" <=> OnList(waiting, t)
        /\ ready \in Seq(Task) /\ waiting \in Seq(Task)
        /\ NoDuplicates(ready) /\ NoDuplicates(waiting)
    BY DEF Inv, TypeOK, QueuesConsistent
  <2>2. /\ list_find(ready, name, name[t]) = IF OnList(ready, t) THEN {t} ELSE {}
        /\ list_find(waiting, name, name[t]) = IF OnList(waiting, t) THEN {t} ELSE {}
    BY <2>1, FindByName
  <2>3. name[t] # NULL
    BY NamesAssumption
  <2> QED
    BY <2>1, <2>2, <2>3 DEF task_find, Search, TrySelf
<1> QED
  BY <1>1, InvCorrect, PTL
=============================================================================
