------------------------------ MODULE ListSpec ------------------------------
(***************************************************************************)
(* What src/list.c promises: each list is a sequence of nodes, and each    *)
(* function does to it what the operator of the same name in ListOps says. *)
(* Module LinkedList, the pointer manipulation of the code, implements     *)
(* this specification; modules Kernel and Timer rely on it.                *)
(***************************************************************************)
EXTENDS ListOps

CONSTANTS Node, List

VARIABLES
  contents,   \* the nodes of each list, in order
  prio,       \* the priority field of each node
  call        \* the last call and its arguments

listVars == <<contents, prio, call>>

\* Node n is on no list, so a caller may add it to one.
Free(n) == \A l \in List : ~ OnList(contents[l], n)

SpecInit ==
  /\ contents = [l \in List |-> << >>]
  /\ prio \in [Node -> Int]
  /\ call = << >>

SpecAddTail(l, n) ==
  /\ call' = <<"list_add_tail", l, n>>
  /\ Free(n)
  /\ contents' = [contents EXCEPT ![l] = Append(@, n)]

SpecEnqueue(l, n) ==
  /\ call' = <<"list_enqueue", l, n>>
  /\ Free(n)
  /\ contents' = [contents EXCEPT ![l] = list_enqueue(@, prio, n)]

\* n goes behind the i-th node ...
SpecInsert(l, n, i) ==
  /\ call' = <<"list_insert", l, n, contents[l][i]>>
  /\ Free(n)
  /\ contents' = [contents EXCEPT ![l] = InsertAt(@, i + 1, n)]

\* ... or to the front or the back.
SpecInsertAtEnd(l, n) ==
  /\ Free(n)
  /\ \/ /\ call' = <<"list_insert", l, n, "front">>
        /\ contents' = [contents EXCEPT ![l] = <<n>> \o @]
     \/ /\ call' = <<"list_insert", l, n, "back">>
        /\ contents' = [contents EXCEPT ![l] = Append(@, n)]

SpecUnlink(l, n) ==
  /\ call' = <<"list_unlink", n>>
  /\ OnList(contents[l], n)
  /\ contents' = [contents EXCEPT ![l] = list_unlink(@, n)]

SpecRemHead(l) ==
  /\ call' = <<"list_rem_head", l>>
  /\ contents[l] # << >>
  /\ contents' = [contents EXCEPT ![l] = Tail(@)]

\* Priorities change only while a node is on no list.
SpecSetPrio(n) ==
  /\ call' = <<"prio", n>>
  /\ Free(n)
  /\ \A m \in Node \ {n} : prio'[m] = prio[m]
  /\ UNCHANGED contents

SpecNext ==
  \E l \in List, n \in Node :
    \/ /\ \/ SpecAddTail(l, n)
          \/ SpecEnqueue(l, n)
          \/ SpecUnlink(l, n)
          \/ SpecRemHead(l)
          \/ SpecInsertAtEnd(l, n)
          \/ \E i \in 1 .. Len(contents[l]) : SpecInsert(l, n, i)
       /\ UNCHANGED prio
    \/ SpecSetPrio(n)

ListsSpec == SpecInit /\ [][SpecNext]_listVars
=============================================================================
