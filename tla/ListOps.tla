------------------------------- MODULE ListOps -------------------------------
(***************************************************************************)
(* The kernel's doubly linked lists, seen as sequences of nodes: what each *)
(* function of src/list.c does to the list it is given.  The kernel models *)
(* use these operators; the pointer manipulation behind them is the        *)
(* subject of module LinkedList.                                           *)
(*                                                                         *)
(* list_add_tail is Append, list_get_head is Head and list_rem_head is     *)
(* Tail of the standard Sequences module.                                  *)
(***************************************************************************)
EXTENDS Integers, Sequences, SequencesExt

\* Slip: ">=" in place of ">" lets a node overtake the nodes of its own
\* priority.
GoesBeforeOrSame(new, old) == new >= old

\* The test that ends the walk of list_enqueue: a node of priority `new`
\* goes before a node of priority `old`.
GoesBefore(new, old) == new > old

\* i is where the walk of list_enqueue stops for a node of priority p: the
\* first node of lower priority, or the tail if there is none.  pr gives the
\* priority field of each node of q.
IsEnqueuePos(q, pr, p, i) ==
  /\ i \in 1 .. Len(q) + 1
  /\ \A j \in 1 .. i - 1 : ~ GoesBefore(p, pr[q[j]])
  /\ i <= Len(q) => GoesBefore(p, pr[q[i]])

list_enqueue(q, pr, n) ==
  InsertAt(q, CHOOSE i \in 1 .. Len(q) + 1 : IsEnqueuePos(q, pr, pr[n], i), n)

\* A node that is on the list once is taken off it, wherever it is.
list_unlink(q, n) == RemoveAt(q, CHOOSE i \in 1 .. Len(q) : q[i] = n)

\* The first node of q whose name is x, or no node; nm gives the names.
list_find(q, nm, x) ==
  {q[i] : i \in {k \in 1 .. Len(q) : nm[q[k]] = x /\ \A j \in 1 .. k - 1 : nm[q[j]] # x}}

\* Node n is linked in the list.
OnList(q, n) == \E i \in 1 .. Len(q) : q[i] = n

\* No node is linked twice.
NoDuplicates(q) == \A i, j \in 1 .. Len(q) : q[i] = q[j] => i = j

\* The list is in the order list_enqueue maintains.
SortedByPrio(q, pr) ==
  \A i, j \in 1 .. Len(q) : i < j => pr[q[i]] >= pr[q[j]]
=============================================================================
