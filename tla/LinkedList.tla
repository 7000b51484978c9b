----------------------------- MODULE LinkedList -----------------------------
(***************************************************************************)
(* The doubly linked lists of src/list.c at the level of pointers.  A List *)
(* embeds two sentinel nodes, head and tail; the first node's prev points  *)
(* to the head sentinel, the last node's next to the tail sentinel, and    *)
(* the outer pointers of the sentinels are NULL.  A node that is unlinked  *)
(* keeps its stale pointers.                                               *)
(***************************************************************************)
EXTENDS Integers, FiniteSets, Sequences

CONSTANTS
  Node, List, NULL,
  Prio,         \* the values of the priority field
  name          \* the name field of each node

VARIABLES
  next, prev,   \* of each node and sentinel
  prio,         \* of each node
  owner,        \* auxiliary: the list a caller has put each node on, or NULL
  call          \* auxiliary: the last call

vars == <<next, prev, prio, owner, call>>

head(l) == <<"head", l>>
tail(l) == <<"tail", l>>
Sentinel == {head(l) : l \in List} \cup {tail(l) : l \in List}
Cell == Node \cup Sentinel

\* The nodes, the sentinels and NULL are different objects.
ASSUME LinkedListAssumption ==
  /\ IsFiniteSet(Node) /\ IsFiniteSet(List) /\ List # {}
  /\ Node \cap Sentinel = {}
  /\ NULL \notin Cell \cup List
  /\ Prio \subseteq Int

\* A linked node has both its pointers.
LinkTypeOK ==
  /\ next \in [Cell -> Cell \cup {NULL}]
  /\ prev \in [Cell -> Cell \cup {NULL}]
  /\ prio \in [Node -> Prio]
  /\ owner \in [Node -> List \cup {NULL}]
  /\ \A n \in Node : owner[n] # NULL => NULL \notin {next[n], prev[n]}

\* list_init() of every list.  The pointers of a new node are never read
\* before they are set.
list_init ==
  /\ next = [x \in Cell |-> IF \E l \in List : x = head(l)
                           THEN tail(CHOOSE l \in List : x = head(l)) ELSE NULL]
  /\ prev = [x \in Cell |-> IF \E l \in List : x = tail(l)
                           THEN head(CHOOSE l \in List : x = tail(l)) ELSE NULL]

Init ==
  /\ list_init
  /\ prio \in [Node -> Prio]
  /\ owner = [n \in Node |-> NULL]
  /\ call = << >>

-----------------------------------------------------------------------------
(* Operations. *)

list_is_empty(l) == head(l) = prev[tail(l)]

\* Slip: the inserted node's own prev pointer is not set.
LinkHalf(n, x) ==
  /\ next' = [next EXCEPT ![n] = x, ![prev[x]] = n]
  /\ prev' = [prev EXCEPT ![x] = n]

\* Link n before cell x.
LinkBefore(n, x) ==
  /\ next' = [next EXCEPT ![n] = x, ![prev[x]] = n]
  /\ prev' = [prev EXCEPT ![n] = prev[x], ![x] = n]

\* A caller adds a node that is on no list.
Adds(l, n) == owner[n] = NULL /\ owner' = [owner EXCEPT ![n] = l]

list_add_tail(l, n) ==
  /\ Adds(l, n)
  /\ LinkBefore(n, tail(l))
  /\ UNCHANGED prio

\* The cells a walk along the next pointers from the head of l comes to.
Walk(l) ==
  LET cell[k \in 0 .. Cardinality(Cell)] ==
        IF k = 0 THEN next[head(l)]
        ELSE IF cell[k - 1] \in Cell THEN next[cell[k - 1]] ELSE NULL
  IN  cell

\* Slip: the walk passes the nodes of lower priority.
StopsAtHigher(n, x) ==
  x # NULL /\ (next[x] # NULL => prio[x] > prio[n])

\* The walk of list_enqueue() ends at the tail or at a node of lower priority.
StopsAt(n, x) == x # NULL /\ (next[x] # NULL => prio[x] < prio[n])

list_enqueue(l, n) ==
  /\ Adds(l, n)
  /\ \E k \in 0 .. Cardinality(Node) :
       /\ \A j \in 0 .. k - 1 : ~ StopsAt(n, Walk(l)[j])
       /\ StopsAt(n, Walk(l)[k])
       /\ LinkBefore(n, Walk(l)[k])
  /\ UNCHANGED prio

\* Slip: the search ends before the last node.
SearchPassesTwo(x) == next[x] # NULL /\ next[next[x]] # NULL

\* The search of list_find() has not come to the tail sentinel.
SearchPasses(x) == next[x] # NULL

\* The node list_find() returns, as a set: empty for NULL.
list_find(l, s) ==
  {Walk(l)[k] : k \in {k \in 0 .. Cardinality(Node) :
                         /\ \A j \in 0 .. k : SearchPasses(Walk(l)[j])
                         /\ \A j \in 0 .. k - 1 : name[Walk(l)[j]] # s
                         /\ name[Walk(l)[k]] = s}}

\* n goes behind p, or at the end if p is the tail sentinel.  No caller passes
\* NULL for p; nothing would be linked then, the call of list_add_head() being
\* compiled out.
list_insert(l, n, p) ==
  /\ Adds(l, n)
  /\ LinkBefore(n, IF next[p] = NULL THEN tail(l) ELSE next[p])
  /\ UNCHANGED prio

\* The nodes and sentinels of list l.
Prevs(l) == {n \in Node : owner[n] = l} \cup {head(l), tail(l)}

\* Slip: only the forward pointer is redirected.
UnlinkForward(n) ==
  /\ next' = [next EXCEPT ![prev[n]] = next[n]]
  /\ owner' = [owner EXCEPT ![n] = NULL]
  /\ UNCHANGED <<prev, prio>>

\* Slip: the node is not unlinked at all.
UnlinkNothing(n) ==
  /\ owner' = [owner EXCEPT ![n] = NULL]
  /\ UNCHANGED <<next, prev, prio>>

\* n is on a list; the list is implicit.
list_unlink(n) ==
  /\ next' = [next EXCEPT ![prev[n]] = next[n]]
  /\ prev' = [prev EXCEPT ![next[n]] = prev[n]]
  /\ owner' = [owner EXCEPT ![n] = NULL]
  /\ UNCHANGED prio

\* list_get_head() and list_unlink().
list_rem_head(l) ==
  /\ ~ list_is_empty(l)
  /\ list_unlink(next[head(l)])

\* The owner of a node that is on no list changes its priority.
SetPrio(n, p) ==
  /\ owner[n] = NULL
  /\ prio' = [prio EXCEPT ![n] = p]
  /\ UNCHANGED <<next, prev, owner>>

\* How a caller of list_insert() names the place p.
Place(l, p) == CASE p = head(l) -> "front" [] p = tail(l) -> "back" [] OTHER -> p

Next ==
  \/ \E l \in List :
       \/ list_rem_head(l) /\ call' = <<"list_rem_head", l>>
       \/ \E n \in Node :
            \/ list_add_tail(l, n) /\ call' = <<"list_add_tail", l, n>>
            \/ list_enqueue(l, n) /\ call' = <<"list_enqueue", l, n>>
            \/ \E p \in Prevs(l) :
                 /\ list_insert(l, n, p)
                 /\ call' = <<"list_insert", l, n, Place(l, p)>>
  \/ \E n \in Node :
       owner[n] # NULL /\ list_unlink(n) /\ call' = <<"list_unlink", n>>
  \/ \E n \in Node, p \in Prio : SetPrio(n, p) /\ call' = <<"prio", n>>

Spec == Init /\ [][Next]_vars

-----------------------------------------------------------------------------
(* The pointers represent sequences. *)

\* The cells a walk along the prev pointers from the tail of l comes to.
WalkBack(l) ==
  LET cell[k \in 0 .. Cardinality(Cell)] ==
        IF k = 0 THEN prev[tail(l)]
        ELSE IF cell[k - 1] \in Cell THEN prev[cell[k - 1]] ELSE NULL
  IN  cell

\* The nodes of list l, in the order of the next pointers.
Contents(l) ==
  LET len == CHOOSE k \in 0 .. Cardinality(Cell) :
               /\ Walk(l)[k] \notin Node \/ k = Cardinality(Cell)
               /\ \A j \in 0 .. k - 1 : Walk(l)[j] \in Node
  IN  [i \in 1 .. len |-> Walk(l)[i - 1]]

\* The walk forward ends at the list's own tail sentinel, the walk backward
\* visits the same nodes in reverse and ends at its head sentinel: no
\* operation on one list damages it or the other, however nodes move between
\* the lists and whatever stale pointers they carry.
BothWays ==
  \A l \in List :
    LET len == Len(Contents(l)) IN
    /\ Walk(l)[len] = tail(l)
    /\ WalkBack(l)[len] = head(l)
    /\ \A i \in 1 .. len : WalkBack(l)[i - 1] = Contents(l)[len + 1 - i]
    /\ next[tail(l)] = NULL
    /\ prev[head(l)] = NULL

\* A node is on the list its owner has put it on, and on no other.
OnOwnersList ==
  \A n \in Node, l \in List :
    owner[n] = l <=> \E i \in 1 .. Len(Contents(l)) : Contents(l)[i] = n

Lists == INSTANCE ListSpec WITH contents <- [l \in List |-> Contents(l)]

\* Every call does to the list what ListSpec says of the function called;
\* list_enqueue() in particular puts a node behind the nodes of its own
\* priority and before all of lower priority.
ImplementsLists == Lists!ListsSpec

\* "The first node matching name is returned", or NULL: list_find() sees every
\* node of the list and no sentinel, also when several nodes have the same
\* name and after any history of insertions and removals.
FindsFirst ==
  \A l \in List, n \in Node :
    list_find(l, name[n]) = Lists!list_find(Contents(l), name, name[n])
=============================================================================
