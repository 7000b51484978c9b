---------------------------- MODULE MCLinkedList ----------------------------
(* LinkedList for TLC: two lists that exchange nodes. *)
EXTENDS LinkedList

CONSTANTS n1, n2, n3, l1, l2

Nodes == {n1, n2, n3}
Lists2 == {l1, l2}
TwoPrios == 0 .. 1

\* Two of the nodes have the same name.
Names == [n \in Nodes |-> IF n = n3 THEN "other" ELSE "same"]
=============================================================================
