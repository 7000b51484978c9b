------------------------------ MODULE MCSysMbox ------------------------------
(* SysMbox for TLC: the boot task and two others. *)
EXTENDS SysMbox

CONSTANTS init, a, b, p1, p2, m1, m2

MCTask == {init, a, b}
MCPort == {p1, p2}
MCMessage == {m1, m2}

Symmetry == Permutations({a, b}) \cup Permutations(MCPort) \cup Permutations(MCMessage)
=============================================================================
