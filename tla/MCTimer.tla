------------------------------ MODULE MCTimer ------------------------------
(* Timer for TLC: the boot task and two tasks with a timer each. *)
EXTENDS Timer, TLC

CONSTANTS init, a, b

MCTask == {init, a, b}

UpToTwo == 0 .. 2

Symmetry == Permutations({a, b})
=============================================================================
