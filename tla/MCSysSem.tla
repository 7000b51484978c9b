------------------------------ MODULE MCSysSem ------------------------------
(* SysSem for TLC: the boot task and up to three users of the semaphore. *)
EXTENDS SysSem, TLC

CONSTANTS init, a, b, c

MCTask == {init, a, b, c}

TwoUsers == {init, a, b}

Symmetry == Permutations({a, b, c})
=============================================================================
