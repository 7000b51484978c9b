------------------------------ MODULE MCKernel ------------------------------
(* Kernel for TLC: init and two application tasks. *)
EXTENDS TaskSearch, TLC

CONSTANTS init, a, b

MCTask == {init, a, b}

\* TASK_PRIO_MIN and two priorities above it.
ThreePrios == 0 .. 2

TwoPrios == 0 .. 1

\* No application changes the priority of a ready task.
NotReady == TaskState \ {"invalid", "ready"}

NoState == {}

OneTask == {init, a}

AnyState == TaskState \ {"invalid"}

\* A name of its own for each task.
OwnName == [t \in MCTask |-> t]

\* The two application tasks are interchangeable.
Symmetry == Permutations({a, b})
=============================================================================
