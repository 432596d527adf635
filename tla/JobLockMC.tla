------------------------------- MODULE JobLockMC -------------------------------
(* Small instances of JobLock for TLC. *)
EXTENDS JobLock, TLC

CONSTANTS n1, n2, n3, f1, f2

AllOff  == [n \in Nodes |-> "Off"]
Leaders == [n \in Nodes |-> IF n = n1 THEN "Worker" ELSE "Leader"]

\* Contexts that an instance creates: one, or one instance replaces its own.
OneEach == [n \in Nodes |-> 1]
OneMore == [n \in Nodes |-> IF n = n1 THEN 2 ELSE 1]

NodeSymmetry  == Permutations(Nodes)
FiberSymmetry == Permutations(Fibers)
================================================================================
