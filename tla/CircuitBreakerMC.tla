--------------------------- MODULE CircuitBreakerMC ---------------------------
(* Small instances of CircuitBreaker for TLC: a primary host and a backup. *)
EXTENDS CircuitBreaker, TLC

CONSTANTS r1, r2, main, backup

EvenWeight == [h \in Hosts |-> 1]

RequestSymmetry == Permutations(Requests)
================================================================================
