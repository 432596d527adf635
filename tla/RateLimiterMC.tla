----------------------------- MODULE RateLimiterMC -----------------------------
(* A small instance of RateLimiter for TLC. *)
EXTENDS RateLimiter

CONSTANTS t1, t2, window, daily

Visits == [k \in Counters |-> IF k = daily THEN 1 ELSE 0]

Limits == [k \in Counters |-> IF k = daily THEN 2 ELSE 1]

TwoAtMost == [k \in Counters |-> 2]
================================================================================
