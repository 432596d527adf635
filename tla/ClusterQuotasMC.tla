---------------------------- MODULE ClusterQuotasMC ----------------------------
(* A small instance of ClusterQuotas for TLC: an apikey, whose counts a failed *)
(* push puts back, and a custom quota, whose counts it does not. *)
EXTENDS ClusterQuotas

CONSTANTS apikey, custom, t1, t2, r1, r2
================================================================================
