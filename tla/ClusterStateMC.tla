---------------------------- MODULE ClusterStateMC ----------------------------
(* Small instances of ClusterState for TLC. *)
EXTENDS ClusterState, TLC

CONSTANTS l1, l2, k1, k2, c1, c2

RunSymmetry == Permutations(Runs)
================================================================================
