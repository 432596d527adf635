------------------------------ MODULE ClusterMutex ------------------------------
(***************************************************************************)
(* What JobInstantiation.OneInstancePerOtoroshiCluster promises, without   *)
(* any datastore: at most one instance holds the job, an instance starts   *)
(* executions only while it holds the job, and whoever loses the job has   *)
(* no execution left that still counts.                                    *)
(***************************************************************************)
CONSTANTS Nodes, Nobody

VARIABLES
    holder,     \* the instance in charge of the job, or Nobody
    active      \* the instances with an execution in progress

vars == <<holder, active>>

Init == holder = Nobody /\ active = {}

Take(n) == holder = Nobody /\ holder' = n /\ UNCHANGED active

Start(n) == holder = n /\ active' = active \cup {n} /\ UNCHANGED holder

Finish(n) == active' = active \ {n} /\ UNCHANGED holder

\* Stopped, replaced or crashed.
Leave(n) == holder = n /\ holder' = Nobody /\ active' = active \ {n}

Next == \E n \in Nodes : Take(n) \/ Start(n) \/ Finish(n) \/ Leave(n)

Spec == Init /\ [][Next]_vars
================================================================================
