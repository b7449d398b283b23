---------------------------- MODULE MC_FdbDeploys ----------------------------
(***************************************************************************)
(* Four FDB nodes and a three-process cluster for two storage replicas    *)
(* (ClusterSize >= 2 * replicas - 1); two fault-label changes and two     *)
(* failed Kubernetes calls per behaviour.  InitFdbCluster runs beside the *)
(* controller against the cluster it builds: fdbcli reaches the cluster   *)
(* once the cluster-file ConfigMap exists and an FDB Deployment runs.      *)
(***************************************************************************)
EXTENDS FdbDeploys

CONSTANTS ReplicaNum, MaxInits
VARIABLES db, coords, result, inits

MCHosts == 1..4

\* Node names with "-" and "." whose translated Deployment names differ, in
\* the order of the numbers.
MCNodeName == [h \in MCHosts |-> <<"n", <<"-", ".", "_", "x">>[h], <<"1", "2", "3", "4">>[h]>>]

FI == INSTANCE FdbInit WITH reachable <- (configExists /\ deploys # {})

initVars == <<db, coords, result, inits>>
mcVars == <<vars, initVars>>

MCNext ==
    \/ Next /\ UNCHANGED initVars
    \/ FI!InitFdbCluster /\ UNCHANGED vars

MCInit == Init /\ FI!Init

MCSpec == MCInit /\ [][MCNext]_mcVars /\ Fairness

=============================================================================
