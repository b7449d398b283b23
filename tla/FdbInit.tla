------------------------------ MODULE FdbInit ------------------------------
(***************************************************************************)
(* InitFdbCluster of internal/client/fdbcli.go (lines 30-73, 150-167):     *)
(* three fdbcli --exec calls, "status minimal", "configure new <mode> ssd" *)
(* and "coordinators auto", each through CommandRunner.Exec with a         *)
(* timeout.  A call's outcome is what the cluster and the timeout allow:  *)
(* an unreachable cluster fails every call without effect; a reachable one *)
(* may fail a call before it applies or time it out after it applied (Exec *)
(* returns the context error though fdbcli's change took effect).          *)
(*                                                                         *)
(* db is the database's redundancy mode ("none" before "configure new"),   *)
(* coords whether "coordinators auto" has applied, result what the last    *)
(* InitFdbCluster returned.  reachable is the environment: whether a      *)
(* cluster file exists and FDB processes run.  The 5-second sleep is left  *)
(* out: it only lengthens the window in which reachable may change.        *)
(***************************************************************************)
EXTENDS Naturals

CONSTANTS ReplicaNum,   \* FdbcliConfig.ReplicaNum
          MaxInits      \* bound on the number of InitFdbCluster calls

VARIABLES db, coords, result, inits, reachable

initVars == <<db, coords, result, inits>>

\* The redundancy map of CreateNewDb (lines 31-35); a ReplicaNum outside it
\* gives "configure new  ssd", which fdbcli creates in its default, single.
ModeOf(n) ==
    CASE n = 1 -> "single" [] n = 2 -> "double" [] n = 3 -> "triple"
      [] OTHER -> "single"

\* CheckFdbCluster, lines 62-73: whether the "status minimal" output says
\* "The database is available"; it may say otherwise of a configured
\* database (a timeout, a recovering cluster), and its error is ignored.
CheckAvailable ==
    IF reachable /\ db # "none" THEN BOOLEAN ELSE {FALSE}

\* CreateNewDb, lines 30-47: the database after the call, the call's error,
\* and whether its output says "Database already exists".
CreateNewDb ==
    {[db |-> db, err |-> TRUE, exists |-> FALSE]}
    \cup (IF reachable /\ db = "none"
            THEN {[db |-> ModeOf(ReplicaNum), err |-> e, exists |-> FALSE] :
                    e \in BOOLEAN}
            ELSE {})
    \cup (IF reachable /\ db # "none"
            THEN {[db |-> db, err |-> TRUE, exists |-> TRUE]}
            ELSE {})

\* ConfigureCoordinator, lines 49-60, against the database d.
ConfigureCoordinator(d) ==
    {[coords |-> coords, err |-> TRUE]}
    \cup (IF reachable /\ d # "none"
            THEN {[coords |-> TRUE, err |-> e] : e \in BOOLEAN}
            ELSE {})

Init ==
    /\ db = "none" /\ coords = FALSE /\ result = "idle" /\ inits = 0

\* InitFdbCluster, lines 150-167: create the database unless it is reported
\* available, accept "Database already exists" as success, then choose the
\* coordinators.
InitFdbCluster ==
    /\ inits < MaxInits
    /\ inits' = inits + 1
    /\ \E avail \in CheckAvailable :
       \E c \in IF avail THEN {[db |-> db, err |-> FALSE, exists |-> FALSE]}
                         ELSE CreateNewDb :
         IF c.err /\ ~c.exists
           THEN /\ db' = c.db /\ result' = "err" /\ UNCHANGED coords
           ELSE \E k \in ConfigureCoordinator(c.db) :
                  /\ db' = c.db /\ coords' = k.coords
                  /\ result' = IF k.err THEN "err" ELSE "ok"

TypeOK ==
    /\ db \in {"none", "single", "double", "triple"}
    /\ coords \in BOOLEAN /\ result \in {"idle", "ok", "err"}
    /\ inits \in 0..MaxInits

=============================================================================
