------------------------------ MODULE FdbDeploys ------------------------------
(***************************************************************************)
(* The FoundationDB processes of a 3FS cluster (internal/fdb/              *)
(* fdb_resources.go): one Deployment per chosen node, ClusterSize of them. *)
(*                                                                         *)
(* TagNodeLabel chooses the nodes (FilterFdbNodes: FDB-labelled, without   *)
(* the FDB fault label) and records them in the cluster status;            *)
(* CreateFdbConfigIfNotExist creates the connection-string ConfigMap from *)
(* the first ClusterSize nodes; CreateDeployIfNotExist makes the           *)
(* Deployments match the chosen nodes: it creates missing ones, deletes    *)
(* those on nodes no longer chosen and deletes surplus ones.  Each helper *)
(* is one action; the cluster controller that calls them is not part of  *)
(* the sources, so they may run in any order, each pass as a whole.       *)
(*                                                                         *)
(* Nodes are numbers with a name each (NodeName); a Deployment is named  *)
(* after its node's name through TranslatePlainNodeNameValid and found by *)
(* that name.  A list of nodes or Deployments is in number order, which   *)
(* the MC instance makes agree with name order.  The cluster object may   *)
(* be deleted: the delete helpers of teardown then run and the create     *)
(* helpers no longer do.                                                   *)
(* A Kubernetes call may fail: a failed List is only logged, a failed Get, *)
(* Create or Delete returns at once, so a pass applies a prefix of its    *)
(* calls.  The node fault label is set and cleared by an operator.         *)
(***************************************************************************)
EXTENDS Naturals, FiniteSets, SequencesExt

CONSTANTS
    Hosts,            \* nodes labelled ThreeFSFdbNodeKey
    ClusterSize,      \* fc.ClusterSize
    StorageReplicas,  \* fc.StorageReplicas
    MaxFaults,        \* bound on failed Kubernetes calls
    MaxFlips,         \* bound on fault-label changes
    NodeName          \* node.Name of each host, a sequence of characters

ASSUME Hosts \subseteq Nat /\ ClusterSize \in Nat /\ StorageReplicas \in Nat

VARIABLES
    faulty,        \* nodes carrying ThreeFSFdbFaultNodeKey
    nodes,         \* status.nodesInfo.fdbNodes, the nodes the helpers use
    configExists,  \* the <cluster>-fdb ConfigMap exists
    deploys,       \* nodes that have an FDB Deployment
    deleting,      \* the cluster object is being deleted
    faults, flips

vars == <<faulty, nodes, configExists, deploys, deleting, faults, flips>>

\* A set of nodes in name order.
Sorted(S) == SetToSortSeq(S, <)
\* The first k elements of s.
Take(s, k) == SubSeq(s, 1, IF k < Len(s) THEN k ELSE Len(s))

\* TranslatePlainNodeNameValid (utils.go): "_" and "." become "-".
TranslatePlainNodeNameValid(n) == ReplaceAll(ReplaceAll(n, "_", "-"), ".", "-")

\* The Deployment name of node h, GetFdbDeployName(fc.Name) + "-" + the
\* translated node name; the constant prefix is left out.
DeployNames == [h \in Hosts |-> TranslatePlainNodeNameValid(NodeName[h])]
DeployName(h) == DeployNames[h]

\* Get by name finds a Deployment for node h among D.
HasDeploy(D, h) == \E d \in D : DeployName(d) = DeployName(h)

\* FilterFdbNodes: FDB nodes without the fault label.
FilterFdbNodes == Hosts \ faulty

(***************************************************************************)
(* CreateDeployIfNotExist, lines 280-376, as the sequence of Create and   *)
(* Delete calls one pass makes.  ok1 and ok2 are the outcomes of the two  *)
(* Lists; a failed List leaves deployList as it was (empty the first      *)
(* time).                                                                  *)
(***************************************************************************)
\* Lines 297-309: deployments counted as existing.
ExistingDeploy(listed, N) == Cardinality(listed) - Cardinality(listed \ N)

\* Mutant: nodes that already have a Deployment are not skipped.
CreateLoopNoSkip(D, N, existing) ==
    LET all == Sorted(N)
    IN IF existing < ClusterSize THEN Take(all, ClusterSize - existing) ELSE all

\* Lines 315-339: nodes are visited in order, a node whose Deployment name
\* is found is skipped, and creation stops once existingDeploy == ClusterSize.
CreateLoop(D, N, existing) ==
    LET missing == Sorted({n \in N : ~HasDeploy(D, n)})
    IN IF existing < ClusterSize THEN Take(missing, ClusterSize - existing) ELSE missing

\* Lines 341-355: the listed Deployments outside the nodes are deleted.
OutsideDeletes(listed, N) == Sorted(listed \ N)

\* Mutant: the surplus loop stops one Deployment late.
InNodeDeletesOffByOne(listed, N) ==
    LET count == Cardinality(listed \cap N)
    IN IF count >= ClusterSize THEN Take(Sorted(listed \cap N), count - ClusterSize + 1)
       ELSE <<>>

\* Lines 357-372: while more than ClusterSize remain, listed Deployments on
\* the nodes are deleted in order.
InNodeDeletes(listed, N) ==
    LET count == Cardinality(listed \cap N)
    IN IF count > ClusterSize THEN Take(Sorted(listed \cap N), count - ClusterSize)
       ELSE <<>>

\* The calls of one pass: <<"create", n>> and <<"delete", n>>.
DeployCalls(D, N, ok1, ok2) ==
    LET listed1  == IF ok1 THEN D ELSE {}
        existing == ExistingDeploy(listed1, N)
        creates  == CreateLoop(D, N, existing)
        listed2  == IF ok2 THEN D \cup ToSet(creates) ELSE listed1
        mk(op, s) == [i \in 1..Len(s) |-> <<op, s[i]>>]
    IN IF existing = ClusterSize THEN <<>>
       ELSE mk("create", creates)
            \o mk("delete", OutsideDeletes(listed2, N))
            \o mk("delete", InNodeDeletes(listed2, N))

\* The Deployments after the calls c have been made.
Apply(D, c) ==
    (D \cup {c[i][2] : i \in {j \in DOMAIN c : c[j][1] = "create"}})
        \ {c[i][2] : i \in {j \in DOMAIN c : c[j][1] = "delete"}}

Init ==
    /\ faulty = {} /\ nodes = {} /\ configExists = FALSE /\ deploys = {}
    /\ deleting = FALSE /\ faults = 0 /\ flips = 0

(***************************************************************************)
(* The helpers.                                                            *)
(***************************************************************************)
\* TagNodeLabel, lines 158-179: too few nodes is an error; the status patch
\* may fail.
TagNodeLabel ==
    /\ ~deleting
    /\ Cardinality(FilterFdbNodes) >= ClusterSize
    /\ nodes # FilterFdbNodes
    /\ \/ nodes' = FilterFdbNodes /\ UNCHANGED faults
       \/ faults < MaxFaults /\ faults' = faults + 1 /\ UNCHANGED nodes
    /\ UNCHANGED <<faulty, configExists, deploys, deleting, flips>>

\* CreateFdbConfigIfNotExist, lines 191-238: an existing ConfigMap is only
\* updated (its content is not modelled); otherwise it is created from the
\* internal IPs of nodes[:ClusterSize], and a failed node Get or Create
\* returns the error.
CreateFdbConfigIfNotExist ==
    /\ ~deleting /\ ~configExists
    /\ Cardinality(nodes) >= ClusterSize
    /\ \/ configExists' = TRUE /\ UNCHANGED faults
       \/ faults < MaxFaults /\ faults' = faults + 1 /\ UNCHANGED configExists
    /\ UNCHANGED <<faulty, nodes, deploys, deleting, flips>>

\* GetConfigContent, lines 181-190: the ConfigMap's fdb.cluster is there
\* once the ConfigMap exists; a failed Get gives "", and the pass waits.
ConfigContentReady == configExists

\* CreateDeployIfNotExist, lines 280-376: the size checks and the wait for
\* the ConfigMap (GetConfigContent), then the calls; a failing call ends the
\* pass after the calls before it.
CreateDeployIfNotExist ==
    /\ ~deleting
    /\ ClusterSize <= Cardinality(nodes)
    /\ ClusterSize >= 2 * StorageReplicas - 1
    /\ ConfigContentReady
    /\ \E ok1, ok2 \in BOOLEAN :
         LET calls == DeployCalls(deploys, nodes, ok1, ok2)
             listFaults == (IF ok1 THEN 0 ELSE 1) + (IF ok2 THEN 0 ELSE 1)
         IN \E k \in 0..Len(calls) :
              LET cost == listFaults + (IF k < Len(calls) THEN 1 ELSE 0)
              IN /\ faults + cost <= MaxFaults
                 /\ faults' = faults + cost
                 /\ deploys' = Apply(deploys, SubSeq(calls, 1, k))
    /\ UNCHANGED <<faulty, nodes, configExists, deleting, flips>>

(***************************************************************************)
(* Teardown.                                                               *)
(***************************************************************************)
\* The Deployments named after the first k of dels are deleted; a failed
\* Get or Delete ends the pass before the rest.
RemoveDeploys(dels) ==
    \E k \in 0..Len(dels) :
      LET cost == IF k < Len(dels) THEN 1 ELSE 0
      IN /\ faults + cost <= MaxFaults
         /\ faults' = faults + cost
         /\ deploys' = {d \in deploys :
                           \A i \in 1..k : DeployName(d) # DeployName(dels[i])}

\* Mutant: a NotFound Get is returned as an error, so the pass stops at the
\* first node whose Deployment is already gone.
DeleteDeployNotFoundIsError ==
    /\ deleting
    /\ LET all  == Sorted(nodes)
           gone == {i \in 1..Len(all) : ~HasDeploy(deploys, all[i])}
           last == IF gone = {} THEN Len(all) ELSE Min(gone) - 1
       IN RemoveDeploys(SubSeq(all, 1, last))
    /\ UNCHANGED <<faulty, nodes, configExists, deleting, flips>>

\* DeleteDeployIfExist, lines 258-279: for each node of fc.Nodes, Get its
\* Deployment by name; NotFound goes on to the next node.
DeleteDeployIfExist ==
    /\ deleting
    /\ RemoveDeploys(SelectSeq(Sorted(nodes), LAMBDA n : HasDeploy(deploys, n)))
    /\ UNCHANGED <<faulty, nodes, configExists, deleting, flips>>

\* DeleteFdbConfigIfExist, lines 240-257: NotFound is success; a failed Get
\* or Delete returns the error.
DeleteFdbConfigIfExist ==
    /\ deleting
    /\ \/ configExists' = FALSE /\ UNCHANGED faults
       \/ configExists /\ faults < MaxFaults /\ faults' = faults + 1
          /\ UNCHANGED configExists
    /\ UNCHANGED <<faulty, nodes, deploys, deleting, flips>>

\* The cluster object is deleted.
StartDelete ==
    /\ ~deleting /\ deleting' = TRUE
    /\ UNCHANGED <<faulty, nodes, configExists, deploys, faults, flips>>

\* An operator labels a node faulty while enough healthy nodes remain, or
\* clears the label.
SetFault(h) ==
    /\ h \notin faulty /\ flips < MaxFlips
    /\ Cardinality(Hosts \ (faulty \cup {h})) >= ClusterSize
    /\ faulty' = faulty \cup {h} /\ flips' = flips + 1
    /\ UNCHANGED <<nodes, configExists, deploys, deleting, faults>>

ClearFault(h) ==
    /\ h \in faulty /\ flips < MaxFlips
    /\ faulty' = faulty \ {h} /\ flips' = flips + 1
    /\ UNCHANGED <<nodes, configExists, deploys, deleting, faults>>

Next ==
    \/ TagNodeLabel \/ CreateFdbConfigIfNotExist \/ CreateDeployIfNotExist
    \/ DeleteDeployIfExist \/ DeleteFdbConfigIfExist \/ StartDelete
    \/ \E h \in Hosts : SetFault(h) \/ ClearFault(h)

\* The controller requeues every pass, so each helper keeps being called.
Fairness ==
    /\ WF_vars(TagNodeLabel) /\ WF_vars(CreateFdbConfigIfNotExist)
    /\ WF_vars(CreateDeployIfNotExist)
    /\ WF_vars(DeleteDeployIfExist) /\ WF_vars(DeleteFdbConfigIfExist)

Spec == Init /\ [][Next]_vars /\ Fairness

TypeOK ==
    /\ faulty \subseteq Hosts /\ nodes \subseteq Hosts /\ deploys \subseteq Hosts
    /\ configExists \in BOOLEAN /\ deleting \in BOOLEAN
    /\ faults \in 0..MaxFaults /\ flips \in 0..MaxFlips

(***************************************************************************)
(* Properties.                                                             *)
(***************************************************************************)
\* A pass of CreateDeployIfNotExist that deletes an FDB Deployment on a
\* chosen node leaves at least ClusterSize of them on the chosen nodes: the
\* surplus loop (lines 357-372) counts down to ClusterSize, even when a List
\* failed and its counts are stale or when the pass stops at a failed call;
\* only teardown deletes below that.
NeverUnderProvisioned ==
    [][~deleting' /\ (deploys \ deploys') \cap nodes # {}
          => Cardinality(deploys' \cap nodes) >= ClusterSize]_vars

\* Once the operator stops changing fault labels and the Kubernetes calls
\* stop failing, the chosen nodes follow the labels and at least
\* ClusterSize of them keep an FDB Deployment for good, unless the cluster
\* object is deleted.
EventuallyEnough ==
    <>[](deleting \/ (nodes = FilterFdbNodes
                      /\ Cardinality(deploys \cap nodes) >= ClusterSize))

\* Once the cluster object is deleted, the teardown helpers, retried after
\* failed Gets and Deletes, eventually leave no FDB Deployment on a chosen
\* node and no ConfigMap: a retry skips the Deployments an earlier pass
\* already deleted (NotFound).
EventuallyTornDown ==
    deleting ~> (deploys \cap nodes = {} /\ ~configExists)

\* Once the cluster object is deleted, no FDB Deployment is left at all.
\* This does not hold: DeleteDeployIfExist visits only fc.Nodes, so a
\* Deployment left on a node labelled faulty (see DeploysConverge) stays.
NoDeployLeftAfterTeardown ==
    deleting ~> (deploys = {})

\* Eventually exactly the chosen number of FDB Deployments run, all on
\* chosen nodes: the code's comment "delete deploy outside nodes" (line 341)
\* says Deployments on unchosen nodes are removed.  This does not hold:
\* when ClusterSize Deployments already sit on chosen nodes, the early
\* return of lines 311-314 skips the deletion, so a Deployment left on a
\* node labelled faulty after a failed pass stays for good.
DeploysConverge ==
    <>[](deploys \subseteq nodes /\ Cardinality(deploys) = ClusterSize)

=============================================================================
