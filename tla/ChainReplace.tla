---------------------------- MODULE ChainReplace ----------------------------
(***************************************************************************)
(* The "replace" operation of a ThreeFsChainTable request: every chain     *)
(* that holds a target of the old storage node gets that target offlined, *)
(* removed, and replaced by a target of the new node, which is created and *)
(* must reach SERVING-UPTODATE before the request is marked Finished.      *)
(*                                                                         *)
(* The step helpers are translated from internal/controller/              *)
(* tfsct_resources.go and internal/client/admin_cli.go.  The controller's *)
(* Reconcile function that sequences them is not part of the sources; the *)
(* order of the steps and the use of status.process as a resumable        *)
(* checkpoint follow the spec (section 4.5) and are marked as such.        *)
(*                                                                         *)
(* Abstractions:                                                           *)
(*  - a target id is <<node, chain>>: the digits [2:7] of the real id are  *)
(*    the node id, the other digits tell the chain's replica slots apart;  *)
(*    the new target id is the old one with the node field replaced       *)
(*    (the string rewrite itself is checked in TargetIdRewrite);           *)
(*  - one reconciliation pass runs the step named by status.process; the   *)
(*    admin_cli calls of a step and its status patches happen in the pass, *)
(*    and at most one fault hits a pass: a failed list-nodes (node-id      *)
(*    lookup), a failed admin call part-way through a loop (timeout, error *)
(*    output), or a failed status patch (equivalently a controller crash   *)
(*    after the calls and before the patch);                               *)
(*  - the management service applies offline-target asynchronously, and a *)
(*    created target that is in a chain syncs and then serves.             *)
(***************************************************************************)
EXTENDS Naturals, FiniteSets

CONSTANTS
    Chains,          \* chain ids of the live chain table
    Old,             \* spec.oldNode[0]: the storage node being replaced
    New,             \* spec.newNode[0]: the replacement storage node
    Other,           \* a storage node that holds the chains' other replicas
    ListNodesFlaky,  \* whether admin_cli list-nodes may fail in a pass
    DupCreateIsError,\* whether create-target of an existing target prints "error"
    LateRegister,    \* whether the new node may register after the request starts
    MaxFaults        \* bound on the faults injected in one behaviour

ASSUME Chains # {} /\ Cardinality({Old, New, Other}) = 3
ASSUME ListNodesFlaky \in BOOLEAN /\ DupCreateIsError \in BOOLEAN /\ LateRegister \in BOOLEAN
ASSUME MaxFaults \in Nat

Nodes   == {Old, New, Other}
Targets == Nodes \X Chains

\* Target states as printed by list-chains.
Serving == "SERVING-UPTODATE"
Syncing == "SYNCING"
Offline == "OFFLINE"
TargetStates == {Serving, Syncing, Offline}

\* Checkpoints of the workflow (status.process).
Steps == {"", "identify", "offline", "remove", "add", "create", "verify"}

VARIABLES
    \* state of the management service, read and changed through admin_cli
    chainTargets,    \* chainTargets[c]: the targets chain c references
    tstate,          \* tstate[t]: the public state of target t
    created,         \* targets that exist on a storage node
    offlined,        \* targets an offline-target call was issued for
    registered,      \* storage nodes list-nodes reports
    \* the ThreeFsChainTable object
    force,           \* spec.force (immutable: ValidateUpdate rejects spec changes)
    phase,           \* status.phase
    process,         \* status.process
    processChainIds, \* status.processChainIds as a set of <<chainId, targetId>>
    executed,        \* status.executed
    faults           \* faults injected so far

mgmtdVars  == <<chainTargets, tstate, created, offlined, registered>>
statusVars == <<phase, process, processChainIds, executed>>
vars == <<mgmtdVars, force, statusVars, faults>>

OnNode(t, n) == t[1] = n
NewTargetOf(t) == <<New, t[2]>>
TargetsOf(cs) == UNION {chainTargets[c] : c \in cs}

TypeOK ==
    /\ chainTargets \in [Chains -> SUBSET Targets]
    /\ tstate \in [Targets -> TargetStates]
    /\ created \subseteq Targets /\ offlined \subseteq Targets
    /\ registered \subseteq Nodes
    /\ force \in BOOLEAN
    /\ phase \in {"", "Processing", "Finished"}
    /\ process \in Steps
    /\ processChainIds \subseteq Chains \X Targets
    /\ executed \in BOOLEAN
    /\ faults \in 0..MaxFaults

(***************************************************************************)
(* Faults a pass may meet, while the budget lasts.                         *)
(***************************************************************************)
Faults ==
    IF faults < MaxFaults
    THEN {"none", "admin", "patch"} \cup (IF ListNodesFlaky THEN {"listnodes"} ELSE {})
    ELSE {"none"}

Charge(f) == faults' = IF f = "none" THEN faults ELSE faults + 1

\* The sets of calls of a loop that may have taken effect: all of them, or,
\* when an admin call fails, any subset: the loop returns at the error, and a
\* call reported as timed out may still have been applied (Exec kills the
\* bash wrapper, not the admin_cli it runs).
Partial(todo, f) == IF f = "admin" THEN SUBSET todo ELSE {todo}

\* A step that succeeded moves the checkpoint unless the status patch fails.
Checkpoint(ok, next, f) == process' = IF ok /\ f # "patch" THEN next ELSE process

(***************************************************************************)
(* Read helpers of tfsct_resources.go.                                     *)
(***************************************************************************)
\* Mutant: the hostname is looked up without the '-'/'.' to '_' rewrite, so
\* a Kubernetes node name never matches a registered one.
ParseNodeIdFromNodeNameUnnormalized(n, f) == FALSE

\* ParseNodeIdFromNodeName: list-nodes, then look the hostname up.
ParseNodeIdFromNodeName(n, f) == f # "listnodes" /\ n \in registered

\* ListChains: admin_cli list-chains; a failed call or an output containing
\* "error" is an error.
ListChainsOk(f) == f # "admin"

\* OfflineTarget: admin_cli offline-target; "target is already offline" is
\* success, any other output containing "error" or a failed call is an error.
OfflineTargetOk(f) == f # "admin"

\* GetChainTablesWithNode: chains with a target whose id[2:7] is the node id.
GetChainTablesWithNode(n) == {c \in Chains : \E t \in chainTargets[c] : OnNode(t, n)}

\* Mutant: the chain ids are recorded without the target.
HandleProcessChainsChainIds(cs, n) == cs

\* HandleProcessChains: the "chainId@targetId" pair of each chain's target on n.
HandleProcessChains(cs, n) ==
    {<<c, t>> \in cs \X Targets : t \in chainTargets[c] /\ OnNode(t, n)}

\* GetChainTablesWithChainIdTargetId: the live chains named in processChainIds.
GetChainTablesWithChainIdTargetId == {p[1] : p \in processChainIds}

\* Mutant: a chain counted when any of its targets is in state s.
CheckChainWithStatusAny(cs, s) ==
    Cardinality({c \in cs : \E t \in chainTargets[c] : tstate[t] = s})

\* CheckChainWithStatus: the number of chains all of whose targets are in s.
CheckChainWithStatus(cs, s) ==
    Cardinality({c \in cs : \A t \in chainTargets[c] : tstate[t] = s})

\* Mutant: the comparison inverted, counting the targets that ARE in state s.
CheckChainTargetWithNodeStatusInverted(cs, n, s) ==
    IF n \notin registered THEN 0
    ELSE Cardinality(cs) -
         Cardinality({t \in TargetsOf(cs) : OnNode(t, n) /\ tstate[t] = s})

\* CheckChainTargetWithNodeStatus: len(chains) minus the number of targets on
\* node n not in state s; 0 when the node id cannot be resolved.
CheckChainTargetWithNodeStatus(cs, n, s) ==
    IF n \notin registered THEN 0
    ELSE Cardinality(cs) -
         Cardinality({t \in TargetsOf(cs) : OnNode(t, n) /\ tstate[t] # s})

(***************************************************************************)
(* Steps of the workflow.                                                  *)
(***************************************************************************)
\* The first pass moves the new request to Processing (spec 4.5).
Start ==
    /\ phase = ""
    /\ phase' = "Processing"
    /\ process' = "identify"
    /\ UNCHANGED <<mgmtdVars, force, processChainIds, executed, faults>>

\* GetChainTablesWithNode + HandleProcessChains + UpdateProcessChains: the
\* working set is persisted before any chain is touched.  A failed lookup
\* makes GetChainTablesWithNode return its error, as does a failed ListChains.
Identify ==
    /\ phase = "Processing" /\ process = "identify"
    /\ \E f \in Faults :
        /\ Charge(f)
        /\ IF ListChainsOk(f) /\ ParseNodeIdFromNodeName(Old, f)
           THEN /\ processChainIds' =
                      HandleProcessChains(GetChainTablesWithNode(Old), Old)
                /\ Checkpoint(TRUE, "offline", f)
           ELSE UNCHANGED <<processChainIds, process>>
    /\ UNCHANGED <<mgmtdVars, force, phase, executed>>

\* OfflineTargetRelatedNode, then (unless spec.force) the wait until every
\* target of the old node in the working set reports OFFLINE.  When the node
\* id cannot be resolved OfflineTargetRelatedNode returns nil without calls.
OfflineTargetRelatedNode ==
    /\ phase = "Processing" /\ process = "offline"
    /\ \E f \in Faults :
        LET cs   == GetChainTablesWithChainIdTargetId
            todo == {t \in TargetsOf(cs) : OnNode(t, Old) /\ tstate[t] # Offline}
            done == IF ParseNodeIdFromNodeName(Old, f) THEN Partial(todo, f) ELSE {{}}
            ok   == /\ OfflineTargetOk(f)
                    /\ \/ force
                       \/ CheckChainTargetWithNodeStatus(cs, Old, Offline) = Cardinality(cs)
        IN /\ done # {}
           /\ Charge(f)
           /\ \E d \in done : offlined' = offlined \cup d
           /\ Checkpoint(ok, "remove", f)
    /\ UNCHANGED <<chainTargets, tstate, created, registered, force,
                   phase, processChainIds, executed>>

\* DeleteTargetRelatedNode: update-chain --mode remove for each target of the
\* old node; returns nil without calls when the node id cannot be resolved.
DeleteTargetRelatedNode ==
    /\ phase = "Processing" /\ process = "remove"
    /\ \E f \in Faults :
        LET cs   == GetChainTablesWithChainIdTargetId
            todo == {<<c, t>> \in cs \X Targets : t \in chainTargets[c] /\ OnNode(t, Old)}
            done == IF ParseNodeIdFromNodeName(Old, f) THEN Partial(todo, f) ELSE {{}}
        IN /\ done # {}
           /\ Charge(f)
           /\ \E d \in done :
                chainTargets' = [c \in Chains |->
                                   chainTargets[c] \ {p[2] : p \in {q \in d : q[1] = c}}]
           /\ Checkpoint(f # "admin", "add", f)
    /\ UNCHANGED <<tstate, created, offlined, registered, force,
                   phase, processChainIds, executed>>

\* Mutant: an update-chain error is logged and the loop goes on.
AddTargetRelatedNodeOkIgnoreErr(f) == TRUE

\* AddTargetRelatedNode returns the first update-chain error (an admin fault).
AddTargetRelatedNodeOk(f) == f # "admin"

\* AddTargetRelatedNode: update-chain --mode add of the new node's target for
\* each recorded pair (TargetExisted counts as success); returns nil without
\* calls when either node id cannot be resolved.
AddTargetRelatedNode ==
    /\ phase = "Processing" /\ process = "add"
    /\ \E f \in Faults :
        LET todo     == processChainIds
            resolved == ParseNodeIdFromNodeName(Old, f) /\ ParseNodeIdFromNodeName(New, f)
            done     == IF resolved THEN Partial(todo, f) ELSE {{}}
        IN /\ done # {}
           /\ Charge(f)
           /\ \E d \in done :
                chainTargets' = [c \in Chains |->
                                   chainTargets[c] \cup {NewTargetOf(p[2]) : p \in {q \in d : q[1] = c}}]
           /\ Checkpoint(AddTargetRelatedNodeOk(f), "create", f)
    /\ UNCHANGED <<tstate, created, offlined, registered, force,
                   phase, processChainIds, executed>>

\* CreateTargetTmpFile + CreateTarget: one create-target line per recorded
\* pair, run as one admin_cli batch.  A failed lookup is returned as an
\* error; a timeout kills the batch part-way; a line for a target that
\* already exists makes the output contain "error" when DupCreateIsError.
CreateTarget ==
    /\ phase = "Processing" /\ process = "create"
    /\ \E f \in Faults :
        LET todo     == {NewTargetOf(p[2]) : p \in processChainIds}
            resolved == ParseNodeIdFromNodeName(Old, f) /\ ParseNodeIdFromNodeName(New, f)
            done     == IF resolved THEN Partial(todo \ created, f) ELSE {{}}
            ok       == /\ resolved /\ f # "admin"
                        /\ ~(DupCreateIsError /\ todo \cap created # {})
        IN /\ done # {}
           /\ Charge(f)
           /\ \E d \in done : created' = created \cup d
           /\ Checkpoint(ok, "verify", f)
    /\ UNCHANGED <<chainTargets, tstate, offlined, registered, force,
                   phase, processChainIds, executed>>

\* GetChainTablesWithChainIdTargetId + CheckChainWithStatus: when every
\* recorded chain serves on all its targets, UpdateExecTag(true) and
\* UpdatePhase(Finished).
Verify ==
    /\ phase = "Processing" /\ process = "verify"
    /\ LET cs == GetChainTablesWithChainIdTargetId
       IN CheckChainWithStatus(cs, Serving) = Cardinality(cs)
    /\ \E f \in Faults \ {"admin", "listnodes"} :
        /\ Charge(f)
        /\ IF f = "patch"
           THEN UNCHANGED <<phase, executed>>
           ELSE phase' = "Finished" /\ executed' = TRUE
    /\ UNCHANGED <<mgmtdVars, force, process, processChainIds>>

(***************************************************************************)
(* The management service and the storage nodes.                           *)
(***************************************************************************)
\* mgmtd applies an offline-target request.
ApplyOffline(t) ==
    /\ t \in offlined /\ tstate[t] # Offline
    /\ tstate' = [tstate EXCEPT ![t] = Offline]
    /\ UNCHANGED <<chainTargets, created, offlined, registered, force, statusVars, faults>>

\* A created target referenced by a chain starts syncing, then serves.
SyncTarget(t) ==
    /\ t \in created /\ tstate[t] = Offline /\ OnNode(t, New)
    /\ \E c \in Chains : t \in chainTargets[c]
    /\ tstate' = [tstate EXCEPT ![t] = Syncing]
    /\ UNCHANGED <<chainTargets, created, offlined, registered, force, statusVars, faults>>

ServeTarget(t) ==
    /\ tstate[t] = Syncing
    /\ tstate' = [tstate EXCEPT ![t] = Serving]
    /\ UNCHANGED <<chainTargets, created, offlined, registered, force, statusVars, faults>>

\* The new node's storage service starts and registers with mgmtd.
RegisterNewNode ==
    /\ New \notin registered
    /\ registered' = registered \cup {New}
    /\ UNCHANGED <<chainTargets, tstate, created, offlined, force, statusVars, faults>>

(***************************************************************************)
(* Specification.                                                          *)
(***************************************************************************)
\* The old node's targets serve, or are already offline because the node
\* failed; the new node may or may not have registered yet.
Init ==
    /\ chainTargets = [c \in Chains |-> {<<Old, c>>, <<Other, c>>}]
    /\ \E oldState \in {Serving, Offline} :
         tstate = [t \in Targets |->
                     CASE OnNode(t, Other) -> Serving
                       [] OnNode(t, Old)   -> oldState
                       [] OTHER            -> Offline]
    /\ created = {t \in Targets : ~OnNode(t, New)}
    /\ offlined = {}
    /\ registered \in IF LateRegister THEN {{Old, Other}, Nodes} ELSE {Nodes}
    /\ force \in BOOLEAN
    /\ phase = "" /\ process = "" /\ processChainIds = {} /\ executed = FALSE
    /\ faults = 0

Controller ==
    \/ Start \/ Identify \/ OfflineTargetRelatedNode \/ DeleteTargetRelatedNode
    \/ AddTargetRelatedNode \/ CreateTarget \/ Verify

Environment ==
    \/ \E t \in Targets : ApplyOffline(t) \/ SyncTarget(t) \/ ServeTarget(t)
    \/ RegisterNewNode

\* A reconciliation pass of a Finished request, or one whose check fails,
\* changes nothing: the controller keeps being requeued.
Requeue == UNCHANGED vars

Next == Controller \/ Environment \/ Requeue

\* Failed passes are requeued with backoff, so every enabled step is retried;
\* mgmtd and the storage nodes keep making progress.
Fairness ==
    /\ WF_vars(Start) /\ WF_vars(Identify) /\ WF_vars(OfflineTargetRelatedNode)
    /\ WF_vars(DeleteTargetRelatedNode) /\ WF_vars(AddTargetRelatedNode)
    /\ WF_vars(CreateTarget) /\ WF_vars(Verify)
    /\ \A t \in Targets : WF_vars(ApplyOffline(t)) /\ WF_vars(SyncTarget(t)) /\ WF_vars(ServeTarget(t))
    /\ WF_vars(RegisterNewNode)

Spec == Init /\ [][Next]_vars /\ Fairness

(***************************************************************************)
(* Properties.                                                             *)
(***************************************************************************)
\* A request marked Finished has done the replacement in every recorded
\* chain: the old node's target is gone from it, and the new node's target
\* is in it, exists, and serves.  Verify only checks the chains' states, so
\* this holds only if no earlier step reported success without doing its work.
ReplaceComplete ==
    phase = "Finished" =>
        \A p \in processChainIds :
            /\ p[2] \notin chainTargets[p[1]]
            /\ NewTargetOf(p[2]) \in chainTargets[p[1]]
            /\ NewTargetOf(p[2]) \in created
            /\ tstate[NewTargetOf(p[2])] = Serving

\* Without spec.force, a target of the old node leaves a chain only once it
\* reports OFFLINE: the offline step's wait, done in an earlier pass, still
\* holds when DeleteTargetRelatedNode runs.
RemoveOnlyOffline ==
    [][\A c \in Chains, t \in Targets :
         (t \in chainTargets[c] /\ t \notin chainTargets'[c] /\ OnNode(t, Old))
            => (force \/ tstate[t] = Offline)]_vars

\* The refinement mapping to AbstractReplace: a chain holds the old (new)
\* replica when the old (new) node's target is in it, its new replica serves
\* when that target is SERVING-UPTODATE, and the working set is the chains
\* of status.processChainIds.
Abstract == INSTANCE AbstractReplace WITH
    phase      <- phase,
    force      <- force,
    working    <- {p[1] : p \in processChainIds},
    holdsOld   <- {c \in Chains : <<Old, c>> \in chainTargets[c]},
    holdsNew   <- {c \in Chains : <<New, c>> \in chainTargets[c]},
    serving    <- {c \in Chains : tstate[<<New, c>>] = Serving},
    oldOffline <- {c \in Chains : tstate[<<Old, c>>] = Offline}

\* The replace workflow implements AbstractReplace: across its passes,
\* partial admin loops, retries and failed patches, the chain table only
\* ever makes the abstract moves (record, detach offline old replicas,
\* attach new ones to detached chains, serve), and Verify marks the request
\* Finished only in a state where the abstract Finish is enabled.
ImplementsAbstractReplace == Abstract!Spec

\* Every replace request eventually reaches Finished, whatever passes fail,
\* crash or are retried on the way.
EventuallyFinished == <>(phase = "Finished")
=============================================================================
