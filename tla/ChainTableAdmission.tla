------------------------- MODULE ChainTableAdmission -------------------------
(***************************************************************************)
(* Admission of ThreeFsChainTable requests (internal/webhook/              *)
(* threefschaintable_webhook.go) and the life of an admitted request.      *)
(*                                                                         *)
(* A user creates a request object; the API server calls ValidateCreate    *)
(* and, when it allows the request, persists the object with an empty      *)
(* status.  ValidateCreate checks the request against the cluster (backup  *)
(* node list, node counts, storage Deployments, fault labels) and then     *)
(* lists every ThreeFsChainTable and refuses while one is not Finished.    *)
(* The validator's client is mgr.GetClient() (line 44), whose List reads   *)
(* the manager's informer cache: the webhook sees the request objects and  *)
(* the storage Deployments as of the cache's last sync, cStored, cPhase    *)
(* and cStorage here, and the two informers catch up on their own.         *)
(* ValidateDelete judges the object itself and refuses to delete a request *)
(* before it is Finished unless it has the debug label.  The controller    *)
(* then moves an object from "" to Processing, deploys storage on its new *)
(* nodes, and finishes it by retiring the old ones (spec 4.5; Reconcile    *)
(* itself is not part of the sources).  Kubernetes API errors only turn   *)
(* into rejections (failurePolicy=fail) and a rejected user may submit    *)
(* again.                                                                  *)
(***************************************************************************)
EXTENDS Naturals, FiniteSets

CONSTANTS
    Requests,          \* request objects users may create
    Type,              \* Requests -> {"create", "delete", "replace", "other"}
    OldNode, NewNode,  \* Requests -> SUBSET Nodes (spec.oldNode, spec.newNode)
    DebugLabelled,     \* requests carrying the ThreeDebugMode label
    BackupNodes,       \* vfsc.Status.NodesInfo.StorageBackupNodes
    FaultNodes,        \* nodes labelled ThreeFSStorageFaultNodeKey
    InitStorage,       \* nodeSelector hosts of the storage Deployments
    Replica, TargetPaths, TargetPerDisk, StripeSize,  \* the cluster's spec
    ConcurrentClients  \* may two create calls be under admission at once

Finished == "Finished"
Processing == "Processing"

VARIABLES
    call,      \* per request: state of the user's create call
    stored,    \* request objects that exist in the API server
    phase,     \* status.phase of each request ("none" before it exists)
    storage,   \* hosts of the storage Deployments
    cStored, cPhase,  \* the informer cache's ThreeFsChainTables
    cStorage          \* the informer cache's storage Deployments

live == <<call, stored, phase, storage>>
vars == <<call, stored, phase, storage, cStored, cPhase, cStorage>>

(***************************************************************************)
(* ValidateCreate, lines 68-157, as the verdict on request r.             *)
(***************************************************************************)
\* Lines 68-74: with a non-empty backup list every new node must be in it.
BackupNodesOk(r) == BackupNodes = {} \/ NewNode[r] \subseteq BackupNodes

\* Lines 75-92: the size arithmetic of a create request.
AddSize(r) == IF r \in DebugLabelled THEN 2 ELSE 3
CreateSizeOk(r) ==
    LET n == Cardinality(NewNode[r])
        targetNum == n * TargetPaths * TargetPerDisk
    IN /\ n >= AddSize(r) /\ n >= Replica
       /\ targetNum % Replica = 0
       /\ targetNum \div Replica >= StripeSize

\* Lines 75-106: per type; a delete is never supported and an unknown type
\* is only logged (line 105), not refused.
TypeChecksOk(r) ==
    CASE Type[r] = "create"  -> CreateSizeOk(r)
      [] Type[r] = "delete"  -> FALSE
      [] Type[r] = "replace" -> Cardinality(OldNode[r]) = 1 /\ Cardinality(NewNode[r]) = 1
      [] OTHER               -> TRUE

\* Lines 108-135: a new node is no host of a cached storage Deployment and
\* carries no fault label.
NewNodesOk(r) == NewNode[r] \cap cStorage = {} /\ NewNode[r] \cap FaultNodes = {}

\* Lines 137-147: an old node is a cached storage host and not a new node.
OldNodesOk(r) == OldNode[r] \subseteq cStorage /\ OldNode[r] \cap NewNode[r] = {}

\* Lines 149-157: every cached ThreeFsChainTable is Finished.
NoneProcessing == \A q \in cStored : cPhase[q] = Finished

ValidateCreateOk(r) ==
    /\ BackupNodesOk(r) /\ TypeChecksOk(r) /\ NewNodesOk(r) /\ OldNodesOk(r)
    /\ NoneProcessing

\* ValidateDelete, lines 190-197.
ValidateDeleteOk(r) == r \in DebugLabelled \/ phase[r] = Finished

Init ==
    /\ call = [r \in Requests |-> "idle"]
    /\ stored = {}
    /\ phase = [r \in Requests |-> "none"]
    /\ storage = InitStorage
    /\ cStored = stored /\ cPhase = phase /\ cStorage = storage

(***************************************************************************)
(* The user's create call: the webhook's verdict, then the API server      *)
(* persisting an allowed object.  Without concurrent clients one call is  *)
(* admitted and persisted before the next one is validated.               *)
(***************************************************************************)
ValidateCreate(r) ==
    /\ call[r] = "idle"
    /\ ConcurrentClients \/ \A q \in Requests : call[q] # "allowed"
    /\ call' = [call EXCEPT ![r] = IF ValidateCreateOk(r) THEN "allowed" ELSE "rejected"]
    /\ UNCHANGED <<stored, phase, storage, cStored, cPhase, cStorage>>

\* A Get or List of the webhook fails: failurePolicy=fail rejects the call.
ApiError(r) ==
    /\ call[r] = "idle"
    /\ call' = [call EXCEPT ![r] = "rejected"]
    /\ UNCHANGED <<stored, phase, storage, cStored, cPhase, cStorage>>

Persist(r) ==
    /\ call[r] = "allowed"
    /\ call' = [call EXCEPT ![r] = "created"]
    /\ stored' = stored \cup {r}
    /\ phase' = [phase EXCEPT ![r] = ""]
    /\ UNCHANGED <<storage, cStored, cPhase, cStorage>>

Resubmit(r) ==
    /\ call[r] = "rejected"
    /\ call' = [call EXCEPT ![r] = "idle"]
    /\ UNCHANGED <<stored, phase, storage, cStored, cPhase, cStorage>>

\* kubectl delete, admitted by ValidateDelete.  A deleted request may be
\* created again.
Delete(r) ==
    /\ r \in stored
    /\ ValidateDeleteOk(r)
    /\ stored' = stored \ {r}
    /\ call' = [call EXCEPT ![r] = "idle"]
    /\ UNCHANGED <<phase, storage, cStored, cPhase, cStorage>>

(***************************************************************************)
(* The controller (spec 4.5): it starts a create or replace request,      *)
(* deploys storage on the new nodes (the targets it then creates need     *)
(* them), and finishes by retiring the old nodes.  An unhandled error     *)
(* leaves the object Processing for the next pass.  The object's phase    *)
(* stays as it was if the object is deleted meanwhile.                     *)
(***************************************************************************)
Begin(r) ==
    /\ r \in stored /\ phase[r] = ""
    /\ Type[r] \in {"create", "replace"}
    /\ phase' = [phase EXCEPT ![r] = Processing]
    /\ UNCHANGED <<call, stored, storage, cStored, cPhase, cStorage>>

DeployNewNodes(r) ==
    /\ phase[r] = Processing /\ ~(NewNode[r] \subseteq storage)
    /\ storage' = storage \cup NewNode[r]
    /\ UNCHANGED <<call, stored, phase, cStored, cPhase, cStorage>>

Complete(r) ==
    /\ r \in stored /\ phase[r] = Processing
    /\ NewNode[r] \subseteq storage
    /\ phase' = [phase EXCEPT ![r] = Finished]
    /\ storage' = storage \ OldNode[r]
    /\ UNCHANGED <<call, stored, cStored, cPhase, cStorage>>

(***************************************************************************)
(* The manager's two informers (ThreeFsChainTables, Deployments) apply     *)
(* the watch events they have received, each on its own schedule.         *)
(***************************************************************************)
SyncTables ==
    /\ <<cStored, cPhase>> # <<stored, phase>>
    /\ cStored' = stored /\ cPhase' = phase
    /\ UNCHANGED <<live, cStorage>>

SyncDeployments ==
    /\ cStorage # storage
    /\ cStorage' = storage
    /\ UNCHANGED <<live, cStored, cPhase>>

Next ==
    \/ \E r \in Requests :
        \/ ValidateCreate(r) \/ ApiError(r) \/ Persist(r) \/ Resubmit(r)
        \/ Delete(r) \/ Begin(r) \/ DeployNewNodes(r) \/ Complete(r)
    \/ SyncTables \/ SyncDeployments

\* The controller requeues an object until it is Finished (spec 4.5) and
\* the informers keep watching, so these steps are weakly fair; the users'
\* calls are not.
Fairness ==
    /\ \A r \in Requests :
        /\ WF_vars(Begin(r)) /\ WF_vars(DeployNewNodes(r)) /\ WF_vars(Complete(r))
    /\ WF_vars(SyncTables) /\ WF_vars(SyncDeployments)

Spec == Init /\ [][Next]_vars /\ Fairness

TypeOK ==
    /\ call \in [Requests -> {"idle", "allowed", "rejected", "created"}]
    /\ stored \subseteq Requests
    /\ phase \in [Requests -> {"none", "", Processing, Finished}]
    /\ storage \subseteq UNION {InitStorage, BackupNodes, UNION {NewNode[r] : r \in Requests}}

(***************************************************************************)
(* Properties.                                                             *)
(***************************************************************************)
InFlight == {r \in Requests : phase[r] = Processing}

\* At most one request's workflow is mutating the chain table at a time:
\* ValidateCreate's list check (lines 149-157) is meant to keep a second
\* request out until the first is Finished, and ValidateDelete keeps an
\* unfinished object in place.  A workflow whose object was deleted is still
\* counted: its half-done changes remain.
AtMostOneInFlight == Cardinality(InFlight) <= 1

\* Admission never locks up: however the users' calls go, there is always a
\* later moment at which every stored request is Finished, so ValidateCreate
\* (lines 149-157) would admit a new request.  An admitted request the
\* controller never finishes (line 105 only logs an unknown type) and that
\* ValidateDelete (lines 190-197) will not delete blocks every later one.
AdmissionStaysPossible == []<>(\A q \in stored : phase[q] = Finished)

=============================================================================
