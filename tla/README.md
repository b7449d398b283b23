# TLA+ models of the kvc-3fs-operator chain-table control plane

These modules model the parts of the operator that keep a 3FS cluster's
replication topology (its *chain table*) consistent while storage nodes are
replaced or added. They also model the admission webhook that decides which
requests reach that workflow, and the FoundationDB Deployments the cluster
runs on. The modules are checked with TLC.

Each definition is translated from the Go sources under `src/`, and
`PROJECT.json` maps each one to the lines it models. There is one exception.
The controller's `Reconcile` function orders the workflow steps and moves a
request through its phases, and it is not part of the sources. That ordering
therefore follows `spec.md` §4.5 and is marked `spec_modelled` in the map.

## The system

| Part | Code | What it does |
|---|---|---|
| Process Runner | `internal/client/command.go` | `Exec`/`runCtx` start one external command. A goroutine calls `cmd.Wait` and sends the result on an unbuffered channel. `runCtx` selects between that channel, a timeout context and the caller's context. It kills the child on timeout or cancellation. After a cancellation it waits at most `maxExitTimeout` for the child to exit. |
| Administrative facade | `internal/client/admin_cli.go` | Each operation is one `admin_cli` invocation with a 10 s timeout, and each judges the output by its own rule. `update-chain` treats `TargetExisted` as success, `offline-target` treats `already offline` as success, and `create-target` and `list-*` fail on any output containing `error`. |
| Topology model and parser | `tfsct_resources.go` 55-143 | Parses the text of `list-chains`, `list-targets` and `list-nodes` into `Chain`/`Target`. Resolves a Kubernetes node name to a 3FS node id. |
| Identifier and merge engine | `tfsct_resources.go` 636-854 | A chain id is `…ddd iiiii`: disk index, then chain index. A target id is `10 nnnnn ddd ss`: node id, 1-based disk, then slot. A generated fragment is merged by adding the live per-disk maximum chain index to each of its chain ids, in three files. |
| Replace workflow | `tfsct_resources.go` 288-580 | The step helpers of a replace request run in this order. (1) Identify the chains on the old node and record `chainId@targetId` pairs in `status.processChainIds`. (2) Offline those targets and wait for OFFLINE, unless `force` is set. (3) Remove them from their chains. (4) Add the new node's targets. (5) Create the new targets with one `create-target` batch. (6) Verify that all recorded chains serve. (7) Set `executed` and `Finished`. `status.process` is the checkpoint a later pass resumes from. |
| Admission webhook | `internal/webhook/threefschaintable_webhook.go` | `ValidateCreate` checks a new `ThreeFsChainTable` against the cluster:<br>- the new nodes are on the backup node list;<br>- a create passes the size arithmetic;<br>- a replace has one old node and one new node;<br>- new nodes run no storage Deployment and carry no fault label;<br>- old nodes do run one.<br>It then lists all requests and refuses while any is not `Finished`. `ValidateDelete` refuses to delete an unfinished request unless it has the debug label. |
| FoundationDB resources | `internal/fdb/fdb_resources.go` 137-376 | `TagNodeLabel` chooses the FDB nodes: those with the FDB label and without the fault label. It records them in the cluster status. `CreateFdbConfigIfNotExist` creates the ConfigMap that holds the connection string. `CreateDeployIfNotExist` makes the FDB Deployments match the chosen nodes: it creates missing ones up to `ClusterSize`, deletes those on nodes no longer chosen, and deletes any surplus. `InitFdbCluster` (`internal/client/fdbcli.go`) then creates the database through `fdbcli` and chooses its coordinators. |
| Create workflow, ClickHouse, native resources | other files | See "Not modelled". |

The parts interact as follows:
- The webhook decides which requests reach the workflow. Its check that no other request is unfinished is what keeps two workflows off one chain table.
- Within a reconciliation pass, calls go in one direction. The workflow calls the facade, the facade runs `admin_cli` through the Process Runner, and the parser decodes its output.
- During a grow, the merge engine renumbers a fragment before it is uploaded.
- Every pass re-reads the live chain table.

## Modules

### `ChainReplace` (+ `MC_ChainReplace`): the replace workflow

**State.**
- The management service's view: `chainTargets`, `tstate`, `created`, `offlined` and `registered`.
- The request object: `force`, `phase`, `process`, `processChainIds` and `executed`.
- `faults` bounds the number of faults a behaviour may contain.

**Abstractions.** A target id is `<<node, chain>>`. The real digit string is
checked separately in `TargetIdRewrite`. The constant nodes are Old, New and
Other, where Other holds each chain's surviving replica.

**Actions.** Each controller action is one reconciliation pass of one step.

| Action | Code it models |
|---|---|
| `Start` | the request moves to `Processing` |
| `Identify` | `ListChains`, then `GetChainTablesWithNode`, `HandleProcessChains` and `UpdateProcessChains`; it records the working set |
| `OfflineTargetRelatedNode` | the offline calls, then the wait (`CheckChainTargetWithNodeStatus`) |
| `DeleteTargetRelatedNode` | removes the old targets from their chains |
| `AddTargetRelatedNode` | adds the new targets to the chains |
| `CreateTarget` | `CreateTargetTmpFile` and `AdminCliConfig.CreateTarget` |
| `Verify` | `GetChainTablesWithChainIdTargetId`, `CheckChainWithStatus`, then `UpdateExecTag`/`UpdatePhase` |

`ListChainsOk` is the outcome of `AdminCliConfig.ListChains`, the first call
of `Identify`.

**Faults.** A pass may meet one of these faults:
- A `list-nodes` or `list-chains` call fails, so the node-id lookup or the identification fails.
- An admin call fails or times out part-way through a loop. Any subset of that loop's calls may have been applied.
- A status patch fails. This has the same effect as a controller crash after the calls.

The helpers' early `return nil` on a failed lookup is kept exactly.

**Environment.**
- The management service applies offline requests (`ApplyOffline`).
- A created target in a chain syncs and then serves (`SyncTarget`, `ServeTarget`).
- The new node may register late (`RegisterNewNode`).

### `AbstractReplace`: what a replace promises

This module states a replace request chain by chain. It has no admin calls,
no checkpoints and no faults. The request records the chains that hold the old
node's replica. A recorded chain gives up that replica only once the replica is
offline, or at once if the request is forced. Only then does the chain take the
new node's replica. The request is `Finished` only when every recorded chain
holds a serving new replica and no longer holds the old one.

`ChainReplace` defines `Abstract == INSTANCE AbstractReplace WITH …`. The
refinement mapping relates the abstract variables to ChainReplace's state:

| `AbstractReplace` | `ChainReplace` |
|---|---|
| `working` | the chains in `processChainIds` |
| `holdsOld` | chains whose `chainTargets` include the old node's target |
| `holdsNew` | chains whose `chainTargets` include the new node's target |
| `serving` | chains whose new-node target is `Serving` |
| `oldOffline` | chains whose old-node target is `Offline` |

`replace_safe` checks `ImplementsAbstractReplace == Abstract!Spec` as a
property. A partial admin loop maps to one abstract step over a set of chains.

### `ProcessRunner`: `CommandRunner.Exec`/`runCtx`

This module has three actors:
- the runner, whose control points are start, select, drain and returned;
- the waiter goroutine, which goes through wait, a rendezvous send on `done`, and done;
- the child process, which is running, exited, killing or killed.

The timers and the caller's cancellation are variables, each set by an action.
Go's select may take any ready case, so every order is explored. `Kill` fails
with `os.ErrProcessDone` once `Wait` has reaped the child.

### `ChainIdMerge` (+ `MC_ChainIdMerge`): the merge

This module translates these functions:
- `ParseChainId`;
- `ParseMaxChainIdForEachDisk`;
- the three `Update*File` functions;
- `UpdateChainIdWithExistingChain`.

The files are abstracted to the chain ids they carry. A single action reads
any live table and any fragment and performs the whole merge.

### `ChainTableParse`: the `list-chains` parser

`ParseChain` and `ParseChainTable` (`tfsct_resources.go` 55-99) are pure
operators. An output is a sequence of lines, and a line is the sequence of its
`strings.Fields`. A field is a record: a number, a word, or a target field
that matched `^(\d+)\((\S+-\S+)\)$`. The header line and empty lines are
skipped, and so is a line with a field after the fifth that is not a target.
`MC_Identifiers` composes it with the merge. The live chain table is read by
parsing a `list-chains` output (a header, optionally a diagnostic line, the
chain lines and the trailing empty line). A line of only whitespace, or one
of fewer than five fields, would make `ParseChain` panic, so no output
contains one.

### `TargetIdRewrite` (+ `MC_TargetIdRewrite`): target-id arithmetic

Ids are digit sequences, and these pieces of the code map to operators:

| Code | Operator |
|---|---|
| `Itoa`, `Atoi` | RECURSIVE operators of the same names |
| `strings.Replace(…, 1)` | `ReplaceFirstSubSeq`, from SequencesExt |
| node filter `id[2:7] == Itoa(nodeId)` | `OnNodeId` |
| create-target disk index `Atoi(id[7:10]) - 1` | `CreateTargetDiskIndex` |

### `MC_Identifiers`: the two identifier modules together

This module composes `ChainIdMerge` and `TargetIdRewrite` through `INSTANCE`.
A merge and a rewrite are each an interleaved step. Both modules' invariants
are checked in one run. The merge reads its live table through
`ChainTableParse`. The header line is kept out twice over: it is line 0, and
its sixth field is a column name, not a target, so `ParseChain` rejects it.

### `ChainTableAdmission` (+ `MC_ChainTableAdmission`): the webhook

**State.**
- Each request's create call: `idle`, `allowed`, `rejected` or `created`.
- The stored request objects.
- Each request's `status.phase`.
- The hosts of the storage Deployments.
- The webhook's view of the request objects, their phases and the storage
  Deployments. The validator's client is `mgr.GetClient()` (line 44), whose
  List reads the manager's informer cache, so every check of `ValidateCreate`
  reads this copy, not the stored state.

**Actions.**
- `ValidateCreate` is the webhook's verdict. It is the conjunction of one operator per check:
  - `BackupNodesOk`;
  - `TypeChecksOk`, which uses `CreateSizeOk` and `AddSize`;
  - `NewNodesOk`;
  - `OldNodesOk`;
  - `NoneProcessing`.
- `ApiError` is a failed Get or List. `failurePolicy=fail` turns it into a rejection.
- `Persist` is the API server storing an allowed object.
- `Resubmit` is a user submitting a rejected request again.
- `Delete` is a deletion, admitted by `ValidateDeleteOk`.
- `Begin`, `DeployNewNodes` and `Complete` are the controller, from spec §4.5. `Begin` moves a create or replace request to `Processing`. `DeployNewNodes` runs storage on the new nodes, which the targets it creates need. `Complete` requires that storage, retires the old nodes and moves the request to `Finished`.
- `SyncTables` and `SyncDeployments` are the two informers applying the watch events they have received, each on its own schedule.

**Concurrency.** The constant `ConcurrentClients` says whether a second create
call may be validated while an allowed call is not yet persisted. Both runs
set it to `FALSE`: the cache alone is enough for the race.

### `FdbDeploys` (+ `MC_FdbDeploys`): the FDB Deployments

**State.**
- The fault-labelled nodes.
- The chosen nodes (`status.nodesInfo.fdbNodes`).
- Whether the ConfigMap exists.
- The nodes that have an FDB Deployment. A Deployment is named
  `GetFdbDeployName(name)-TranslatePlainNodeNameValid(node)` and is found by
  that name (`DeployName`, `HasDeploy`).
- Whether the cluster object is being deleted.
- The fault and label-change counters.

**Actions.** Each helper is one action:
- `TagNodeLabel`. Its status patch may fail.
- `CreateFdbConfigIfNotExist`. Its node Get or its Create may fail.
- `CreateDeployIfNotExist`. `DeployCalls` computes a pass as the sequence of Create and Delete calls the code makes, using `ExistingDeploy`, `CreateLoop`, `OutsideDeletes` and `InNodeDeletes`.
  - Either List may fail. The failure is only logged, and the pass keeps the list it had, which may be empty.
  - A failed Get, Create or Delete ends the pass, so only a prefix of the calls (`Apply`) takes effect.
- `DeleteDeployIfExist`. It visits the chosen nodes and treats NotFound as done. A failed Get or Delete ends the pass (`RemoveDeploys`).
- `DeleteFdbConfigIfExist`. NotFound is success, and a failed Get or Delete returns.

The controller that calls these helpers is not in the sources. The model
assumes the usual finalizer order: after the cluster object is deleted
(`StartDelete`), only the two delete helpers run.

**Environment.** An operator sets and clears fault labels (`SetFault`,
`ClearFault`), never leaving fewer than `ClusterSize` healthy nodes.

### `FdbInit`: `InitFdbCluster`

**State.**
- `db`: the database's redundancy mode, or `"none"`.
- `coords`: whether `coordinators auto` has applied.
- `result`: what the last call returned.
- `inits`: the number of calls, capped by `MaxInits`.

**Actions.** `InitFdbCluster` is a single action, and its three `fdbcli`
calls are sets of outcomes:
- `CheckAvailable` says whether `status minimal` reported the database
  available. Its error is ignored, as in the code.
- `CreateNewDb` may fail without effect or time out after applying. On an
  existing database it prints `Database already exists`. `ModeOf` is its
  redundancy map.
- `ConfigureCoordinator` behaves the same way.

An unreachable cluster fails every call. `MC_FdbDeploys` runs `InitFdbCluster`
beside the deploy controller, and the cluster is reachable once the ConfigMap
and an FDB Deployment exist. No code in the sources calls `InitFdbCluster`, so
the model lets it be called any number of times up to `MaxInits`, at any
moment.

No property is checked of `FdbInit` alone. That a nil return means a
configured database with coordinators follows from the function's shape: nil
comes only after `ConfigureCoordinator` succeeds on an existing database. What
a retry after a timeout must do depends on a caller the sources do not have.

## Runs

| Run | Expect | What it shows |
|---|---|---|
| `replace_safe` | pass | A behaviour may contain up to 3 faults: admin calls that fail or time out part-way, and failed status patches. Under those faults:<br>- the request still reaches Finished;<br>- no old target leaves a chain before it reports OFFLINE, unless `force` is set;<br>- at Finished, every recorded chain holds the new node's target, which exists and serves;<br>- the workflow implements `AbstractReplace`. |
| `replace_faults` | pass | The removal guard holds under every fault kind, including a flaky `list-nodes` and a node that registers late. This run uses symmetry over chains. |
| `replace_late_register` | violation | **Finding.** `AddTargetRelatedNode` returns nil when the new node has not registered. The request then finishes although its chains never got the new targets. |
| `replace_dup_create` | violation | **Finding.** A retried `create-target` batch fails on the targets that already exist, and the request is stuck. Spec §8 expects a repeated create to succeed. |
| `runner_safe` | pass | `runCtx` always returns, and never returns while the child is running. |
| `runner_goroutine_leak` | violation | **Finding.** After a timeout the waiter goroutine blocks forever on its send. |
| `identifiers_safe` | pass | A fragment numbered from 1 merges without collisions, every chain keeps its disk, and the three files agree. For the node ids checked, the replacement target id names the new node and keeps the disk and slot. |
| `merge_zero_index` | violation | **Finding.** A fragment numbered from 0, as in spec §8, collides with the live per-disk maximum. |
| `target_rewrite_large_node` | violation | **Finding.** With old node 10101, `strings.Replace` rewrites the id's prefix, not the node field. |
| `admission_unknown_type` | violation | **Finding.** A request of an unknown type (line 105 only logs it) is admitted, never processed and cannot be deleted, so from then on every create is refused: `AdmissionStaysPossible` fails. |
| `admission_race` | violation | **Finding.** Create calls come one at a time, yet the second is validated against an informer cache that does not yet hold the first request. Both pass the list check, so two replace workflows run at once. |
| `fdb_safe` | pass | `InitFdbCluster` is called up to twice while the cluster is still being built, with every outcome of its three `fdbcli` calls. Once the cluster is deleted, retried teardown passes remove the ConfigMap and every Deployment on a chosen node. Lists, Creates and Deletes fail, and fault labels change. A pass that deletes an FDB Deployment on a chosen node still leaves `ClusterSize` of them there. Once faults stop, the chosen nodes follow the labels and keep at least `ClusterSize` Deployments for good. |

TLC is given at most 12 runs, so five known violations have no run of their
own. Each is recorded as a hazard in `PROJECT.json`.

| Property | Module | Setting | Cause |
|---|---|---|---|
| `CleanExitReported` | `ProcessRunner` | `Timeout: 0`, as in `TestCommandRunner_Exec` | A clean exit is reported as an error. |
| `EventuallyFinished` | `ChainReplace` | a flaky `list-nodes` | `DeleteTargetRelatedNode` skips the removal. |
| `DeploysConverge` | `FdbDeploys` | the `fdb_safe` constants | The early return at `fdb_resources.go:311` skips the deletion of Deployments outside the chosen nodes whenever `ClusterSize` Deployments already run on chosen nodes. A Deployment left on a node labelled faulty by a failed pass is then never removed. |
| `NoDeployLeftAfterTeardown` | `FdbDeploys` | the `fdb_safe` constants | `DeleteDeployIfExist` visits only the chosen nodes, so that same leftover Deployment outlives teardown. |
| `EventuallyEnough` | `FdbDeploys` | node names `n-1` and `n.1` | `TranslatePlainNodeNameValid` gives both nodes one Deployment name. The create loop then finds the first node's Deployment when it looks for the second node's, and creates none for it. |

Every property of a passing run has a mutant in `PROJECT.json`. A mutant is a
plausible bug in the mapped code. When the bug is substituted, TLC finds the
property violated. Type invariants are checked only where a mutant of the code
can break them.

## Bounds

- **ChainReplace** has two chains and three nodes. The three nodes are the old one, the new one and the surviving replica. Two chains are enough for:
  - a partial loop, with one call applied and one not;
  - the per-target counting of the wait check.

  Up to 3 faults allow a fault before or inside each of several steps. Every step has at most one admin loop, so longer fault sequences only repeat these states.
- **ProcessRunner** is finite without bounds.
- **ChainIdMerge** (`merge_zero_index`) has two disks. Live indexes come from {1,2,3} and fragment indexes from {0,1}, with every subset taken.
- **MC_Identifiers**, merge part: disks {0,1}, live indexes {1,3} and fragment indexes {1,2}, with every subset taken. This covers a disk absent from the live table, a gap in the live indexes, and a fragment on both disks.
- **MC_Identifiers**, rewrite part: node ids 10001, 10002, 10010, 10011 and 10020, disks {1,3} and slots {1,19}. Some of these node ids share digits with a disk or slot field.
- **TargetIdRewrite_large_node** adds ids around 10100.
- **ChainTableAdmission** has five requests over seven nodes, in both runs:
  - `r1` (a→d) and `r2` (b→d) are two replaces with the same new node, so either one finishing invalidates the other;
  - `r3` is a create of three backup nodes, d among them;
  - `r4` is a delete, which is always refused;
  - `r5` is a request of an unknown type.

  One backup node is fault-labelled. A user may resubmit a rejected request, and a Finished request may be deleted and created again.
- **FdbDeploys** has four FDB nodes, `ClusterSize` 3 and `StorageReplicas` 2. That is the smallest `ClusterSize` the `2*replicas-1` check allows, with one node to spare. A behaviour has up to two label changes and two failed calls. One failed List and one failed call are enough for either of these:
  - a Deployment is left on a node labelled faulty;
  - a pass creates a Deployment on every chosen node and then deletes the surplus.

  The node names `n-1`, `n.2`, `n_3` and `nx4` contain both characters that
  `TranslatePlainNodeNameValid` rewrites (`.` and `_`), and their Deployment
  names `n-1`, `n-2`, `n-3` and `nx4` still differ. In byte order
  (`-` < `.` < `_` < `x`) both the node names and the Deployment names sort
  as the node numbers do, so listing in number order is listing in name
  order, as the API server does.

  `ReplicaNum` is 3 and `MaxInits` is 2. A second call is what meets the
  state left by a first call that timed out after applying.

## Fairness

**ChainReplace.**
- Weak fairness on every controller step is justified: controller-runtime requeues a failed or unchanged pass with backoff.
- Weak fairness on the management-service actions (applying an offline, syncing, serving, node registration) is an assumption about the external services.
- Faults are bounded, so eventually passes succeed.

**FdbDeploys.**
- Weak fairness on each of the three helpers is justified: the cluster controller calls them on every pass and requeues.
- Weak fairness on the two delete helpers assumes that a deleted cluster object is requeued until teardown succeeds, as a finalizer is.
- Label changes and failures are bounded, so they eventually stop.
- Each liveness property takes about 36 s to check, most of it on the fairness conditions.

**ChainTableAdmission.**
- Weak fairness on `Begin`, `DeployNewNodes` and `Complete` is justified: the controller requeues a request until it is `Finished` (spec §4.5).
- Weak fairness on the two informer steps is justified: the informers keep watching.
- The users' calls get no fairness.

**ProcessRunner.** Only the Go scheduler and the timers are fair. Nothing else is assumed:
- a child need not exit;
- a SIGKILLed child need not be reaped promptly, for example in D-state or while a grandchild holds the output pipe;
- a caller need not cancel.

## Not modelled

- **The create (grow) workflow.** The `Reconcile` code that would sequence it is not in the sources. Its helpers have no caller there: `AllocateNodeId`, `ParseStartNodeId`, `CreateDataPlacementRule`, `NewThreeFsChainTable`, `CreateTargetRelatedNode` and `MergeCSVFiles`. So neither the order of their calls nor the concurrent `AllocateNodeId` race of spec §9 can be taken from the code. The merge arithmetic the workflow uses is modelled in `ChainIdMerge`.
- **Parsing failures.** Spec §4.3 and §7 make skipping malformed lines a design choice. The models read the tables correctly.
- **Node ids narrower than 5 digits.** Storage node ids start at a 5-digit constant outside the sources.
- **`ValidateUpdate`.** It refuses any change of spec, and the models never change one.
- **The FDB object builders (`WithDeploy*`, `CheckResources`), `GetRemoteConfigContentBak` and the `fdbcli` status readers.** The builders assemble objects, and `GetRemoteConfigContentBak` has no caller. `GetFdbDetails`, `GetRemoteConfigContent` and `ParseStatusOutput` only fetch and decode JSON.
- **`ParseTargets`, `ParseNodeTable` and the `ThreeFsChainTable` types.** `ChainReplace` reads targets and nodes correctly. The types are plain data.
- **ClickHouse, the native resource builders and the utils helpers.** They construct Kubernetes objects or transform strings. They have no concurrency and no state machine of their own. Spec §1 puts them out of scope.

`PROJECT.json` lists each of these as a component or a hazard, with the reason.
