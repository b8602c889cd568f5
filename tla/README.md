# A TLA+ development of acmlab

`acmlab` is a Go CLI and MCP server that drives Red Hat ACM as a
cluster-as-a-service: it provisions, pools, hibernates, scales, imports,
decommissions and shares clusters by creating and patching objects of a hub.
This directory holds TLA+ modules of the parts of it where several callers,
goroutines, failures and retries meet, the TLC configurations that check them on
small instances, and the TLAPS proofs of their most important properties for
every instance.

    tlc -workers 2 -config MCManualPool_claims.cfg MCManualPool.tla
    tlapm ManualPoolProofs.tla

`PROJECT.json` lists the components, runs, mutants, the source lines of every
definition, the findings, the hazards and the theorems.

## 1. The system

Every component is a Go package under `internal/` with a `Manager` over one
client wrapper (`internal/client`). The managers keep next to no state of their
own: what they know is in the hub's objects, which several CLI processes, MCP
sessions and goroutines read and patch without locks. Only `gpu` keeps state in
memory, behind a mutex, and only `batch`, `pool`, `gpu` and CAPI provisioning are
concurrent inside one process. So the hard behaviours are these:

* a decision made from a Get or a List and carried out by a later patch;
* calls that stop half-way: an API error, a timeout, a process that ends;
* retries, which ADR-006 promises to be safe everywhere;
* goroutines that outlive the call that started them;
* replies that are lost after the call was applied.

| Component | State | Operations | Talks to | Correct when |
|---|---|---|---|---|
| manual pool (`pool/manual.go`) | labels and power state of ClusterDeployments; a ConfigMap | create, wait, claim, release, list, delete; replenish goroutine | provisioning, lifecycle (calls) | no cluster has two holders; what is announced can be claimed; replacements arrive; nothing is left over |
| GPU requests (`gpu/request.go`, `routing.go`) | map of requests under a mutex; a temporary Placement per routing | submit, retry, cancel, start, complete; best-cluster routing | placement controller (objects) | one admission per request, told once and kept; calls return; no Placement is left |
| lifecycle, CAPI half (`lifecycle/lifecycle.go`) | replicas and annotation of MachineDeployments | hibernate, resume, power state | scaling (shared objects) | a resume restores what hibernation took; success means done |
| batch (`batch/batch.go`) | goroutines, semaphore, channel, results | execute | every bulk command (callbacks) | bounded, no panic, no deadlock, complete results |
| Hive provisioning (`provisioning/provisioning.go`) | namespace, secrets, ClusterDeployment, ManagedCluster, add-on config | create, destroy, wait | Hive (objects), IBM IAM | a retry completes what failed; a destroy leaves nothing |
| CAPI provisioning (`provisioning/capi.go`) | CAPI objects, auto-import secret | create, destroy; auto-import goroutine | CAPI, import controller | the goroutine does not act for a cluster that is gone |
| decommission (`decommission/`) | phase and history in a ConfigMap | start, advance, cancel, delete, cleanup | ManagedCluster, ClusterDeployment | phases in order, none passed over, none undone |
| scaling (`scaling/scaling.go`) | replicas or autoscaling of a MachinePool, NodePool, MachineDeployment | set, autoscale | lifecycle (shared objects) | never both replicas and autoscaling |
| curators (`lifecycle/curator.go`, `upgrade/upgrade.go`) | one ClusterCurator per cluster | apply, update | each other (shared object) | the last caller's curator stands |
| post-resume recovery (`lifecycle/recovery.go`) | CSRs of the spoke | up to three approval rounds | spoke | every expired certificate is approved |
| reclamation (`reclamation/`) | TTL labels | set, extend, list, reclaim | lifecycle | an extended cluster is not reclaimed |
| migration, recovery (`migration/`, `recovery/`) | plan ConfigMap, ManifestWorks, ApplicationSet | plan, execute, roll back; enable, fail over, disable | spokes (objects) | phase and ManifestWorks agree |
| importing (`importing/`) | ManagedCluster, auto-import secret | import, detach, wait | import controller | a repeated import changes nothing |
| Submariner (`submariner/`) | add-on and config per cluster of a set | enable, disable, repair | add-on controllers | CIDRs do not overlap and do not move |
| policies, security, tenants, registry | policies with placements and bindings, ManifestWorks | apply, remove, scan | policy framework (objects) | no binding dangles; a removal that succeeds leaves nothing but what is listed |
| observability, identity, access, GitOps, add-ons, backup | operators' resources, ConfigMaps that several callers edit | set up, configure, tear down | operators (objects) | repetition succeeds; what was asked for is there |
| GPU stack, cost, rightsizing, virtualization, fleet, discovery | labels and taints of clusters, ManifestWorks, policies | deploy, stamp, taint, import, remove | spokes (objects) | as above |
| CLI, MCP server | none | one command or tool for each operation, with its own checks before and after | all of them | the same operation by either is the same |

## 2. The modules

| Module | Models | Abstract specification |
|---|---|---|
| `ManualPool` | the manual pool, with the parts of provisioning and of Hive lifecycle it calls | `PoolLease` |
| `GpuRequests` | GPU requests and their routing | `RequestLifecycle` |
| `CapiPower` | hibernation, resume and scaling of one CAPI cluster | - |
| `BatchExecute` | `batch.Execute` | - |
| `Decommission` | the decommission workflow of one cluster | - |
| `HubSteps` | the calls of `internal/client`, as the steps of an operation | - |
| `Hub` | callers that run, overlap, fail, are killed and repeat | - |
| `ProvisioningOps`, `ClusterOps`, `NetworkOps`, `GovernanceOps`, `PlatformOps`, `WorkloadOps` | the operations of every package that writes to the hub, in steps | - |
| `Commands`, `Tools` | what each command of the CLI and each tool of the MCP server runs | - |
| `Globalnet` | the global CIDRs that Submariner's Enable hands out | - |
| `MC*` | the small instances | |
| `*Proofs` | the theorems of the module of that name; `PoolLeaseProofs` has those of `ManualPool` beyond types and exclusive claims | |

### ManualPool

The state is the hub: `exists`, `pooled`, `claimed` and `hib` are the sets of
clusters that have a ClusterDeployment, its two labels and its power state;
`installed` those whose status says that they are installed, which the waits read
(`parseClusterInfo`), `specInstalled` those with `spec.installed`, which
`ListManualPool` reads; `config` is the pool's ConfigMap. `job[p]` is where
each caller or goroutine stands (operation, next call, current cluster, clusters
of its list still to do). `fresh` holds the callers whose last Get still has the
current resourceVersion: every write to a cluster takes the others out of it,
which is all the claim's precondition sees of versions. `holds` is what callers
were given: a ghost, used by guards only to let a caller release what it holds.

| Code | Actions |
|---|---|
| `ClaimManualPool`, `tryAtomicClaim` | `StartClaim`, `ClaimSkip`, `ClaimRead`, `TryAtomicClaim`, `ClaimConflict`, `Resume`, `ClaimNone` |
| `ReleaseManualClaim`, `setClaimLabel` | `StartRelease`, `Hibernate`, `Unclaim` |
| `CreateManualPool`, `labelPoolCluster`, `provisioning.Create` | `StartCreate`, `Provision`, `Label` |
| `WaitManualPoolReady`, `WaitForProvision` | `StartWait`, `Await`, `Hibernate` |
| `replenishPool` | `ReturnClaim` starts it, `Load`, `Provision`, `Label`, `Await`, `Hibernate` |
| `DeleteManualPool`, `provisioning.Destroy` | `StartDelete`, `Destroy`, `DropConfig` |
| `ListManualPool` | the operator `ListManualPool` |
| errors, lost replies, a stopped process | `Fail`, `ClaimConflict`, `LoseClaimReply`, `LoseReleaseReply`, `Crash` |
| Hive | `Install`, `SpecInstall`, `StatusWrite` |

`lifecycle.Hibernate` and `Resume` read the power state and patch when it
differs. Nothing is decided from the read but whether to patch, and the patch
sets one field, so the pair is one step. A claim visits the clusters of its list
in any order; the code uses the list's. A goroutine has the name of its cluster:
the random suffixes are taken to be distinct. The label selector is `Listed`.
The final wait for the power state of a replacement only reads. The code fixes no
order of Hive's writes of status and spec, so either may come first or alone.
A release is of a cluster its caller holds: releasing someone else's claim is
possible (the operation only takes a name) and is not what the pool is for.

### GpuRequests

`state`, `cluster`, `reason` are the map of requests. A submission or a retry is
two critical sections with the routing in between: `SubmitRequest` or
`RetryRequest`, then `CreatePlacement` or `CreateFails`, `ReadDecision` or
`PollEnds`, `Cleanup`, and one of `AnswerMoved`, `Admit`, `KeepPending`,
`RoutingError`. `Decide` is the placement controller, which may change its
decision; `Expire` and `CancelContext` are the operation's timeout and the
caller's context, at any point of the routing. A context that ends while the Create
is on its way leaves it applied or not: the code has not deferred its delete yet, so
`CreateFails` may leave the Placement, and `stray` tells which call did, that create
or a delete that failed. `granted` records the answers
given; `may` fixes in the initial state which faults a behaviour meets, so that
a property can speak of behaviours without a given fault. Validation of the
arguments, timestamps and the random names of Placements are left out; the names
are taken to be distinct.

### CapiPower

`replicas` and `saved` are `spec.replicas` and the pre-hibernate annotation of
the MachineDeployments of one cluster. `HibernateCAPI` and `ResumeCAPI` list
once and then patch one by one from what they saw: `StartHibernate`,
`PatchDown`, `Slept`; `StartResume`, `PatchUp`, `Woke`; `Abort` is a patch that
fails, and `Patched` lets a patch be applied and its reply be lost. `Scale` is
`SetMachineDeploymentReplicas`, which patches the first MachineDeployment found.
Two ghosts carry the properties: `alone` says that no conflicting patch came
since the call's list, `before` what a MachineDeployment had when hibernation
took it to 0. A 0 in `saved` stands for no annotation, or one that does not parse
to a positive number: the code treats them alike.

### BatchExecute

`pc[i]` is the goroutine of item i, `sem` and `lines` the two channels, `main`
and `printer` the other goroutines. The order of the deferred calls (the token is
given back, then the wait group is lowered) is that of the code.

### Decommission

`uid` and `cm` are the workflow's ConfigMap, with the phases as their places in
`phaseOrder`, the two records of evidence (`notifiedAt`, `backupPath`), whether
there is an audit report, and the history; `hub` is what the hub holds of the
cluster. `job[p]` is where a command is, the ConfigMap it began with, its target
and the state it will write. A command is a CLI process of its own: it may fail at
any call or be killed there (`Fail`).

| Code | Actions |
|---|---|
| `Start` | `Start`, `createState`, `Audit`, `SaveAudit` |
| `Advance` | `Advance`, then `Notify` or `Backup`, `Reread`, `Save`; nothing where `Refused` |
| `Cleanup`, run by `Advance` in phase deleted | `DeleteWorks`, `DeleteManaged`, `DeleteNamespace` |
| `Cancel` | `Cancel` |
| `getState`, `setState` | the guards `uid # 0`, `setState` |

Nothing in this version records the evidence that Notify and Backup ask for, nor
leaves a workflow deleted: only workflows of a previous version get further. `Left`
says in which phases it may have left one, and `Legacy` with which evidence: any, or
none, as in the workflows the tests persist (`decommission_test.go`), but for evidence
that only a later phase would have recorded. `mixed` and `born` are ghosts: a command
that outlived the workflow it began with wrote to the present one; the phase the first
workflow was left in; `From` is that phase, or the first one for a workflow of this
version. Owners, deadlines and the audit's content are left out.

### Hub and the operations

Most packages share one shape: an operation is a fixed sequence of calls on the
objects of the hub, some of them skipped by a branch or allowed to fail. So there
is one state machine, `Hub`, and the operations are data. `HubSteps` has one
constructor for each kind of call the code makes, and the distinctions are those
the code makes between the ways it reads, writes and treats errors:

| Step | Code |
|---|---|
| `Look`, `List`, `Refuse`, `QuitUnless` | a Get or List whose error, whose finding, or whose NotFound ends the operation |
| `Create`, `Delete` | the plain call: AlreadyExists and NotFound are errors |
| `Ensure`, `Purge`, `Admit` | `CreateIfNotExists` (a Get, then a Create), `DeleteIfExists`, a Create that takes AlreadyExists for success |
| `Update`, `Patch`, `Apply`, `Upsert` | Get and Update with its resourceVersion; a merge patch; Get, then Create or Update; Create, then Get and Update |
| `Replace`, `Merge`, `Amend`, `Rewrite`, `Prune`, `Settle` | writes of something read earlier over whatever is there now, one form for each way the code does it |
| `Try`, `Blind`, `Unsure`, `Warned`, `Undoing` | the error is dropped; any error counts as NotFound; any other error counts as found; a part that only warns; what a failed attempt deletes again |
| `Unless`, `When`, `IfThere` | branches on a Get |

The calls of one step are steps of their own: `Get`, `CreateCall`, `UpdateCall`,
`MergeConflict` (the write of a merge that meets another's), `PatchCall`,
`DeleteCall`, `Pass`, `Undo`. `Fault` is a call that is refused, `Succeed` includes
the call that is applied and whose answer is lost, `Kill` a process that ends. A
failed or killed caller begins again. `hub` maps each object to the fields set on it
that a later operation looks for, the phase of a migration's plan among them, which
each step that writes a phase sets and whose others it clears. A `Pair` is a setup and
the teardown of the same thing, with what the hub holds before, what each object
refers to, and what the teardown is known to leave; `kept` is read off the code and is
as much a statement as the properties are. `Fixed` are the fields that a step sets and
no step of the operation clears, `HasLastWord` says that what a step sets no later one
takes back. `HubAssumption` (`InOrder`, `Lasting`) and `Undoes` are conditions on what
the operations say, from which the proofs of section 4 start. First every caller sets
up, then (`Turn`) every caller tears down. `MCHub` pairs the commands and the tools,
so that one side runs as the CLI does it and the other as the server does.

`Mine` stands for a caller's own entry in a list that all callers edit. Names,
contents and rendering are left out: what two objects of one name hold is the same.

### Globalnet

`members` is the set's label on the clusters, `config` the CIDR in each
SubmarinerConfig, `plan` the list a caller took and its `--globalnet`. `Enable`,
`Prepare`, `GetConfig` (or `Misread`: any error is taken for NotFound),
`UpdateConfig`, `CheckConfig` and `CreateConfig`, `Label` are the turns of the loop
of `Enable`; `Disable`, `Unconfigure`, `Cleanup` those of `Disable`. `Join` and
`Leave` shift the indices. `fresh` holds whose Get still has the resourceVersion,
and `clean`, a history variable, who has listed what is still the set without a
failed Get and was not crossed by a call with another plan.

## 3. The runs

| Run | Instance | Question |
|---|---|---|
| `claims` | 2 callers, 2 clusters, 1 goroutine; errors, crashes | `TypeOK`, `ExclusiveClaim`, its inductive form `ClaimInv`, `LeaseSpec`, `ClaimTakesStandby`, `NoStrayCluster` |
| `fair` | 2 callers, 1 cluster, 1 goroutine; lost replies; fairness | `StandbyIsClaimable`, `ReplacementReady`, `OperationsReturn` |
| `recreate` (violated) | create and wait may be repeated | ADR-006: every operation may be retried |
| `rewait` (violated) | wait may be repeated; no faults | `NoForeignHibernate`. ADR-006: operations can be called again without side effects |
| `requests` | 1 request, 2 callers, 2 clusters; all faults; fairness | `TypeOK`, `AdmittedOnce`, `GrantStands`, `PlacementDeleted`, `LifecycleSpec`, `CallsReturn` |
| `power` | 2 callers, 2 MachineDeployments, up to 2 replicas; errors, lost replies | `Remembered`, `PowerInv`, `RestoresCount`, `SuccessIsSleep`, `SuccessIsAwake` |
| `execute` | 3 items, concurrency -1, 0, 2 and 21; fairness | `TypeOK`, `Bounded`, `NoSendOnClosed`, `SendNeverBlocks`, `ReturnsAll`, `Terminates` |
| `workflow` | 3 callers, 2 workflows, all legacy phases with and without evidence | `TypeOK`, `EvidenceForPhase`, `HistoryTells`, `KeptUnlessDeleted`, `PhaseForward` |
| `unaudited` (violated) | 1 caller, 1 workflow | ADR-008: a workflow resumes from its last completed step |
| `operations` | 67 pairs of operations, each with 2 callers and 2 faults; fairness | `TypeOK`, `NoDangling`, `SetupComplete`, `LastWord`, `TeardownComplete`, `Converges` |
| `repeated` (violated) | `provision create` for Hive on AWS, 1 caller, 1 fault; fairness | ADR-006: failed commands can be retried without cleanup |
| `globalnet` | 2 clusters, 2 callers | `TypeOK`, `DistinctCIDRs` |

**Bounds.** Two callers are enough for every race of the modelled code: each
conflict is between one reader and one writer, and the claim adds a third actor,
the goroutine. Two initial clusters let a claim lose one and win the other, and a
wait be at one while the other is claimed; where the property is about one cluster
the run has one. `Spare` bounds the goroutines by the names it has; a claim that
finds none left starts none. `called` and `Retried` bound create and wait to one
call each unless a run allows more, because they are setup commands whose repetition
is a question of its own (`recreate`, `rewait`). Requests of different ids share only the
mutex, so one id suffices. `MaxReplicas` = 2 tells 0, the default and another
count apart. Three items exceed a concurrency of 2. `Clamp`'s bound of 20 is in the
operator but is not reached with three items, which clamp it first.
`claims` uses symmetry of callers, of the pool's clusters and of goroutines, and the
view `Observed`: nothing but `ListManualPool` reads `specInstalled`, and no property of
that run calls it. `fair`, which has liveness and `StandbyIsClaimable`, uses neither.
Deadlock is not checked in `requests` and `execute`: a
behaviour may end there with everything done. In `workflow`, two workflows let a
command outlive its own and meet the next, and three callers let one do so while
two others race; the callers are symmetric. Behaviours end there when every
workflow allowed has been made, so deadlock is not checked.

In `operations`, two callers meet in every order of their calls, and two faults
let a retry fail as well, or the answer of one caller be lost while the other is
killed; a third caller would add no new reader or writer of an object, since each
conflict is between one read and one write. The pairs are independent of one
another: a behaviour has one of them. A loop over several objects has two. The
names in `MCOneShot` are excepted from `Converges`, and only from it: operations
that report an error when what they remove is not there (`Destroy`, `Detach`,
`ReleaseClaim`, a removal of a mirror, an identity provider, a taint...), a
creation that refuses what an earlier attempt made (`Preflight`, `InitMachinePool`),
and a connectivity test whose cleanup deletes the objects of another one.
`globalnet` has no bound but its two clusters and two callers, which may repeat
Enable and Disable for ever: with two clusters, one that joins or leaves shifts the
index of the other. Deadlock is not checked in `operations` and `repeated`, where
everything ends.

**Fairness.** `ManualPool!FairSpec`: goroutines and callers run on (`WF` of the
steps and of the error returns of each), and Hive finishes every install. Nothing is
assumed of new calls or faults, nor of Hive's write of `spec.installed`; the run has
lost replies, after which the caller goes on, and no errors or crashes, after which a
replacement need not come.
`GpuRequests!FairSpec`: goroutines run on and every deadline passes - Go's timers
fire - while the placement controller may never decide. `BatchExecute!FairSpec`:
goroutines run on, `item.Run` returns, and a send or an acquire that can be
served again and again is served in the end (`SF`): Go's channels serve their
waiting goroutines first come, first served.

`Hub!Spec`: a caller goes on with its calls and repeats what has failed - that is
the caller ADR-006 writes for, a reconcile loop, a user or Claude - and the faults
are bounded, so that they end. That each `Call` is weakly fair says no more than that
a process that is not killed runs on; it does not order the callers.

**Findings.** The four violated runs are disagreements between documents and code:

* `recreate`: a repeated `CreateManualPool` resets `pool-claimed` on claimed
  clusters, and a cluster is handed out twice.
* `rewait`: a repeated `WaitManualPoolReady` hibernates claimed clusters under their
  holders.
* `unaudited`: an Advance after an interrupted Start records phase audited without
  an audit.
* `repeated`: a `provision create` that did more than it could tell is refused by its
  own preflight for ever.

Seen while modelling, without a run of their own. Against a document or a description:

* ADR-017 says that deleting a pool destroys all its clusters; a replenish
  goroutine that runs meanwhile leaves one. It also says "No automatic replacement
  when a cluster is claimed", where `replenishPool` provisions one.
* gpu-validation-evidence.md says that errors of an expired operation are
  ErrGPUPending; one that expires before the Placement is created is a routing error.
  A request whose routing failed stays Pending without the reason it says they carry.
* ADR-011 says that the default replica count is 2; `defaultCAPIReplicas` is 1.
* ADR-006 says that deleting what does not exist succeeds, and the server calls
  `acm_provision_destroy` idempotent; `Destroy` answers "not found".
* ADR-006 says of a create "If it exists with a different state, update it";
  `CreateIfNotExists` never updates. A repeated operation with other options succeeds
  and changes nothing, and `PlanMigration` reports phase Planned for a plan that is
  there in another phase.
* features/gpu-routing.feature says that the temporary Placement is cleaned up; a
  Create that its context cuts off after the API server has applied it leaves one,
  since the delete is deferred only after the Create has returned without error.
* The server calls `acm_remove_policy` "Idempotent, no leftovers"; a removal that is
  killed after the policy leaves the Placement, and a repeated one stops at once.

What the code lets happen and nothing promises otherwise:

* a claim whose reply is lost leaves a cluster claimed by nobody; a create or a
  goroutine that ends between the create of a cluster and its labels leaves one that
  no call of the pool finds;
* while Hive has written that a cluster is installed into its status and not yet into
  its spec, a claim accepts it once it sleeps and `ListManualPool` does not count it;
* a migration that is executed twice at once can be put back from Verifying to
  Deploying after the first has reported success, until the second has finished; a
  rollback next to an execution ends in either phase, with either ManifestWork;
* `Destroy` only logs that it could not delete the ManagedCluster, reports success, and
  finds nothing to delete when it is repeated;
* a cleanup whose ManagedCluster is not deleted deletes the workflow with the
  namespace and leaves nothing to retry;
* of two `ExtendTTL`, two merges of rules or metrics, or of `StartUpgrade` and
  `SetChannel` on one curator, one is lost;
* a failed `DeployComplianceOperator` deletes what it found as well as what it made;
* a Get that fails is taken for "not Hive" by `detectUpgradeMethod` and for "missing"
  by `createOrUpdateSubmarinerConfig`, which then leaves an old CIDR in place;
* `applyManifestWork` updates without a resourceVersion (modelled as the tests' fake
  client accepts it; a real API server refuses it for some resources);
* a repeated `Migrate` of a virtual machine adds its manifest again;
* `ConfigureMirror` may name a pull secret it did not make;
* a `provision create` that fails before the ClusterDeployment leaves secrets and IAM
  service IDs that `Destroy` refuses to clean; HyperShift and CAPI clusters the CLI
  creates have no command that destroys them;
* the server's removal of an identity provider leaves the OAuth RBAC, the CLI's does not;
* a cluster that leaves a set keeps its configuration and label; more than 256
  clusters would give an invalid CIDR.

## 4. The proofs

All theorems hold for every value of the constants that satisfies the modules'
assumptions (distinct names, disjoint sets, known faults).

* **ManualPoolProofs.** `TypeCorrect`: `Spec => []TypeOK`, one step per action.
  `ClaimsExclusive`: `Spec => []ExclusiveClaim` when no reply is lost and create
  is called once, the two cases in which it is false. `ExclusiveClaim` is not
  inductive: nothing in it prevents a claim of a held cluster. `ClaimInv` adds
  that a held cluster shows as claimed and that a caller whose patch would still be
  accepted read an unclaimed one (`HeldIsClaimed`); that is disturbed by `Label`,
  which resets the claim, so `LabelledOnce` says that no cluster still to be
  labelled was ever listed or claimed, which needs `OwnNames`: one create at a time,
  each goroutine on its own name. The proof first says once what shapes the step of a
  job can have (`CallerShapes`, `SharedShapes`), and then takes the parts one by one:
  names (`NamesStep`) and holds (`CallerStep`, `SharedHolds`, `HiveHolds`).
* **PoolLeaseProofs.** The other safety properties of the pool, each with its own
  invariant and with no more of the faults excluded than it needs:
  * `StandbyCounted` and `ClaimsTakeStandby`, under every fault, if create is not
    called again. A claim looks at the power state and at no install field, so
    `StandbyInv` has to say that what sleeps is installed by its status, that a cluster
    about to be put to sleep or claimed is installed or gone, and that one read by a
    caller whose patch would still be accepted was such a cluster of the pool
    (`ReadOK`, `StandbyOK`). That the count, which reads the spec, agrees with it holds
    but for the clusters between Hive's two writes, which the property names. `Label` is
    again what disturbs the invariant, and `PastLabelling` why it cannot: what is
    scanned, patched or put to sleep is not to be labelled any more.
  * `ImplementsLease`: `Spec => LeaseSpec` if no reply is lost and create is not called
    again; the free clusters of `PoolLease` are those that are listed and claimable.
    The invariant needs `ResumeOK` besides `ClaimInv` and `StandbyInv`: a caller whose
    patch of the label was accepted, and who has still to resume the cluster, holds it,
    unless it has been destroyed meanwhile.
  * `StraysByEndingOnly`: `Spec => NoStrayCluster`, under every fault and with create and
    wait repeated: a cluster is left outside the pool only by the step that ends the
    operation that was to label it. `StraysLabelled`: a step creates at most the cluster
    its operation labels next, and leaves one that it was to label only by a failure.

  TLC checked `StandbyInv` and `ResumeOK` on the instance of `claims` before they were
  proved. A repeated create is excluded because it resets the claim label (`recreate`),
  a lost reply because hub and caller then disagree on who has the cluster.
* **GpuRequestsProofs.** `GrantInvariant` for the inductive `GrantInv`:
  every answer names the stored cluster of a request past Pending, every request
  past Pending was answered. `AdmittedAtMostOnce` and `GrantsStand` follow.
  `PlacementsDeleted`: `Spec => []PlacementDeleted`, for behaviours in which no call is
  answered with an error (the property names them itself): every caller with a Placement
  is at its poll or its delete, and nothing stays but what a create left that was cut
  off by its context or whose answer was lost.
  `ImplementsLifecycle`: each step is a step of `RequestLifecycle` or leaves its
  variables alone; the invariant is needed because an admitted request's cluster
  must be one of `Clusters`.
* **CapiPowerProofs.** `PowerInvariant` for `PowerInv`: besides `Remembered` it
  says of each undisturbed call that what it listed still holds (`SeenOK`) and that
  what it has passed is asleep or awake (`PassedOK`). `CountsRemembered`,
  `CountsRestored`, `SleepIsComplete` and `WakingIsComplete` follow from it.
* **DecommissionProofs.** `WorkflowInvariant` for `WorkflowInv`, for any number of
  commands. That a stale target never takes the phase back is not inductive: the
  invariant has to say why nobody can be two phases ahead of a command's target.
  `OwnInv` says it: what evidence the workflow has, inherited or not, never changes
  while only its own commands write to it, and a command whose target is below Notified
  (BackedUp) read a phase from which nobody without the evidence gets further
  (`Passed`). Nothing is assumed of the evidence an inherited workflow has for the
  phase it was left in. `OthersStand`
  and `OwnWrite` are the heart of it; `PhaseIsBacked`,
  `HistoryIsTold`, `PhaseNeverBack` and `SafeguardsHold` follow. `WorkflowInv` was
  checked by TLC on the instance of `workflow` before it was proved.
* **BatchExecuteProofs.** All five safety properties of `execute`, for any number of
  items and any concurrency, positive or not. `IInv` counts: there are as many tokens as items
  that run (`Tokens`), as many lines in the channel and on the screen as items that have
  sent one (`Told`), and the channel is closed, drained and left in that order
  (`Closing`). `SendsNeverBlock` is the counting argument: an item about to send is not
  among those that have, so there are fewer than N lines.
* **HubProofs.** `HubTypeCorrect`: `Spec => []TypeOK`. `NoReferenceDangles`:
  `Spec => []NoDangling`, for every catalogue of operations that satisfies
  `HubAssumption`, any callers and any number of faults. The assumption is about the
  operations alone and is what a reader of one of them would check: `InOrder` says
  that a setup deletes nothing and makes an object only after a step that made, or
  looked at, what it refers to, with no dropped error or branch leading past that step
  (`Before`). TLC evaluates it for all 67 pairs in `operations`. The invariant is
  `Kept`: a caller that has got to step i has everything on the hub that the steps
  Before i made (`Behind`); `Landing` shows it for a caller that goes on and `Failing`
  for one that begins again or drops the error, and the rest of the proof is that no
  call of another caller takes an object away.

  `SetupsComplete`: `Spec => []SetupComplete`, from a second condition on the
catalogue,   `Lasting` (in `HubAssumption`, so that TLC evaluates it too): no step of
a setup writes   over with less what a step that always runs has set and none clears
(`Fixed`). `LastInv` says that what such a step has made still stands   (`Standing`)
and that a caller which will write back what it read without asking for   the version
has read all of it (`Known`); `WriteKeeps` is the heart of it.

  `LastWordStands`: `Spec => []LastWord`, from the same assumption and that there is a
  caller. What a step sets and an earlier one clears is no invariant of a caller that is
  past it: another that is behind takes it back, as the second execution of a migration
  does. `WordInv` therefore says that the last word stands or some caller has not come
  past the step that says it: who takes it back is behind (`WordPut`, `WordFails`), and
  who comes past has just said it (`WordPassed`).

  `TeardownsComplete`: `Spec => [](Undoes(pair) => TeardownComplete)`. `Undoes` says of a
  pair what a reader of the teardown would check: it deletes nothing that was there
  before, makes nothing again, comes to everything that is to go on a path that no
  branch leads around (`Reverts`, `Surely`, `Straight`), and where it ends at once
  because an object is missing, that object is removed last (`Guards`). The invariant
  `TearInv` says where fields and unreported errors come from (`Traced`), that what a
  caller has passed is gone (`Tearing`, `Gone`, `Reverted`) and that a missing guard means
  everything else is gone; `Falls` is that no call brings anything back, `Homeward` that
  every call leads its caller on with what it has passed gone. `MCTeardowns` has TLC
  confirm that 65 of the 67 pairs satisfy `Undoes`. The two others, `reclaimed` and
  `recovery`, branch on what they find, and `operations` checks them state by state.
  `LastInv`, `WordInv` and `TearInv` were checked by TLC on the whole instance of `operations`
  before they were proved.
* **GlobalnetProofs.** `GlobalnetTypeCorrect` and `CIDRsAreDistinct`:
  `Spec => []DistinctCIDRs` for any clusters, callers and lists that satisfy
  `ListAssumption` (all members, each once). The invariant says that the CIDRs of the
  clusters a clean caller is past are those of its plan (`Good`); it survives another
  clean caller because their plans are the same (`OthersGood`) and an unclean one
  because there is none that still writes.

Only model-checked: the liveness properties (`OperationsReturn`, `ReplacementReady`,
`CallsReturn`, `Terminates`, `Converges`), which are out of the prover's reach, and
`TeardownComplete` of the pairs `reclaimed` and `recovery`. Every other safety and
action property of the passing runs is a theorem, under the conditions named above.

## 5. The plan

1. a `Straight` that follows a branch on what the same teardown has left, so that
   `reclaimed` and `recovery` satisfy `Undoes` too; abstract specifications of the
   decommission workflow and of hibernation, with proofs that they are implemented;
2. a teardown that overlaps with a setup, and `watchAndAutoImport` across a
   `DestroyCAPI`: what the code then leaves, and for which pairs repetition mends it;
3. the pure functions (placement scores, rightsizing, the batches of a rollout)
   against reference definitions.

## 6. What is not modelled

Rendering of manifests, parsing of objects, arguments, output and reports. The
external systems - Hive, CAPI, the placement controller, the operators of the
add-ons - are modelled as far as the code waits for them and are marked external in the
map; what they do with the objects is not. The clouds' APIs (IAM, EC2, VPC) are one
object or one call that may fail. Different operations on the same objects are
interleaved in `ManualPool`, `GpuRequests`, `CapiPower`, `Decommission` and
`Globalnet`; in `Hub` the callers run the same operation. Wall-clock time is the order
of timeouts only. The reports and the arithmetic of cost, scoring and rightsizing
have no state. `Manager.Delete` of decommission is called by tests only.
