----------------------------- MODULE ClusterOps -----------------------------
(***************************************************************************)
(* Operations on the clusters of the hub: import, pools, upgrades,         *)
(* rollouts, cluster sets, curators, disaster recovery, migration, matrix. *)
(***************************************************************************)
EXTENDS HubSteps

\* internal/importing. AlreadyExists is success of a Create; a kubeconfig that
\* is there is replaced.
createAutoImportSecret == <<Upsert("auto-import-secret")>>

Import(kubeconfig) ==
  ForEach(<<"namespace", "ManagedCluster", "KlusterletAddonConfig">>, Admit)
    \o If(kubeconfig, createAutoImportSecret)

Detach == <<Look("ManagedCluster"), Delete("ManagedCluster")>>

Imported ==
  Pair({}, Import(TRUE), Detach, Refers("KlusterletAddonConfig", {"namespace", "ManagedCluster"}),
       {"namespace", "KlusterletAddonConfig", "auto-import-secret"})

-----------------------------------------------------------------------------
\* internal/pool/pool.go: Hive's own pools.

buildClusterPool == Refers("ClusterPool", {"pull-secret", "creds"})
buildClusterClaim == Refers("ClusterClaim", {"ClusterPool"})

CreatePool == ForEach(<<"namespace", "pull-secret", "creds", "ClusterPool">>, Ensure)
Claim == <<Ensure("ClusterClaim"), Look("ClusterClaim")>>
ReleaseClaim == <<Look("ClusterClaim"), Purge("ClusterClaim")>>
DeletePool == <<Look("ClusterPool"), Purge("ClusterPool")>>

NativePool ==
  Pair({}, CreatePool \o Claim, ReleaseClaim \o DeletePool, buildClusterPool @@ buildClusterClaim,
       {"namespace", "pull-secret", "creds"})

-----------------------------------------------------------------------------
\* internal/upgrade. A cluster that Hive has made is upgraded by a curator, an
\* OpenShift cluster by a ManifestWork; any other is refused.

\* A Get of the ClusterDeployment that fails counts as a cluster Hive has not made.
detectUpgradeMethod(hive, other) == Blindly(IfThere("ClusterDeployment", hive, other))

\* Either is written anew. The ManifestWork carries no resourceVersion, the
\* curator the one that was read; and there is one curator for both operations.
applyManifestWork(work) == <<Replace(work)>>
applyClusterCurator(change, other) ==
  <<[Apply("ClusterCurator") EXCEPT !.set = {change}, !.clear = {other}]>>

StartUpgrade ==
  detectUpgradeMethod(applyClusterCurator("version", "channel"), applyManifestWork("upgrade-work"))

SetChannel ==
  detectUpgradeMethod(applyClusterCurator("channel", "version"), applyManifestWork("channel-work"))

Upgrade(byHive) ==
  Pair(IF byHive THEN {"ClusterDeployment"} ELSE {}, StartUpgrade, SetChannel, NoRefs,
       {"ClusterCurator", "upgrade-work", "channel-work"})

-----------------------------------------------------------------------------
\* internal/lifecycle/curator.go and recovery.go.

\* A curator that is there stays as it is.
ApplyCurator == <<With(Ensure("ClusterCurator"), {"hooks"})>>
RemoveCurator == <<QuitUnless("ClusterCurator"), Purge("ClusterCurator")>>

Curator == Pair({}, ApplyCurator, RemoveCurator, NoRefs, {})

\* A cluster without a ClusterDeployment is skipped; an approval that fails is
\* only noted.
getSpokeRESTConfig == <<Look("ClusterDeployment"), Look("admin-kubeconfig")>>
approveExpiredCSRs == <<List("csrs"), Try(Update("csr", {"approved"}, {}))>>
PostResumeRecovery ==
  <<QuitUnless("ClusterDeployment")>> \o getSpokeRESTConfig \o approveExpiredCSRs

Resumed ==
  Pair({"ClusterDeployment", "admin-kubeconfig", "csr"}, PostResumeRecovery, <<>>, NoRefs,
       {"approved"})

-----------------------------------------------------------------------------
\* internal/rollout.

CreateRollout == <<Ensure("ManifestWorkReplicaSet")>>
UpdateStrategy == <<Update("ManifestWorkReplicaSet", {"strategy"}, {})>>
DeleteRollout == <<QuitUnless("ManifestWorkReplicaSet"), Purge("ManifestWorkReplicaSet")>>

Rollout == Pair({}, CreateRollout \o UpdateStrategy, DeleteRollout, NoRefs, {})

CreateOrderedWork == <<Ensure("ManifestWork")>>
RemoveOrderedWork == <<Purge("ManifestWork")>>

OrderedWork == Pair({}, CreateOrderedWork, RemoveOrderedWork, NoRefs, {})

-----------------------------------------------------------------------------
\* internal/clusterset: a set and its binding, and the global set.

CreateClusterSet == <<Ensure("ManagedClusterSet"), Ensure("ManagedClusterSetBinding")>>
Assign == <<Patch("ManagedCluster", {"clusterset"}, {})>>

RemoveClusterSet ==
  <<Look("ManagedClusterSet"), Purge("ManagedClusterSetBinding"), Purge("ManagedClusterSet")>>

ClusterSet ==
  Pair({"ManagedCluster"}, CreateClusterSet \o Assign, RemoveClusterSet,
       Refers("ManagedClusterSetBinding", {"ManagedClusterSet"}), {"clusterset"})

EnableGlobal == <<Ensure("ManagedClusterSet")>>
BindGlobal == <<Look("ManagedClusterSet"), Ensure("ManagedClusterSetBinding")>>
UnbindGlobal == <<Purge("ManagedClusterSetBinding")>>

GlobalSet ==
  Pair({}, EnableGlobal \o BindGlobal, UnbindGlobal,
       Refers("ManagedClusterSetBinding", {"ManagedClusterSet"}), {"ManagedClusterSet"})

-----------------------------------------------------------------------------
\* internal/scaling. A MachinePool has replicas or autoscaling.

\* Its Create fails when the cluster has a MachinePool.
GetMachinePool == <<Look("MachinePool")>>
InitMachinePool == <<Look("ClusterDeployment"), Create("MachinePool")>> \o GetMachinePool

SetReplicas == GetMachinePool \o <<Patch("MachinePool", {"replicas"}, {"autoscaling"})>>
EnableAutoscaling == GetMachinePool \o <<Patch("MachinePool", {"autoscaling"}, {"replicas"})>>
SetFlavor == GetMachinePool \o <<Look("ClusterDeployment"), Patch("MachinePool", {"flavor"}, {})>>

SetNodePoolReplicas == <<Look("NodePool"), Patch("NodePool", {"replicas"}, {})>>
SetMachineDeploymentReplicas == <<Look("MachineDeployment"), Patch("MachineDeployment", {"replicas"}, {})>>

\* A NodePool that cannot be set is passed over, and only a cluster that has
\* no MachinePool gets there.
SetReplicasAuto ==
  IfThere("MachinePool", SetReplicas,
          IfThere("NodePool", SetNodePoolReplicas, SetMachineDeploymentReplicas))

Scaling ==
  Pair({"ClusterDeployment", "MachinePool"}, EnableAutoscaling \o SetFlavor, SetReplicasAuto, NoRefs,
       {"replicas", "flavor"})
HostedScaling == Pair({"NodePool"}, SetReplicasAuto, <<>>, NoRefs, {"replicas"})
NewMachinePool == Pair({"ClusterDeployment"}, InitMachinePool, <<>>, NoRefs, {"MachinePool"})

-----------------------------------------------------------------------------
\* internal/reclamation. The extension is added to the expiry that was read, so
\* of two that overlap one is lost; the extensions stand for their callers.

SetTTL == <<Patch("ManagedCluster", {"ttl"}, {})>>
ExtendTTL == <<Rewrite("ManagedCluster", Mine)>>

\* Of a cluster of Hive. The patch is left out when it would change nothing.
setPowerState(set, clear) == <<Patch("ClusterDeployment", set, clear)>>
Hibernate == <<Look("ClusterDeployment")>> \o setPowerState({"hibernating"}, {})
Resume    == <<Look("ClusterDeployment")>> \o setPowerState({}, {"hibernating"})

\* What is not Hive's is detached, and nothing is read again of the TTL.
ReclaimCluster == IfThere("ClusterDeployment", Hibernate, <<Delete("ManagedCluster")>>)

Reclaimed ==
  Pair({"ManagedCluster", "ClusterDeployment"}, SetTTL \o ExtendTTL, ReclaimCluster, NoRefs,
       {"ttl", "mine", "hibernating"})

Power == Pair({"ClusterDeployment"}, Hibernate, Resume, NoRefs, {})

-----------------------------------------------------------------------------
\* internal/recovery. The two label works name the pair and its clusters.

EnableDR ==
  <<Look("source"), Look("target")>>
    \o ForEach(<<"source-labels", "target-labels", "velero", "velero-policy">>, Ensure)

TriggerFailover == ForEach(<<"restore", "appset">>, Ensure)

\* ListDRPairs finds the pair by either label work, and of it only the cluster
\* whose work is there; DisableDR goes by what it has found.
ListDRPairs(both, source, target) ==
  <<List("pairs")>> \o IfThere("source-labels", IfThere("target-labels", both, source),
                                <<Look("target-labels")>> \o target)

DisableDR ==
  LET source == <<"velero", "source-labels">>
      target == <<"restore", "target-labels">>
  IN  ListDRPairs(TryEach(Purge, source \o target), TryEach(Purge, source), TryEach(Purge, target))
        \o TryEach(Purge, <<"velero-policy", "appset">>)

DisasterRecovery ==
  Pair({"source", "target"}, EnableDR \o TriggerFailover, DisableDR, NoRefs, {})

-----------------------------------------------------------------------------
\* internal/migration: a plan, and a ManifestWork on either cluster. A plan that is
\* there stays as it is, in the phase that it is in.

PlanPhases == {"Planned", "Deploying", "Verifying", "RolledBack"}

PlanMigration == <<List("works"), With(Ensure("plan"), {"Planned"})>>
updatePlanPhase(phase) == <<Update("plan", {phase}, PlanPhases \ {phase})>>

ExecuteMigration ==
  <<Look("plan")>> \o updatePlanPhase("Deploying")
    \o ForEach(<<"cordon", "workloads">>, Ensure) \o updatePlanPhase("Verifying")

RollbackMigration ==
  <<Look("plan")>> \o TryEach(Purge, <<"workloads", "cordon">>) \o updatePlanPhase("RolledBack")

Migrated ==
  Pair({}, PlanMigration \o ExecuteMigration, RollbackMigration,
       [o \in {"cordon", "workloads"} |-> {"plan"}], {"plan"})

-----------------------------------------------------------------------------
\* internal/matrix: one cell, whose ManagedCluster is made by nobody here. The
\* label matrix-id on it is what DestroyMatrix finds the cell by, and an error
\* of the patch that writes it is only logged: the deployment may stay.

ProvisionMatrix ==
  <<Ensure("namespace")>> \o Warned(<<Ensure("ClusterDeployment"), Admit("matrix-id")>>)

DestroyMatrix == <<List("cells")>> \o When("matrix-id", <<Try(Purge("ClusterDeployment"))>>)

Matrix ==
  Pair({}, ProvisionMatrix, DestroyMatrix, Refers("ClusterDeployment", {"namespace"}),
       {"namespace", "matrix-id", "ClusterDeployment"})

=============================================================================
