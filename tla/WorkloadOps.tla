----------------------------- MODULE WorkloadOps -----------------------------
(***************************************************************************)
(* internal/gpu, cost, rightsizing, virtualization, fleet and discovery:   *)
(* what is placed on a managed cluster or written on it for the workloads. *)
(***************************************************************************)
EXTENDS HubSteps

\* internal/gpu, stack. The preflight asks for the gpu-type label and for a
\* cluster that is available.
PreflightStack == <<Look("ManagedCluster"), List("gpu-type")>>

buildStackPlacementBinding == Refers("stack-binding", {"stack-placement", "stack-policy"})

DeployStack ==
  PreflightStack
    \o ForEach(<<"kueue", "kyverno", "stack-policy", "stack-placement", "stack-binding">>, Ensure)
    \o <<Patch("ManagedCluster", {"gpu-sharing"}, {})>>

CreateClusterQueues == <<Ensure("gpu-queues")>>

\* No error of a deletion is looked at.
RemoveStack ==
  <<Look("ManagedCluster")>>
    \o TryEach(Purge, <<"kueue", "kyverno", "gpu-queues", "stack-binding", "stack-placement",
                        "stack-policy">>)
    \o <<Try(Patch("ManagedCluster", {}, {"gpu-sharing"}))>>

GpuStack ==
  Pair({"ManagedCluster"}, DeployStack \o CreateClusterQueues, RemoveStack,
       buildStackPlacementBinding, {})

\* Segregation by version. The labels stay when the policy is removed.
buildVersionPlacementBinding == Refers("version-binding", {"version-placement", "version-policy"})

ProvisionForVersion ==
  <<Patch("ManagedCluster", {"version", "gpu-available"}, {}), Ensure("operator-work")>>

EnforceVersionPolicy ==
  <<Patch("ManagedCluster", {"version"}, {})>>
    \o ForEach(<<"version-config", "version-policy", "version-placement", "version-binding">>, Ensure)

RemoveVersionPolicy ==
  TryEach(Purge, <<"version-binding", "version-placement", "version-policy", "version-config">>)

VersionPolicy ==
  Pair({"ManagedCluster"}, ProvisionForVersion \o EnforceVersionPolicy, RemoveVersionPolicy,
       buildVersionPlacementBinding, {"version", "gpu-available", "operator-work"})

\* Elastic capacity: HibernateIdle only writes labels.
ProvisionOnDemand == <<Patch("ManagedCluster", {"elastic", "gpu-available"}, {}), Ensure("elastic-work")>>
HibernateIdle == <<Patch("ManagedCluster", {"hibernated"}, {"gpu-available"})>>

\* A cluster is taken out of the routing, or put back.
MarkSaturated(saturated) ==
  <<IF saturated THEN Patch("ManagedCluster", {}, {"gpu-available"})
                 ELSE Patch("ManagedCluster", {"gpu-available"}, {})>>

ElasticCapacity ==
  Pair({"ManagedCluster"}, ProvisionOnDemand, HibernateIdle, NoRefs,
       {"elastic", "hibernated", "elastic-work"})

-----------------------------------------------------------------------------
\* internal/cost: a label, a budget policy, and the dashboard that the command
\* line builds from the parts of internal/observability.

StampCostCenter == <<Patch("ManagedCluster", {"cost-center"}, {})>>

buildBudgetPlacementBinding == Refers("budget-binding", {"budget-placement", "budget-policy"})

CreateBudgetPolicy == ForEach(<<"budget-policy", "budget-placement", "budget-binding">>, Ensure)

\* As policy.Remove: the policy goes before its placement.
RemoveBudgetPolicy ==
  <<QuitUnless("budget-policy")>>
    \o ForEach(<<"budget-binding", "budget-policy", "budget-placement">>, Purge)

Budget ==
  Pair({"ManagedCluster"}, StampCostCenter \o CreateBudgetPolicy, RemoveBudgetPolicy,
       buildBudgetPlacementBinding, {"cost-center", "budget-placement"})

-----------------------------------------------------------------------------
\* internal/rightsizing: a recommender, and a work for each workload it resizes.

EnableRightsizing == <<Look("ManagedCluster"), Ensure("rightsizing")>>
Advise  == <<Look("rightsizing")>>
Adjust  == Advise \o <<Ensure("adjust-work")>>
DisableRightsizing == <<QuitUnless("rightsizing"), Purge("rightsizing")>>

Rightsizing ==
  Pair({"ManagedCluster"}, EnableRightsizing \o Adjust, DisableRightsizing, NoRefs, {"adjust-work"})

-----------------------------------------------------------------------------
\* internal/virtualization: a virtual machine is the first manifest of a work;
\* a migration is a manifest that is added to it, once more when it is repeated.

DeployVM == <<Ensure("vm-work")>>
RemoveVM == <<Purge("vm-work")>>
patchRunning(running) ==
  IF running THEN <<Update("vm-work", {"running"}, {})>> ELSE <<Update("vm-work", {}, {"running"})>>

Migrate == <<Update("vm-work", Mine, {})>>

VirtualMachine == Pair({}, DeployVM \o patchRunning(TRUE) \o Migrate, RemoveVM, NoRefs, {})

buildCNVPlacementBinding == Refers("cnv-binding", {"cnv-placement", "cnv-policy"})

EnsureCNVOperator == ForEach(<<"cnv-placement", "cnv-policy", "cnv-binding">>, Ensure)
RemoveCNVOperator == TryEach(Purge, <<"cnv-binding", "cnv-policy", "cnv-placement">>)

CNVOperator == Pair({}, EnsureCNVOperator, RemoveCNVOperator, buildCNVPlacementBinding, {})

-----------------------------------------------------------------------------
\* internal/fleet: taints, and placements that score clusters or tolerate their taints.

\* The whole list is patched: of two that overlap one change may be lost. A key
\* that is there is not added again, one that is not is not removed.
AddTaint    == <<Amend("ManagedCluster", Mine, {})>>
RemoveTaint == <<Amend("ManagedCluster", {}, Mine)>>

Tainted == Pair({"ManagedCluster"}, AddTaint, RemoveTaint, NoRefs, Mine)

ConfigureScoring == <<Ensure("scoring")>>
CreateTolerantPlacement == <<Ensure("tolerant")>>

\* A second Get, whose error is dropped, asks for the label.
RemoveScoring == <<Look("scoring"), Try(List("label")), Purge("scoring")>>

Scoring == Pair({}, ConfigureScoring \o CreateTolerantPlacement, RemoveScoring, NoRefs, {"tolerant"})

-----------------------------------------------------------------------------
\* internal/discovery. A cluster is imported as importing does, but an
\* auto-import-secret that is there stays as it is. A scan of the cloud or a
\* kubeconfig file comes first; what it reads is left out.

EnableDiscovery == ForEach(<<"ocm-api-token", "DiscoveryConfig">>, Ensure)

\* Fails only when neither is found; the errors of the deletions are dropped.
DisableDiscovery ==
  Unsurely(Unless("DiscoveryConfig", <<Unsure(Look("ocm-api-token"))>>))
    \o TryEach(Purge, <<"DiscoveryConfig", "ocm-api-token">>)

Discovery == Pair({}, EnableDiscovery, DisableDiscovery, NoRefs, {})

registerCluster == ForEach(<<"namespace", "ManagedCluster", "KlusterletAddonConfig">>, Ensure)

ImportDiscovered == <<Look("DiscoveredCluster")>> \o registerCluster

\* Without the spoke's credentials there is no secret, and a secret that could
\* not be made is only reported.
AutoImport(credentials) ==
  <<List("cloud")>> \o registerCluster
    \o If(credentials, <<Try(With(Ensure("auto-import-secret"), {"kubeconfig"}))>>)

AutoImportKubeconfig(insecure) ==
  <<List("kubeconfig-file")>> \o registerCluster
    \o <<With(Ensure("auto-import-secret"),
              {"kubeconfig"} \cup (IF insecure THEN {"insecure"} ELSE {}))>>

\* The secret is written again from nothing, over whatever is there by then.
FixTLS == <<Look("auto-import-secret"), Patch("auto-import-secret", {}, {"insecure"})>>

Discovered ==
  Pair({"DiscoveredCluster"}, ImportDiscovered, <<>>, NoRefs,
       {"namespace", "ManagedCluster", "KlusterletAddonConfig"})

CloudImport ==
  Pair({}, AutoImport(TRUE), <<>>, Refers("KlusterletAddonConfig", {"namespace", "ManagedCluster"}),
       {"namespace", "ManagedCluster", "KlusterletAddonConfig", "auto-import-secret", "kubeconfig"})

SecuredImport ==
  Pair({}, AutoImportKubeconfig(TRUE), FixTLS,
       Refers("auto-import-secret", {"namespace", "ManagedCluster"}),
       {"namespace", "ManagedCluster", "KlusterletAddonConfig", "auto-import-secret", "kubeconfig"})

=============================================================================
