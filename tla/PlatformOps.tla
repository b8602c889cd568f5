----------------------------- MODULE PlatformOps -----------------------------
(***************************************************************************)
(* internal/observability, idp, access, gitops, addon, automation and      *)
(* backup.                                                                 *)
(***************************************************************************)
EXTENDS HubSteps

\* internal/observability: MinIO and the MultiClusterObservability that stores in it.
stack == <<"namespace", "minio-pvc", "minio-deployment", "minio-service", "thanos-secret", "MCO">>

ensureMinioDeployment == Refers("minio-deployment", {"namespace", "minio-pvc"})
ensureMCO == Refers("MCO", {"thanos-secret"})

\* Mutant: what an earlier attempt has made is created again.
SetupAnew == ForEach(stack, Create)

Setup    == ForEach(stack, Ensure)
Teardown == ForEach(<<"MCO", "thanos-secret", "minio-service", "minio-deployment", "minio-pvc",
                      "namespace">>, Purge)

Observability == Pair({}, Setup, Teardown, ensureMinioDeployment @@ ensureMCO, {})

createOrUpdate(obj, fields) == <<With(Apply(obj), fields)>>

\* Rules and metrics are merged with what one Get has read, and written over
\* what a second one has read: of two deployments that overlap one may be lost.
mergeRuleGroups(group)   == With(Merge("custom-rules"), group)
mergeMetricsKey(names)   == With(Blind(Merge("metrics")), names)
DeployCustomRules(group) == <<mergeRuleGroups(group)>>
ConfigureMetrics(names)  == <<mergeMetricsKey(names)>>

\* Guarded by the resourceVersion, except for the last group.
RemoveCustomRuleGroup(group) == <<Prune("custom-rules", group)>>
RemoveCustomRules == <<Purge("custom-rules")>>

CustomRules ==
  Pair({}, DeployCustomRules(Mine) \o ConfigureMetrics(Mine),
       RemoveCustomRuleGroup(Mine) \o RemoveCustomRules,
       NoRefs, {"metrics"})

ConfigurePullSecret == <<Look("openshift-pull-secret"), Ensure("pull-secret")>>
ConfigureOBCStorage == <<Ensure("ObjectBucketClaim")>>
DeployDashboard       == createOrUpdate("dashboard", {"json"})
RemoveDashboard       == <<Purge("dashboard")>>
ConfigureAlertmanager == createOrUpdate("alertmanager-config", {"config"})
ConfigureRetention    == <<Update("MCO", {"retention"}, {})>>
ConfigureAdvanced     == <<Update("MCO", {"advanced"}, {})>>
DisableAlertForwarding == <<Update("MCO", {"alerts-off"}, {})>>
EnableAlertForwarding  == <<Update("MCO", {}, {"alerts-off"})>>
DisableCluster == <<Update("ManagedCluster", {"disabled"}, {})>>
EnableCluster  == <<Update("ManagedCluster", {}, {"disabled"})>>

\* Repair undoes what keeps the add-on from the clusters: a missing pull secret,
\* and a cluster that was disabled.
RepairObservability ==
  Unsurely(Unless("pull-secret", ConfigurePullSecret)) \o <<List("clusters")>> \o EnableCluster

ObservabilityConfig ==
  Pair({"MCO", "ManagedCluster", "openshift-pull-secret"},
       ConfigureOBCStorage \o DeployDashboard \o ConfigureAlertmanager \o ConfigureRetention
         \o ConfigureAdvanced \o DisableAlertForwarding,
       RemoveDashboard \o EnableAlertForwarding, NoRefs,
       {"ObjectBucketClaim", "alertmanager-config", "retention", "advanced"})

Repaired ==
  Pair({"ManagedCluster", "openshift-pull-secret"}, DisableCluster, RepairObservability, NoRefs,
       {"pull-secret"})

-----------------------------------------------------------------------------
\* internal/idp: a work with the OAuth configuration, and one with the rights
\* to apply it.

ensureOAuthRBAC == <<Ensure("oauth-rbac")>>
Configure  == ensureOAuthRBAC \o <<Ensure("idp-work")>>
RemoveIdP  == <<Look("idp-work"), Purge("idp-work")>>
CleanupRBAC == <<Purge("oauth-rbac")>>
Rotate     == <<Look("idp-work"), Patch("idp-work", {"manifests"}, {})>>

\* The password is returned although the note of its rotation failed.
ConfigureUnique == Configure \o <<Try(Patch("idp-work", {"last-rotation"}, {}))>>

\* WaitForApplied only asks.
WaitForApplied == <<List("applied")>>

IdentityProvider ==
  Pair({}, ConfigureUnique \o WaitForApplied \o Rotate, RemoveIdP \o CleanupRBAC,
       Refers("idp-work", {"oauth-rbac"}), {})

EnforceSSO == ForEach(<<"Placement", "Policy", "PlacementBinding">>, Ensure)

SingleSignOn ==
  Pair({}, EnforceSSO, <<>>, Refers("PlacementBinding", {"Placement", "Policy"}),
       {"Placement", "Policy", "PlacementBinding"})

-----------------------------------------------------------------------------
\* internal/access: a service account and the two add-ons it needs.

EnableAccess == ForEach(<<"msa-addon", "cluster-proxy", "ManagedServiceAccount">>, Ensure)

DisableAccess ==
  <<QuitUnless("ManagedServiceAccount")>>
    \o ForEach(<<"ManagedServiceAccount", "cluster-proxy", "msa-addon">>, Purge)

EnableProxy  == <<Ensure("cluster-proxy")>>
DisableProxy == <<QuitUnless("cluster-proxy"), Purge("cluster-proxy")>>

Access ==
  Pair({}, EnableAccess, DisableAccess,
       Refers("ManagedServiceAccount", {"msa-addon", "cluster-proxy"}),
       {"msa-addon", "cluster-proxy"})
Proxy == Pair({}, EnableProxy, DisableProxy, NoRefs, {})

-----------------------------------------------------------------------------
\* internal/gitops. Nothing is created when a prerequisite is missing.

CheckPrerequisites == <<Look("applicationset-crd"), Look("argocd-namespace")>>

CreateApp == CheckPrerequisites \o <<Ensure("ApplicationSet")>>
Sync      == CheckPrerequisites \o <<Look("ApplicationSet"), Patch("ApplicationSet", {"refresh"}, {})>>
DeleteApp == <<QuitUnless("ApplicationSet"), Purge("ApplicationSet")>>

GitOps ==
  Pair({"applicationset-crd", "argocd-namespace"}, CreateApp \o Sync, DeleteApp,
       Refers("ApplicationSet", {"argocd-namespace"}), {})

\* An ApplicationSet that is there stays as it is; one that is not in agent mode
\* is not deleted.
EnableAgentMode  == CheckPrerequisites \o <<With(Ensure("ApplicationSet"), {"agent-mode"})>>
DisableAgentMode == <<QuitUnless("ApplicationSet"), List("agent-mode"), Purge("ApplicationSet")>>

AgentMode ==
  Pair({"applicationset-crd", "argocd-namespace"}, EnableAgentMode, DisableAgentMode, NoRefs, {})

-----------------------------------------------------------------------------
\* internal/addon, internal/automation, internal/backup.

ConfigureAddOn == <<Ensure("AddOnDeploymentConfig")>>
RemoveConfig   == <<Look("AddOnDeploymentConfig"), Purge("AddOnDeploymentConfig")>>
AddOn == Pair({}, ConfigureAddOn, RemoveConfig, NoRefs, {})

CreateAutomation == <<Ensure("PolicyAutomation")>>
UpdateMode       == <<Update("PolicyAutomation", {"mode"}, {})>>
DeleteAutomation == <<QuitUnless("PolicyAutomation"), Purge("PolicyAutomation")>>
Automation == Pair({}, CreateAutomation \o UpdateMode, DeleteAutomation, NoRefs, {})

EnableBackup  == <<Ensure("BackupSchedule")>>
DisableBackup == <<QuitUnless("BackupSchedule"), Purge("BackupSchedule")>>
Restore       == <<Ensure("Restore")>>
Backup == Pair({}, EnableBackup \o Restore, DisableBackup, NoRefs, {"Restore"})

=============================================================================
