------------------------------ MODULE Commands ------------------------------
(***************************************************************************)
(* cmd/acmlab: the commands of the command line, by group, as the steps    *)
(* they run. A command of several clusters runs its steps for each, see    *)
(* BatchExecute; the commands of manual pools, GPU requests and            *)
(* decommissions belong to the modules of that name.                       *)
(***************************************************************************)
EXTENDS ProvisioningOps, ClusterOps, NetworkOps, GovernanceOps, PlatformOps, WorkloadOps

\* A command that only shows what it finds.
Shows == <<List("hub")>>

\* A file of the arguments is read before the first call.
readsFile == <<List("file")>>

-----------------------------------------------------------------------------
\* Clusters.

provisionCreateCmd(type, platform) ==
  readsFile \o
    CASE type = "hypershift" -> CreateHyperShift
      [] type = "capi"       -> CreateCAPI(platform)
      [] OTHER               -> Preflight \o CreateHive(platform, TRUE)

\* Several clusters, or one whose cloud resources are looked for afterwards.
provisionDestroyCmd(platform, checkOrphans) ==
  IF checkOrphans THEN DestroyWithOrphanCheck(platform) ELSE DestroyHive(platform)

provisionChecksCmd == [preflight |-> readsFile \o Preflight, orphans |-> <<List("orphans")>>]

\* At the end the command fails when the setup has noted an error.
provisionSetupCAPICmd == SetupCAPIControllers \o <<List("errors")>>

provisionTemplateCmd ==
  [create |-> CreateTemplate, get |-> Shows, list |-> Shows, remove |-> RemoveTemplate,
   apply |-> ApplyTemplate]

lifecycleSupported == <<Look("ClusterDeployment")>>

hibernateCmd == lifecycleSupported \o Hibernate \o <<List("power-state")>>

\* The certificates are only looked after when one cluster is waited for.
resumeCmd(one) ==
  lifecycleSupported \o Resume \o <<List("power-state")>> \o If(one, Warned(PostResumeRecovery))

curatorCmd == [apply |-> ApplyCurator, status |-> Shows, remove |-> RemoveCurator, list |-> Shows]

importClusterCmd(kubeconfig) ==
  If(kubeconfig, readsFile) \o Import(kubeconfig) \o If(kubeconfig, <<List("available")>>)
detachClusterCmd == Detach

poolCmd  == [create |-> readsFile \o CreatePool, list |-> Shows, get |-> Shows, delete |-> DeletePool]
claimCmd == [create |-> Claim, release |-> ReleaseClaim, list |-> Shows]

scalingCmd ==
  [set |-> SetReplicasAuto, auto |-> EnableAutoscaling \o GetMachinePool, list |-> Shows]
scalingSetupCmd == [init |-> <<List("workers")>> \o InitMachinePool, flavor |-> SetFlavor]

reclamationCmd ==
  [set |-> SetTTL, list |-> Shows, expired |-> Shows, extend |-> ExtendTTL, reclaim |-> ReclaimCluster]

upgradeCmd ==
  [status |-> Shows, list |-> Shows, channel |-> SetChannel, start |-> StartUpgrade,
   history |-> Shows]

recoveryCmd ==
  [enable |-> EnableDR, failover |-> TriggerFailover, status |-> Shows, disable |-> DisableDR,
   list |-> Shows]

migrationCmd ==
  [plan |-> PlanMigration, execute |-> ExecuteMigration, status |-> Shows,
   rollback |-> RollbackMigration, list |-> Shows]

matrixCmd == [provision |-> ProvisionMatrix, status |-> Shows, destroy |-> DestroyMatrix, list |-> Shows]

rolloutCmd ==
  [create |-> CreateRollout, get |-> Shows, list |-> Shows, delete |-> DeleteRollout,
   strategy |-> UpdateStrategy]
workorderCmd ==
  [create |-> readsFile \o CreateOrderedWork, get |-> Shows, list |-> Shows, remove |-> RemoveOrderedWork]

clustersetCmd == [create |-> CreateClusterSet, remove |-> RemoveClusterSet, list |-> Shows, assign |-> Assign]
clustersetGlobalCmd ==
  [enable |-> EnableGlobal, bind |-> BindGlobal, unbind |-> UnbindGlobal, status |-> Shows]

-----------------------------------------------------------------------------
\* What is placed on clusters.

policyCmd ==
  [apply |-> Apply3, remove |-> Remove3, remediation |-> SetRemediation, enable |-> SetDisabled,
   disable |-> SetDisabled]
policyQuotaCmd == [report |-> Shows, apply |-> ApplyQuotaPolicy, status |-> Shows]
policyAutomateCmd == [automate |-> CreateAutomation, status |-> Shows, list |-> Shows]
policyAutomationCmd == [remove |-> DeleteAutomation, mode |-> UpdateMode]
policySetCmd == [apply |-> ApplyPolicySet, get |-> Shows, list |-> Shows, remove |-> RemovePolicySet]

securityCmd == [apply |-> ApplyBaseline, status |-> Shows, list |-> Shows, remove |-> RemoveBaseline]

\* The engine follows from the file's suffix, to remove a policy it is named.
securityPolicyCmd(engine) ==
  IF engine = "gatekeeper"
    THEN [apply |-> ApplyCustomPolicy, remove |-> RemoveCustomPolicy]
    ELSE [apply |-> ApplyKyvernoPolicy, remove |-> RemoveKyvernoPolicy]

complianceCmd == [deploy |-> DeployComplianceOperator, scan |-> CreateComplianceScan, status |-> Shows]
complianceRemoveCmd == [remove |-> RemoveComplianceScan, diagnose |-> Shows]

tenantCmd == [deploy |-> Deploy, remove |-> RemoveTenant, list |-> Shows, status |-> Shows]

registryConfigureCmd(withSecret) == ConfigureMirror(withSecret)
registryRemoveCmd == RemoveMirror

-----------------------------------------------------------------------------
\* The platform.

observabilityCmd ==
  [setup |-> Setup, teardown |-> Teardown, status |-> Shows, secret |-> ConfigurePullSecret,
   storage |-> ConfigureOBCStorage]
monitorCmd == [list |-> Shows, status |-> Shows, setup |-> Setup, teardown |-> Teardown]

observabilityContentCmd ==
  [deployRules |-> readsFile \o DeployCustomRules(Mine), removeRules |-> RemoveCustomRules,
   deployDashboard |-> readsFile \o DeployDashboard, removeDashboard |-> RemoveDashboard,
   metrics |-> ConfigureMetrics(Mine)]
observabilityAlertingCmd ==
  [alertmanager |-> readsFile \o ConfigureAlertmanager, enable |-> EnableAlertForwarding,
   disable |-> DisableAlertForwarding, disableCluster |-> DisableCluster,
   enableCluster |-> EnableCluster]
observabilityTuningCmd ==
  [advanced |-> ConfigureAdvanced, retention |-> ConfigureRetention, repair |-> RepairObservability]

\* The rights go with the last provider. A List that fails counts as empty, and
\* an error of their removal is only a warning.
idpCmd ==
  [configure |-> Configure \o WaitForApplied,
   remove |-> RemoveIdP \o <<Blind(Branch("jump", "idp-work", 1)), Try(Purge("oauth-rbac"))>>]
idpMoreCmd ==
  [list |-> Shows, rotate |-> Rotate, unique |-> ConfigureUnique \o WaitForApplied, sso |-> EnforceSSO]

accessCmd == [enable |-> EnableAccess, disable |-> DisableAccess, status |-> Shows, list |-> Shows]
accessProxyCmd == [enable |-> EnableProxy, disable |-> DisableProxy, status |-> Shows]

gitopsCmd == [create |-> CreateApp, get |-> Shows, list |-> Shows, delete |-> DeleteApp, sync |-> Sync]
gitopsAgentCmd == [enable |-> EnableAgentMode, disable |-> DisableAgentMode, status |-> Shows]

addonCmd == [get |-> Shows, configure |-> ConfigureAddOn, remove |-> RemoveConfig, list |-> Shows]
backupCmd ==
  [enable |-> EnableBackup, disable |-> DisableBackup, status |-> Shows, list |-> Shows,
   restore |-> Restore]

submarinerCmd == [enable |-> Enable, disable |-> Disable]

submarinerTestCmd(cleanup) == TestConnectivity(cleanup)
submarinerSetCmd == [repair |-> Repair, create |-> CreateTestSet]

-----------------------------------------------------------------------------
\* Workloads.

gpuStackCmd == [deploy |-> DeployStack, remove |-> RemoveStack, drift |-> Shows, queues |-> CreateClusterQueues]
gpuRoutingCmd ==
  [route |-> Shows, best |-> Shows, saturated |-> MarkSaturated(TRUE), clear |-> MarkSaturated(FALSE)]
gpuVersionCmd == [enforce |-> EnforceVersionPolicy, list |-> Shows]
gpuElasticCmd == [saturation |-> Shows, provision |-> ProvisionOnDemand, hibernate |-> HibernateIdle, list |-> Shows]

costCmd ==
  [stamp |-> StampCostCenter, centers |-> Shows, budgets |-> Shows, create |-> CreateBudgetPolicy,
   remove |-> RemoveBudgetPolicy]

\* Needs an observability that is installed; no Grafana URL is no error.
costDashboardCmd ==
  [deploy |-> <<Look("MCO")>> \o ConfigureMetrics({"cost"}) \o DeployCustomRules({"cost"})
                \o DeployDashboard \o Warned(<<List("grafana")>>),
   remove |-> RemoveDashboard \o RemoveCustomRuleGroup({"cost"})]

rightsizingCmd ==
  [enable |-> EnableRightsizing, disable |-> DisableRightsizing, advise |-> Advise, adjust |-> Adjust]

vmCmd ==
  [deploy |-> DeployVM, remove |-> RemoveVM, start |-> patchRunning(TRUE), stop |-> patchRunning(FALSE),
   migrate |-> Migrate]
vmOperatorCmd == [ensure |-> EnsureCNVOperator, status |-> Shows, remove |-> RemoveCNVOperator, list |-> Shows]

fleetScoringCmd == [configure |-> ConfigureScoring, status |-> Shows, remove |-> RemoveScoring, list |-> Shows]
fleetTaintCmd ==
  [add |-> AddTaint, remove |-> RemoveTaint, list |-> Shows, tolerant |-> CreateTolerantPlacement]

discoveryCmd ==
  [enable |-> EnableDiscovery, disable |-> DisableDiscovery, list |-> Shows, import |-> ImportDiscovered]
discoveryCloudCmd(credentials) ==
  [scan |-> Shows, import |-> AutoImport(credentials), status |-> Shows]
discoveryKubeconfigCmd(insecure) ==
  [scan |-> Shows, import |-> AutoImportKubeconfig(insecure), fix |-> FixTLS, list |-> Shows]

=============================================================================
