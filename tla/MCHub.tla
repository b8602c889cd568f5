------------------------------- MODULE MCHub -------------------------------
EXTENDS Hub, Commands, Tools

\* The operations of a pair as a command and a tool of the server run them.
Session(operation, up, down) == [operation EXCEPT !.up = up, !.down = down]
Keeping(operation, what) == [operation EXCEPT !.kept = @ \cup what]

\* What SetupCAPIControllers and EnsureCAPIAddons make stays.
CAPISetup ==
  Pair({}, provisionSetupCAPICmd \o EnsureCAPIAddons("aws"), <<>>, buildClusterResourceSet("aws"),
       {"controllers", "sccs", "key-pair", "calico", "aws-ccm", "ClusterResourceSet"})

ClusterSessions ==
  [ hive_aws |-> Session([Hive("aws", TRUE) EXCEPT !.held = {"ClusterImageSet"}],
                         provisionCreateCmd("hive", "aws"),
                         registerProvisioningTools("aws").acm_provision_destroy),
    hive_ibm |-> Session(Keeping(Hive("ibmcloud", FALSE), {"service-ids"}),
                         registerProvisioningTools("ibmcloud").acm_provision_create,
                         provisionDestroyCmd("ibmcloud", TRUE)),
    capi_aws |-> CAPI("aws"),
    capi_docker |-> Session(CAPI("docker"), provisionCreateCmd("capi", "docker"), DestroyCAPI),
    hypershift |-> Session(HyperShift, provisionCreateCmd("hypershift", ""), DestroyHyperShift),
    template |-> Session(Template, provisionTemplateCmd.create \o provisionTemplateCmd.apply,
                         provisionTemplateCmd.remove),
    capi_setup |-> CAPISetup,
    imported |-> Session(Imported, importClusterCmd(TRUE),
                         registerImportTools(TRUE).acm_detach_cluster),
    native_pool |-> Session(NativePool, poolCmd.create \o claimCmd.create,
                            registerPoolTools.acm_release_claim \o registerPoolTools.acm_delete_pool),
    upgrade_hive |-> Session(Upgrade(TRUE), upgradeCmd.start,
                             registerUpgradeTools.acm_upgrade_set_channel),
    upgrade_work |-> Session(Upgrade(FALSE), upgradeCmd.start,
                             registerUpgradeTools.acm_upgrade_set_channel),
    curator |-> Session(Curator, curatorCmd.apply, curatorCmd.remove),
    resumed |-> Session(Resumed, registerLifecycleTools.acm_lifecycle_recover_certs, resumeCmd(TRUE)),
    power |-> Session(Power, hibernateCmd, registerLifecycleTools.acm_resume_cluster),
    rollout |-> Session(Rollout, rolloutCmd.create \o rolloutCmd.strategy,
                        registerRolloutTools.acm_delete_rollout),
    ordered |-> Session(OrderedWork, workorderCmd.create, workorderCmd.remove),
    clusterset |-> Session(ClusterSet, clustersetCmd.create \o clustersetCmd.assign,
                           registerClusterSetTools.acm_remove_clusterset),
    global |-> Session(GlobalSet, clustersetGlobalCmd.enable \o clustersetGlobalCmd.bind,
                       clustersetGlobalCmd.unbind),
    scaling |-> Session(Scaling, scalingCmd.auto \o scalingSetupCmd.flavor,
                        registerScalingTools.acm_scaling_set),
    hosted |-> HostedScaling,
    newpool |-> Session(NewMachinePool, scalingSetupCmd.init, <<>>),
    reclaimed |-> Session(Reclaimed, reclamationCmd.set \o reclamationCmd.extend,
                          reclamationCmd.reclaim),
    recovery |-> Session(DisasterRecovery, recoveryCmd.enable \o recoveryCmd.failover,
                         recoveryCmd.disable),
    migrated |-> Session(Migrated, migrationCmd.plan \o migrationCmd.execute, migrationCmd.rollback),
    matrix |-> Session(Matrix, matrixCmd.provision, matrixCmd.destroy),
    discovered |-> Session(Discovered, discoveryCmd.import, <<>>),
    cloud |-> Session(CloudImport, discoveryCloudCmd(TRUE).import, <<>>),
    secured |-> Session(SecuredImport, discoveryKubeconfigCmd(TRUE).import,
                        discoveryKubeconfigCmd(TRUE).fix) ]

PlacedSessions ==
  [ policy |-> Session(PolicyPair, policyCmd.apply \o policyCmd.remediation \o policyCmd.disable,
                       registerPolicyTools.acm_remove_policy),
    quota |-> Session(Quota, registerPolicyTools.acm_apply_quota_policy, policyCmd.remove),
    policyset |-> Session(PolicySetPair, policySetCmd.apply, policySetCmd.remove),
    automation |-> Session(Automation, policyAutomateCmd.automate \o policyAutomationCmd.mode,
                           registerAutomationTools.acm_delete_automation),
    baseline |-> Session(Baseline, securityCmd.apply,
                         registerSecurityTools.acm_remove_security_baseline),
    rego |-> Session(CustomPolicy, securityPolicyCmd("gatekeeper").apply,
                     securityPolicyCmd("gatekeeper").remove),
    kyverno |-> Session(KyvernoPolicy, securityPolicyCmd("kyverno").apply,
                        securityPolicyCmd("kyverno").remove),
    scan |-> Session(ComplianceScan, complianceCmd.scan, complianceRemoveCmd.remove),
    compliance |-> Session(Compliance, complianceCmd.scan, complianceCmd.deploy),
    tenant |-> Session(Tenant, tenantCmd.deploy, registerTenantTools.acm_remove_tenant),
    mirror |-> Session(Mirror(TRUE), registerRegistryTools(TRUE).acm_registry_configure_mirror,
                       registryRemoveCmd),
    submariner |-> Session(Submariner, submarinerCmd.enable, submarinerCmd.disable),
    testset |-> Session(TestSet, submarinerSetCmd.create \o submarinerSetCmd.repair, <<>>),
    connectivity |-> Session(Connectivity, submarinerTestCmd(FALSE), Connectivity.down),
    retested |-> Session(Keeping(Connectivity, {cleanupTestResources[i] : i \in 1 .. 6}), <<>>,
                         submarinerTestCmd(TRUE)),
    gpustack |-> Session(GpuStack, gpuStackCmd.deploy \o gpuStackCmd.queues, gpuStackCmd.remove),
    version |-> Session(VersionPolicy, ProvisionForVersion \o gpuVersionCmd.enforce,
                        RemoveVersionPolicy),
    elastic |-> Session(ElasticCapacity, gpuElasticCmd.provision, gpuElasticCmd.hibernate),
    saturated |-> Session(ElasticCapacity, gpuRoutingCmd.clear, gpuRoutingCmd.saturated),
    budget |-> Session(Budget, costCmd.stamp \o costCmd.create, costCmd.remove),
    rightsizing |-> Session(Rightsizing, rightsizingCmd.enable \o rightsizingCmd.adjust,
                            rightsizingCmd.disable),
    vm |-> Session(VirtualMachine, vmCmd.deploy \o vmCmd.start \o vmCmd.migrate,
                   registerVirtualizationTools.acm_vm_remove),
    cnv |-> Session(CNVOperator, registerVirtualizationTools.acm_vm_ensure_cnv, vmOperatorCmd.remove),
    scoring |-> Session(Scoring, fleetScoringCmd.configure \o fleetTaintCmd.tolerant,
                        fleetScoringCmd.remove),
    tainted |-> Session(Tainted, fleetTaintCmd.add, fleetTaintCmd.remove) ]

PlatformSessions ==
  [ observability |-> Session(Observability, observabilityCmd.setup, monitorCmd.teardown),
    obsconfig |-> Session(ObservabilityConfig,
                          observabilityCmd.storage \o observabilityContentCmd.deployDashboard
                            \o observabilityAlertingCmd.alertmanager
                            \o observabilityTuningCmd.retention \o observabilityTuningCmd.advanced
                            \o observabilityAlertingCmd.disable,
                          observabilityContentCmd.removeDashboard \o observabilityAlertingCmd.enable),
    repaired |-> Session(Repaired, observabilityAlertingCmd.disableCluster,
                         observabilityTuningCmd.repair),
    rules |-> Session(CustomRules,
                      observabilityContentCmd.deployRules \o observabilityContentCmd.metrics,
                      CustomRules.down),
    costs |-> Session([Keeping(CustomRules, {"cost"}) EXCEPT !.held = {"MCO"}],
                      costDashboardCmd.deploy, costDashboardCmd.remove),
    idp |-> Session(IdentityProvider, idpMoreCmd.unique \o idpMoreCmd.rotate, idpCmd.remove),
    sso |-> Session(SingleSignOn, registerIdPTools.acm_enforce_sso, <<>>),
    access |-> Session(Access, accessCmd.enable, registerAccessTools.acm_disable_access),
    proxy |-> Session(Proxy, accessProxyCmd.enable, accessProxyCmd.disable),
    gitops |-> Session(GitOps, gitopsCmd.create \o gitopsCmd.sync,
                       registerGitOpsTools.acm_delete_appset),
    agent |-> Session(AgentMode, gitopsAgentCmd.enable, gitopsAgentCmd.disable),
    addon |-> Session(AddOn, addonCmd.configure, addonCmd.remove),
    backup |-> Session(Backup, backupCmd.enable \o backupCmd.restore,
                       registerBackupTools.acm_disable_backup),
    discovery |-> Session(Discovery, discoveryCmd.enable, discoveryCmd.disable) ]

MCPairs == ClusterSessions @@ PlacedSessions @@ PlatformSessions

\* Every teardown undoes its setup for certain, but for the two that branch on what
\* they find: of a cluster that is not Hive's, reclaiming deletes the
\* ManagedCluster, and DisableDR removes the works of the clusters it lists.
ASSUME MCTeardowns == \A n \in DOMAIN MCPairs \ {"reclaimed", "recovery"} : Undoes(MCPairs[n])

\* Operations that report an error when what they remove is not there, a creation
\* that refuses what an earlier attempt has made, and a test whose cleanup deletes
\* the objects of another one.
MCOneShot == {"hive_aws", "hive_ibm", "imported", "native_pool", "clusterset", "recovery", "rego",
              "kyverno", "mirror", "idp", "addon", "scoring", "discovery", "newpool", "tainted",
              "retested"}

\* One user of the command line, who repeats a command that has failed.
MCRetried == [hive |-> MCPairs["hive_aws"]]
MCNone == {}

=============================================================================
