------------------------------- MODULE Tools -------------------------------
(***************************************************************************)
(* internal/mcp: the tools of the MCP server, by the function that         *)
(* registers them. They call the packages as the commands do, but skip     *)
(* some of what a command does around the call.                            *)
(***************************************************************************)
EXTENDS ProvisioningOps, ClusterOps, NetworkOps, GovernanceOps, PlatformOps, WorkloadOps

\* A tool that only answers with what it finds.
Answers == <<List("hub")>>

registerFleetTools ==
  [acm_fleet_status |-> Answers, acm_list_managed_clusters |-> Answers,
   acm_get_managed_cluster |-> Answers]

registerMonitoringTools == [acm_list_cluster_resources |-> Answers, acm_cluster_resources |-> Answers]

\* Three lists, of which one that fails is part of the answer.
registerHealthTool == [acm_hub_health |-> Warned(Answers) \o Warned(Answers) \o Warned(Answers)]

\* Nothing is checked before a creation.
registerProvisioningTools(platform) ==
  [acm_provision_preflight |-> Preflight, acm_provision_create |-> CreateHive(platform, FALSE),
   acm_provision_destroy |-> DestroyHive(platform), acm_provision_status |-> Answers,
   acm_provision_list |-> Answers, acm_list_image_sets |-> Answers]

\* The certificates are a tool of their own.
registerLifecycleTools ==
  LET supported == <<Look("ClusterDeployment")>>
      state     == Warned(<<Look("ClusterDeployment")>>)
  IN  [acm_hibernate_cluster |-> supported \o Hibernate \o state,
       acm_resume_cluster |-> supported \o Resume \o state,
       acm_lifecycle_status |-> Answers, acm_lifecycle_diagnose |-> Answers,
       acm_lifecycle_recover_certs |-> PostResumeRecovery, acm_list_lifecycle_clusters |-> Answers]

registerImportTools(kubeconfig) ==
  [acm_import_cluster |-> Import(kubeconfig), acm_detach_cluster |-> Detach,
   acm_import_status |-> Answers, acm_list_imported_clusters |-> Answers]

\* There is no tool that removes a mirror.
registerRegistryTools(withSecret) ==
  [acm_registry_list_images |-> Answers, acm_registry_configure_mirror |-> ConfigureMirror(withSecret),
   acm_registry_mirror_status |-> Answers, acm_registry_generate_mirror_script |-> Answers]

registerScalingTools ==
  [acm_scaling_get |-> GetMachinePool, acm_scaling_set |-> SetReplicasAuto,
   acm_scaling_auto |-> EnableAutoscaling, acm_scaling_list |-> Answers,
   acm_scaling_set_flavor |-> SetFlavor]

registerUpgradeTools ==
  [acm_upgrade_status |-> Answers, acm_upgrade_list |-> Answers,
   acm_upgrade_set_channel |-> SetChannel, acm_upgrade_start |-> StartUpgrade,
   acm_upgrade_history |-> Answers]

registerPoolTools ==
  [acm_create_pool |-> CreatePool, acm_list_pools |-> Answers, acm_get_pool |-> Answers,
   acm_delete_pool |-> DeletePool, acm_create_claim |-> Claim, acm_release_claim |-> ReleaseClaim,
   acm_list_claims |-> Answers]

registerRolloutTools ==
  [acm_create_rollout |-> CreateRollout, acm_get_rollout |-> Answers, acm_list_rollouts |-> Answers,
   acm_delete_rollout |-> DeleteRollout, acm_update_rollout_strategy |-> UpdateStrategy]

registerClusterSetTools ==
  [acm_list_clustersets |-> Answers, acm_create_clusterset |-> CreateClusterSet,
   acm_remove_clusterset |-> RemoveClusterSet, acm_assign_cluster_to_set |-> Assign]

-----------------------------------------------------------------------------

registerPolicyTools ==
  [acm_list_policies |-> Answers, acm_get_policy |-> Answers, acm_apply_policy |-> Apply3,
   acm_remove_policy |-> Remove3, acm_apply_quota_policy |-> ApplyQuotaPolicy,
   acm_quota_status |-> Answers, acm_set_policy_remediation |-> SetRemediation]

registerSecurityTools ==
  [acm_apply_security_baseline |-> ApplyBaseline, acm_security_status |-> Answers,
   acm_list_security_baselines |-> Answers, acm_remove_security_baseline |-> RemoveBaseline]

registerTenantTools ==
  [acm_deploy_tenant |-> Deploy, acm_remove_tenant |-> RemoveTenant, acm_list_tenants |-> Answers,
   acm_tenant_status |-> Answers]

\* The rights of the last provider stay.
registerIdPTools ==
  [acm_configure_idp |-> Configure, acm_configure_unique_idp |-> ConfigureUnique,
   acm_enforce_sso |-> EnforceSSO, acm_remove_idp |-> RemoveIdP, acm_list_idps |-> Answers,
   acm_rotate_idp |-> Rotate]

registerAccessTools ==
  [acm_enable_access |-> EnableAccess, acm_disable_access |-> DisableAccess,
   acm_access_status |-> Answers, acm_list_access |-> Answers]

registerGitOpsTools ==
  [acm_create_appset |-> CreateApp, acm_get_appset |-> Answers, acm_list_appsets |-> Answers,
   acm_delete_appset |-> DeleteApp, acm_sync_appset |-> Sync]

registerBackupTools ==
  [acm_enable_backup |-> EnableBackup, acm_disable_backup |-> DisableBackup,
   acm_backup_status |-> Answers, acm_list_backups |-> Answers, acm_restore_backup |-> Restore]

registerAutomationTools ==
  [acm_create_automation |-> CreateAutomation, acm_get_automation |-> Answers,
   acm_list_automations |-> Answers, acm_delete_automation |-> DeleteAutomation,
   acm_set_automation_mode |-> UpdateMode]

registerVirtualizationTools ==
  [acm_vm_deploy |-> DeployVM, acm_vm_remove |-> RemoveVM, acm_vm_start |-> patchRunning(TRUE),
   acm_vm_stop |-> patchRunning(FALSE), acm_vm_migrate |-> Migrate, acm_vm_status |-> Answers,
   acm_vm_list |-> Answers, acm_vm_ensure_cnv |-> EnsureCNVOperator, acm_vm_cnv_status |-> Answers,
   acm_vm_remove_cnv |-> RemoveCNVOperator]

=============================================================================
