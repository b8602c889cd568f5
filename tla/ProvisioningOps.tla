--------------------------- MODULE ProvisioningOps ---------------------------
(***************************************************************************)
(* internal/provisioning: clusters through Hive, Cluster API and           *)
(* HyperShift, the credentials and templates they need, as the steps of    *)
(* one cluster's operations. Secrets stand for their suffix.               *)
(***************************************************************************)
EXTENDS HubSteps

\* What the builders put into the namespace of a Hive cluster.
buildCredentialsSecret(platform) == IF platform = "aws" THEN "aws-creds" ELSE "ibmcloud-creds"

\* install-config, pull-secret, credentials of the platform, and what else the
\* options ask for.
buildClusterDeployment(platform, ssh) ==
  Refers("ClusterDeployment",
         {"install-config", "pull-secret"}
           \cup (IF ssh THEN {"ssh-private-key"} ELSE {})
           \cup (CASE platform = "ibmcloud" -> {"manifests", "ibmcloud-creds"}
                   [] platform = "aws"      -> {"aws-creds"}
                   [] OTHER                 -> {}))

\* The secrets live in the cluster's namespace.
buildSecrets(platform) ==
  [s \in {buildCredentialsSecret(platform), "pull-secret", "install-config",
          "ssh-private-key", "manifests"} |-> {"namespace"}]

\* The IAM service IDs, policies and keys of ibmCloudCredentialRequests. Every
\* attempt makes its own, and removes them again when it fails.
generateIBMCloudCredentials == <<List("iam"), Upsert("service-ids")>>

\* The errors are not looked at.
cleanupIBMCloudCredentials == <<Try(List("iam")), Try(Purge("service-ids"))>>

\* The checks that can end it before anything is created. A Get of the
\* ClusterDeployment that fails counts as a name that is free.
checkClusterImageSet == <<Look("ClusterImageSet")>>
checkNameConflict == <<Blind(Refuse("ClusterDeployment"))>>
Preflight == checkClusterImageSet \o checkNameConflict \o <<List("quota")>>

CreateHive(platform, ssh) ==
  ForEach(<<"namespace", buildCredentialsSecret(platform), "pull-secret", "install-config">>, Ensure)
    \o If(ssh, <<Ensure("ssh-private-key")>>)
    \o If(platform = "ibmcloud", generateIBMCloudCredentials \o <<Ensure("manifests")>>)
    \o ForEach(<<"ClusterDeployment", "ManagedCluster", "KlusterletAddonConfig">>, Ensure)

DestroyHive(platform) ==
  <<Look("ClusterDeployment"), Delete("ClusterDeployment"), Try(Purge("ManagedCluster"))>>
    \o If(platform = "ibmcloud", cleanupIBMCloudCredentials)

\* CaptureInfraID, Destroy, the wait for Hive, CheckOrphans.
DestroyWithOrphanCheck(platform) ==
  <<Look("ClusterDeployment")>> \o DestroyHive(platform) \o <<List("removal"), List("orphans")>>

\* Hive deletes no secret; the namespace goes when the cluster is detached.
HiveKept(platform) == {"namespace", "KlusterletAddonConfig"} \cup DOMAIN buildSecrets(platform)

Hive(platform, ssh) ==
  Pair({}, CreateHive(platform, ssh), DestroyHive(platform),
       buildClusterDeployment(platform, ssh) @@ buildSecrets(platform), HiveKept(platform))

-----------------------------------------------------------------------------
\* Cluster API. The docker templates and control plane come with the provider.

buildCAPICluster == Refers("Cluster", {"namespace"})
buildCAPIClusterForAWS == Refers("Cluster", {"AWSCluster", "KubeadmControlPlane"})
buildCAPIMachineDeployment(provider) ==
  Refers("MachineDeployment",
         IF provider = "aws" THEN {"Cluster", "KubeadmConfigTemplate", "worker-template"}
                             ELSE {"Cluster"})
buildKubeadmControlPlane == Refers("KubeadmControlPlane", {"control-plane-template"})
buildAWSCluster == Refers("AWSCluster", {"namespace"})
buildAWSMachineTemplate ==
  [t \in {"control-plane-template", "worker-template"} |-> {"namespace"}]
buildKubeadmConfigTemplate == Refers("KubeadmConfigTemplate", {"namespace"})

createCAPIAWS ==
  ForEach(<<"AWSCluster", "control-plane-template", "KubeadmControlPlane", "Cluster",
            "worker-template", "KubeadmConfigTemplate", "MachineDeployment", "ManagedCluster">>,
          Ensure)

CreateCAPI(provider) ==
  <<Ensure("namespace")>>
    \o (IF provider = "aws" THEN createCAPIAWS
        ELSE ForEach(<<"Cluster", "MachineDeployment", "ManagedCluster">>, Ensure))

\* watchAndAutoImport, from the kubeconfig that the provider writes. It runs on
\* its own, and an error is only logged.
createCAPIAutoImportSecret == <<Try(Upsert("auto-import-secret"))>>

\* In the namespace that has the cluster's name, which is where the CLI creates.
DestroyCAPI ==
  <<Purge("MachineDeployment")>>
    \o ForEach(<<"KubeadmConfigTemplate", "worker-template", "KubeadmControlPlane",
                 "control-plane-template">>, LAMBDA o : Try(Purge(o)))
    \o <<Purge("Cluster"), Try(Purge("AWSCluster")), Purge("ManagedCluster")>>

CAPI(provider) ==
  Pair({}, CreateCAPI(provider) \o createCAPIAutoImportSecret, DestroyCAPI,
       (IF provider = "aws" THEN buildCAPIClusterForAWS ELSE buildCAPICluster)
         @@ buildCAPIMachineDeployment(provider) @@ buildKubeadmControlPlane @@ buildAWSCluster
         @@ buildAWSMachineTemplate @@ buildKubeadmConfigTemplate,
       {"namespace", "auto-import-secret"})

\* The addons every new CAPI cluster gets; nothing removes them.
buildClusterResourceSet(provider) ==
  Refers("ClusterResourceSet",
         {"calico"} \cup (IF provider = "aws" THEN {"aws-ccm"} ELSE {}))

EnsureCAPIAddons(provider) ==
  <<Ensure("calico")>> \o If(provider = "aws", <<Ensure("aws-ccm")>>)
    \o <<Ensure("ClusterResourceSet")>>

-----------------------------------------------------------------------------
\* The CAPI controllers, by clusterctl, kubectl, oc and aws.

installCAPIControllers == <<Apply("controllers")>>
upgradeCAPICRDs == <<Try(Update("controllers", {"v1beta2"}, {}))>>
grantCAPISCCs == <<Try(Apply("sccs"))>>
upgradeCAPIWebhooks == <<Try(Patch("controllers", {"v1beta2-webhooks"}, {}))>>
restartCAPIDeployments == <<Try(Patch("controllers", {"restarted"}, {}))>>
waitForCAPIPods == <<Try(List("pods"))>>

\* A description that fails counts as a key pair that is missing.
EnsureAWSSSHKeyPair == <<Try(Blind(Ensure("key-pair")))>>

\* Controllers that are found are not installed again; only an error of the
\* installation ends the setup.
SetupCAPIControllers ==
  Unless("controllers", installCAPIControllers)
    \o upgradeCAPICRDs \o upgradeCAPIWebhooks \o grantCAPISCCs \o restartCAPIDeployments
    \o waitForCAPIPods \o EnsureAWSSSHKeyPair

-----------------------------------------------------------------------------
\* HyperShift.

buildHostedCluster == Refers("HostedCluster", {"namespace", "pull-secret"})
buildNodePool == Refers("NodePool", {"HostedCluster"})

resolveHyperShiftReleaseImage == <<Look("ClusterImageSet")>>

CreateHyperShift ==
  resolveHyperShiftReleaseImage
    \o ForEach(<<"namespace", "pull-secret", "HostedCluster", "NodePool", "ManagedCluster">>, Ensure)

DestroyHyperShift ==
  <<Purge("NodePool"), Purge("HostedCluster"), Try(Purge("ManagedCluster"))>>

HyperShift ==
  Pair({"ClusterImageSet"}, CreateHyperShift, DestroyHyperShift,
       buildHostedCluster @@ buildNodePool, {"namespace", "pull-secret"})

-----------------------------------------------------------------------------
\* Templates: a ClusterDeploymentCustomization that a ClusterDeployment names.

CreateTemplate == <<Ensure("template")>>
ApplyTemplate  == <<Look("template"), Patch("ClusterDeployment", {"customization"}, {})>>
RemoveTemplate == <<Purge("template")>>

Template ==
  Pair({"ClusterDeployment"}, CreateTemplate \o ApplyTemplate, RemoveTemplate, NoRefs,
       {"customization"})

=============================================================================
