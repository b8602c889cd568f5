---------------------------- MODULE GovernanceOps ----------------------------
(***************************************************************************)
(* internal/policy, internal/security, internal/tenant and                 *)
(* internal/registry: what is placed on clusters by policies and works.    *)
(***************************************************************************)
EXTENDS HubSteps

\* internal/policy. The binding names the placement and the policy.
ensurePlacement == Ensure("Placement")
ensurePolicy    == Ensure("Policy")
ensurePlacementBinding == Ensure("PlacementBinding")
bindingRefs(subject) == Refers("PlacementBinding", {"Placement", subject})

Apply3 == <<ensurePlacement, ensurePolicy, ensurePlacementBinding>>

\* A policy that is not there, or is being deleted, leaves nothing to do.
Remove3 == <<QuitUnless("Policy")>> \o ForEach(<<"PlacementBinding", "Policy", "Placement">>, Purge)

SetRemediation == <<Patch("Policy", {"remediation"}, {})>>
SetDisabled    == <<Patch("Policy", {"disabled"}, {})>>

PolicyPair ==
  Pair({}, Apply3 \o SetRemediation \o SetDisabled, Remove3, bindingRefs("Policy"), {"Placement"})

\* A quota is two labels on the cluster and a policy.
stampQuotaLabels == <<Patch("ManagedCluster", {"max-workers"}, {})>>
ApplyQuotaPolicy == stampQuotaLabels \o Apply3

Quota ==
  Pair({"ManagedCluster"}, ApplyQuotaPolicy, Remove3, bindingRefs("Policy"), {"max-workers", "Placement"})

buildPolicySet == Refers("PolicySet", {"Policy"})
buildPolicySetBinding == bindingRefs("PolicySet")

ApplyPolicySet == ForEach(<<"PolicySet", "Placement", "PlacementBinding">>, Ensure)
RemovePolicySet ==
  <<QuitUnless("PolicySet")>> \o ForEach(<<"PlacementBinding", "Placement", "PolicySet">>, Purge)

PolicySetPair ==
  Pair({"Policy"}, ApplyPolicySet, RemovePolicySet, buildPolicySet @@ buildPolicySetBinding, {})

-----------------------------------------------------------------------------
\* internal/security: a baseline is a Gatekeeper work and a health policy.

buildHealthPlacementBinding == bindingRefs("Policy")

ApplyBaseline == ForEach(<<"ManifestWork", "Policy", "Placement", "PlacementBinding">>, Ensure)

\* The policy goes without a look at the errors, and only while the work is there.
RemoveBaseline ==
  <<QuitUnless("ManifestWork"), Purge("ManifestWork")>>
    \o TryEach(Purge, <<"PlacementBinding", "Placement", "Policy">>)

Baseline ==
  Pair({}, ApplyBaseline, RemoveBaseline, buildHealthPlacementBinding,
       {"Policy", "Placement", "PlacementBinding"})

\* A Rego or Kyverno policy: one work, and an error when it is not there.
ApplyCustomPolicy   == <<List("rego"), Ensure("ManifestWork")>>
ApplyKyvernoPolicy  == <<List("yaml"), Ensure("ManifestWork")>>
RemoveCustomPolicy  == <<Look("ManifestWork"), Purge("ManifestWork")>>
RemoveKyvernoPolicy == <<Look("ManifestWork"), Purge("ManifestWork")>>

CustomPolicy  == Pair({}, ApplyCustomPolicy, RemoveCustomPolicy, NoRefs, {})
KyvernoPolicy == Pair({}, ApplyKyvernoPolicy, RemoveKyvernoPolicy, NoRefs, {})

-----------------------------------------------------------------------------
\* internal/security, compliance: an operator and a scan. A deployment that
\* fails takes back what the steps before it stand for.

buildCompliancePlacementBinding == Refers("op-binding", {"op-placement", "op-health"})
buildComplianceScanPlacementBinding == Refers("scan-binding", {"scan-placement", "scan-policy"})

DeployComplianceOperator ==
  <<Ensure("OperatorPolicy"),
    Undoing(Ensure("op-health"), <<"OperatorPolicy">>),
    Undoing(Ensure("op-placement"), <<"op-health", "OperatorPolicy">>),
    Undoing(Ensure("op-binding"), <<"op-placement", "op-health", "OperatorPolicy">>)>>

CreateComplianceScan == ForEach(<<"scan-policy", "scan-placement", "scan-binding">>, Ensure)

\* Removes the operator with the scan; no error is returned.
RemoveComplianceScan ==
  TryEach(Purge, <<"scan-binding", "scan-placement", "scan-policy",
                   "op-binding", "op-placement", "op-health", "OperatorPolicy">>)

ComplianceScan ==
  Pair({}, CreateComplianceScan, RemoveComplianceScan, buildComplianceScanPlacementBinding, {})

\* The operator comes second, so that a deployment may take back what is another's.
Compliance ==
  Pair({}, CreateComplianceScan, DeployComplianceOperator,
       buildCompliancePlacementBinding @@ buildComplianceScanPlacementBinding,
       {"scan-policy", "scan-placement", "scan-binding", "OperatorPolicy", "op-health",
        "op-placement", "op-binding"})

-----------------------------------------------------------------------------
\* internal/tenant: one work with four manifests.

Deploy == <<Ensure("ManifestWork")>>
RemoveTenant == <<QuitUnless("ManifestWork"), Purge("ManifestWork")>>

Tenant == Pair({}, Deploy, RemoveTenant, NoRefs, {})

\* internal/registry. The registry names the pull secret, also when no path to
\* one was given and createPullSecret is left out.
ensureClusterSetBinding == Ensure("ManagedClusterSetBinding")
createPlacement  == Ensure("Placement")
createPullSecret == <<List("pull-secret-file"), Ensure("pull-secret")>>
createImageRegistry == Ensure("ManagedClusterImageRegistry")
registryRefs == Refers("ManagedClusterImageRegistry", {"Placement", "pull-secret"})

ConfigureMirror(withSecret) ==
  <<ensureClusterSetBinding, createPlacement>> \o If(withSecret, createPullSecret)
    \o <<createImageRegistry>>

RemoveMirror ==
  <<Look("ManagedClusterImageRegistry")>>
    \o ForEach(<<"ManagedClusterImageRegistry", "Placement", "pull-secret",
                 "ManagedClusterSetBinding">>, Purge)

Mirror(withSecret) == Pair({}, ConfigureMirror(withSecret), RemoveMirror, registryRefs, {})

=============================================================================
