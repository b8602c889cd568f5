----------------------------- MODULE NetworkOps -----------------------------
(***************************************************************************)
(* internal/submariner: the broker of a cluster set, the add-on and its    *)
(* configuration on each of two clusters, their repair, and the            *)
(* connectivity test.                                                      *)
(***************************************************************************)
EXTENDS HubSteps

On(kind, cluster) == kind \o "-" \o cluster

members == <<"a", "b">>

ensureBrokerCR == <<Ensure("broker-namespace"), Ensure("Broker")>>

buildBrokerCR == Refers("Broker", {"broker-namespace"})
buildSubmarinerConfig(cluster) == Refers(On("config", cluster), {On("ClusterDeployment", cluster)})

\* An error of the Get sends a configuration that is there to CreateIfNotExists,
\* which leaves it as it is.
createOrUpdateSubmarinerConfig(cluster) == Settle(On("config", cluster))

\* Without its ClusterDeployment a cluster is configured with no credentials.
lookupCredentialsSecret(cluster) == <<Try(Look(On("ClusterDeployment", cluster)))>>

clustersInSet == <<List("clusters")>>

EnableOn(cluster) ==
  lookupCredentialsSecret(cluster) \o <<Ensure(On("addon", cluster))>>
    \o createOrUpdateSubmarinerConfig(cluster)
    \o <<Patch(On("ManagedCluster", cluster), {"submariner"}, {})>>

Enable == clustersInSet \o Warned(ensureBrokerCR) \o Each(members, EnableOn)

\* A Get that fails counts as an add-on that is gone.
waitForAddonCleanup == ForEach(members, LAMBDA k : Blind(Refuse(On("addon", k))))

Disable ==
  clustersInSet
    \o Each(members, LAMBDA k : <<Try(Purge(On("addon", k))), Try(Purge(On("config", k))),
                                  Try(Patch(On("ManagedCluster", k), {}, {"submariner"}))>>)
    \o waitForAddonCleanup

spokes(kind) == {On(kind, members[i]) : i \in DOMAIN members}

Submariner ==
  Pair(spokes("ManagedCluster") \cup spokes("ClusterDeployment"), Enable, Disable,
       buildBrokerCR @@ buildSubmarinerConfig("a") @@ buildSubmarinerConfig("b"),
       {"broker-namespace", "Broker"})

-----------------------------------------------------------------------------
\* Repair notes what it could not do and returns no error. A deletion that is
\* stuck is the mark "deleting" on an add-on, finalizers that repeat the mark
\* "duplicates" on the set. A Get that fails counts as nothing there.

repairStuckAddons ==
  Each(members, LAMBDA k :
    Blindly(When(On("addon", k), <<Try(Patch(On("addon", k), {}, {"deleting"}))>>)))

repairBrokerCR == Blindly(Unless("Broker", Warned(ensureBrokerCR)))

repairDuplicateFinalizers ==
  Blindly(When("ManagedClusterSet", <<Try(Patch("ManagedClusterSet", {}, {"duplicates"}))>>))

Repair == clustersInSet \o repairStuckAddons \o repairBrokerCR \o repairDuplicateFinalizers

\* A test set: the clusters are looked for before anything is made.
labelClusterForSet(cluster) == Patch(On("ManagedCluster", cluster), {"clusterset"}, {})

CreateTestSet ==
  ForEach(members, LAMBDA k : Look(On("ManagedCluster", k)))
    \o <<Ensure("ManagedClusterSet")>> \o ForEach(members, labelClusterForSet)
    \o Warned(ensureBrokerCR)

TestSet ==
  Pair(spokes("ManagedCluster"), CreateTestSet \o Repair, <<>>, buildBrokerCR,
       {"ManagedClusterSet", "clusterset", "broker-namespace", "Broker"})

-----------------------------------------------------------------------------
\* The test: a server on b, a client on a. Its own objects are created whether
\* or not an earlier test has left some.

waitForServerReady  == <<Look("server-pod")>>
waitForClientResult == <<Look("client-pod")>>

cleanupTestResources ==
  <<"client-pod", "namespace-a", "server-pod", "ServiceExport", "service", "namespace-b">>

\* The cleanup is deferred: it follows whatever comes after the namespaces, also
\* an error, and its own errors are dropped.
runConnectivityTest(cleanup) ==
  LET testing == <<Admit("service"), Admit("ServiceExport"), Ensure("server-pod")>>
                   \o waitForServerReady \o <<Ensure("client-pod")>> \o waitForClientResult
  IN  <<Ensure("namespace-b"), Ensure("namespace-a")>>
        \o (IF cleanup
              THEN ForEach(testing, LAMBDA s : Undoing(s, cleanupTestResources))
                     \o TryEach(Purge, cleanupTestResources)
              ELSE testing)

TestConnectivity(cleanup) ==
  ForEach(members, LAMBDA k : Look(On("ManagedCluster", k)))
    \o ForEach(members, LAMBDA k : Look(On("addon", k)))
    \o runConnectivityTest(cleanup)

Connectivity ==
  Pair(spokes("ManagedCluster") \cup spokes("addon"), TestConnectivity(FALSE),
       TryEach(Purge, cleanupTestResources),
       [o \in {"service", "ServiceExport", "server-pod"} |-> {"namespace-b"}]
         @@ Refers("client-pod", {"namespace-a"}), {})

=============================================================================
