SPECIFICATION FairSpec
CONSTANTS
  Ids = {r1}
  Clusters = {k1, k2}
  Callers = {p1, p2}
  Faults = {"error", "lost", "cancel"}
  NoId = NoId
  NoCluster = NoCluster
CHECK_DEADLOCK FALSE
INVARIANTS TypeOK AdmittedOnce GrantStands PlacementDeleted
PROPERTIES LifecycleSpec CallsReturn
