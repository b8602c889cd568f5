CONSTANTS
  Callers = {a, b}
  Initial = {c1}
  Spare = {s1}
  Faults = {"lost"}
  Retried = {}
  NoCluster = NoCluster
SPECIFICATION FairSpec

INVARIANT StandbyIsClaimable
PROPERTIES ReplacementReady OperationsReturn
