CONSTANTS
  Callers = {a, b}
  Initial = {c1}
  Spare = {s1}
  Faults = {}
  Retried = {"create", "wait"}
  NoCluster = NoCluster
SPECIFICATION Spec

INVARIANT ExclusiveClaim
