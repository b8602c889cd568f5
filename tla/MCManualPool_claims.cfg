CONSTANTS
  Callers = {a, b}
  Initial = {c1, c2}
  Spare = {s1}
  Faults = {"error", "crash"}
  Retried = {}
  NoCluster = NoCluster
SPECIFICATION Spec
SYMMETRY Symmetry
VIEW Observed
INVARIANTS TypeOK ExclusiveClaim ClaimInv
PROPERTIES LeaseSpec ClaimTakesStandby NoStrayCluster
