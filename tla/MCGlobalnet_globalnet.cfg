SPECIFICATION Spec
CONSTANTS
  Clusters = {x1, x2}
  Callers = {c1, c2}
  ListOf <- MCListOf
SYMMETRY Interchangeable
INVARIANTS TypeOK DistinctCIDRs
