SPECIFICATION Spec
CONSTANTS
  Callers = {c1, c2}
  MaxFaults = 2
  Pairs <- MCPairs
  OneShot <- MCOneShot
INVARIANTS TypeOK NoDangling SetupComplete LastWord TeardownComplete
CHECK_DEADLOCK FALSE
PROPERTY Converges
