SPECIFICATION Spec
CONSTANTS
  Callers = {c1}
  MaxFaults = 1
  Pairs <- MCRetried
  OneShot <- MCNone
PROPERTY Converges
CHECK_DEADLOCK FALSE
