SPECIFICATION Spec
CONSTANTS
  Callers = {a}
  Left = {}
  MaxMade = 1
CHECK_DEADLOCK FALSE
INVARIANT AuditedHasReport
