SPECIFICATION Spec
CONSTANTS
  Callers = {a, b, c}
  Left = {1, 2, 3, 4, 5, 6, 7}
  MaxMade = 2
CHECK_DEADLOCK FALSE
INVARIANTS TypeOK EvidenceForPhase HistoryTells
PROPERTIES KeptUnlessDeleted PhaseForward
SYMMETRY CallerSymmetry
