SPECIFICATION Spec
CONSTANTS
  MDs = {a, b}
  First = a
  Callers = {p1, p2}
  MaxReplicas = 2
  Faults = {"error", "lost"}
INVARIANTS Remembered PowerInv
PROPERTIES RestoresCount SuccessIsSleep SuccessIsAwake
