CONSTANTS
  Vectors = {6, 13, 14}
  TssBase <- MCTssBase
SPECIFICATION Spec
INVARIANTS ArgumentsArrive CallPreserves FaultSeen OneShell
CHECK_DEADLOCK FALSE
