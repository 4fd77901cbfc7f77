SPECIFICATION Spec
CONSTANTS
  Flows = {f1, f2}
  Runs = 2
  MaxFaults = 1
SYMMETRY FlowSymmetry
INVARIANTS
  CompleteAtBothEnds
  ShutdownOrder
  OnlyFaultsFail
  CompleteMeansCaptured
  NeverStuck
CHECK_DEADLOCK FALSE
