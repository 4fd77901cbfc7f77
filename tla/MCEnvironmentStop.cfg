CONSTANTS
  p1 = p1
  p2 = p2
  i1 = i1
  i2 = i2
  Policies <- MCPolicies
  Irqs <- MCIrqs
  Runs = 1
  MaxFaults = 0
SYMMETRY MCSymmetry
SPECIFICATION Spec
INVARIANT StopRemovesGroup
