CONSTANTS
  p1 = p1
  p2 = p2
  i1 = i1
  i2 = i2
  Policies <- MCPolicies
  Irqs <- MCIrqs
  Runs = 2
  MaxFaults = 2
SYMMETRY MCSymmetry
SPECIFICATION Spec
INVARIANT OwnershipRecorded
INVARIANT ReservedWhileRunning
INVARIANT ReleaseIsTrue
INVARIANT OthersSurvive
 
INVARIANT EndRestores
PROPERTY ReleaseFailsForCause
