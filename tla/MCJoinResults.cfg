CONSTANTS
  None = None
  p1 = p1
  p2 = p2
  Procs = {p1, p2}
  Packets <- MCPackets
  Calibrations <- MCCalibrations
  Base = 3
  Drift = 1
  MaxChanges = 1
SYMMETRY MCSymmetry
SPECIFICATION Spec
INVARIANT DecompositionExact
INVARIANT HonestIsComplete
 
INVARIANT NoExtrapolation
 
 
