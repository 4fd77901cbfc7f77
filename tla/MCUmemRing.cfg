SPECIFICATION Spec
CONSTANTS
  Frames = {1, 2, 3}
  RxSize = 2
  Batch = 2
  Capacity = 2
  k1 = k1
  k2 = k2
  Keys <- MCKeys
  MaxPackets = 4
  MaxRepeats = 1
SYMMETRY KeySymmetry
INVARIANTS
  FramesConserved
  AccountsAgree
  RecordsFaithful
CHECK_DEADLOCK FALSE
