SPECIFICATION Spec
CONSTANTS
  Keys = {k1, k2}
  Modes = {"mixed", "pass-xsk", "all-pass"}
  Capacity = 1
  MaxPackets = 3
  Timeout = 3
  Grace = 1
  Quiet = 2
  StablePolls = 1
  MaxStall = 1
SYMMETRY KeySymmetry
INVARIANTS
  DrainIsExact
  Conservation
CHECK_DEADLOCK FALSE
