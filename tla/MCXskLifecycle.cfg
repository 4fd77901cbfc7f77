CONSTANTS
  Receivers = {r1, r2}
  Recoverers = {x1}
  Queues = {q1}
  QueueOf <- MCQueueOf
  MaxLoaders = 1
  UnpinFails = TRUE
  Loader = Loader
  NoOne = NoOne
SPECIFICATION Spec
SYMMETRY MCSymmetry
INVARIANTS
  CaptureHasProgram
  ExitZeroIsFinal
  IInv
PROPERTY
  NoPinRemovedBeforeExport
  ImplementsOwnership
CHECK_DEADLOCK FALSE
