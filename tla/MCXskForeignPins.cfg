CONSTANTS
  Receivers = {r1}
  Recoverers = {x1}
  Queues = {q1}
  QueueOf <- MCQueueOf
  MaxLoaders = 2
  UnpinFails = FALSE
  Loader = Loader
  NoOne = NoOne
SPECIFICATION Spec
INVARIANT RecoveryRemovesItsOwn
CHECK_DEADLOCK FALSE
