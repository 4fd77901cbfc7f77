CONSTANTS
  Receivers = {r1}
  Recoverers = {x1}
  Queues = {q1}
  QueueOf <- MCQueueOf
  MaxLoaders = 1
  UnpinFails = FALSE
  Loader = Loader
  NoOne = NoOne
SPECIFICATION Spec
INVARIANT RemainingPinsRecoverable
CHECK_DEADLOCK FALSE
