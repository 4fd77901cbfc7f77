SPECIFICATION Spec
CONSTANTS
  MaxChanges = 2
  NoConfig = NoConfig
INVARIANTS
  ReadyMeansStamping
  RestoredIsBaseline
  DeclinesOnlyForOthers
PROPERTY OthersSurvive
CHECK_DEADLOCK FALSE
