CONSTANTS
  Configs <- MCConfigs
  Times <- MCTimes
  Prompt = 4
  WriteTime = 4000
SPECIFICATION FairSpec
INVARIANTS
  LoadsOutlive
  PromptRunsSucceed
PROPERTY Termination
CHECK_DEADLOCK FALSE
