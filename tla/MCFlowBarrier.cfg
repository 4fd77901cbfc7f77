SPECIFICATION FairSpec
CONSTANT Expected = 3
INVARIANTS
  SavedAfterRelease
  ReportsAreTrue
  RecordsSurvive
PROPERTIES
  StopIsReported
  ReleasedEnds
CHECK_DEADLOCK FALSE
