SPECIFICATION FairSpec
CONSTANTS
  Tasks = {t1, t2}
  Checkpointing = TRUE
  LossyCalls = {"team_state"}
  MaxIssues = 0
  MaxCrashes = 1
  MaxPauses = 2
INVARIANTS
  TypeOK
  HoldsOnlyWhatItResumes
  ResumeFindsItsClone
  PausedRunIsKept
  RunIsShown
PROPERTIES
  KeepsBoardAlone
  StartedIsSettled
  ShownCatchesUp
