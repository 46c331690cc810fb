SPECIFICATION FairSpec
CONSTANTS
  Tasks = {t1, t2}
  Checkpointing = TRUE
  LossyCalls = {"held_task"}
  MaxIssues = 0
  MaxCrashes = 1
  MaxPauses = 0
PROPERTIES
  StartedIsSettled
