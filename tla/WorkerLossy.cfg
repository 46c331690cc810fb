SPECIFICATION LoopFairSpec
CONSTANTS
  Tasks = {t1, t2}
  Checkpointing = TRUE
  LossyCalls = {"team_state", "held_task", "claim_next", "start", "report"}
  MaxIssues = 2
  MaxCrashes = 1
  MaxPauses = 1
INVARIANTS
  BoardIsTrue
  RunsOnlyWhatItStarted
PROPERTIES
  KeepsBoard
  StopIsHonoured
