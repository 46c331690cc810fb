SPECIFICATION FairTaskSpec
CONSTANTS
  NDevs = 2
  Items = {"w1", "w2"}
  Plans <- SomePlans
  MaxConflictRounds = 0
  MaxRepairRounds = 0
  MaxInterrupts = 1
  Strategies = {"local", "push", "pr"}
  MaxRuns = 2
INVARIANTS
  TaskTypeOK
  SucceededIsPublished
  MissingBranchesAreReported
  RequestsAreBacked
  
PROPERTIES
  FirstRunIsTeamGraph
  EachRunEnds
