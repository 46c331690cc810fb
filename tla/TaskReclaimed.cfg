SPECIFICATION TaskSpec
CONSTANTS
  NDevs = 2
  Items = {"w1", "w2"}
  Plans <- SomePlans
  MaxConflictRounds = 0
  MaxRepairRounds = 0
  MaxInterrupts = 0
  Strategies = {"pr"}
  MaxRuns = 2
INVARIANTS
  SucceededMeansLanded
