SPECIFICATION Spec
CONSTANTS
  NDevs = 3
  Items = {"w1", "w2", "w3"}
  Plans <- ClosedPlan
  MaxConflictRounds = 2
  MaxRepairRounds = 0
  MaxInterrupts = 0

  
PROPERTIES
  RetryMakesProgress
