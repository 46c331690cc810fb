SPECIFICATION Spec
CONSTANTS
  NDevs = 2
  Items = {"w1", "w2"}
  Plans <- OnePlan
  MaxConflictRounds = 1
  MaxRepairRounds = 1
  MaxInterrupts = 0
PROPERTIES
  FirstConflictIsRetried
