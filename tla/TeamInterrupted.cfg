SPECIFICATION FairSpec
CONSTANTS
  NDevs = 2
  Items = {"w1", "w2"}
  Plans <- AllPlans
  MaxConflictRounds = 1
  MaxRepairRounds = 0
  MaxInterrupts = 1
INVARIANTS
  LandedIsRecorded
  NothingLeftBehind
  OnlyInterruptionsRaise
  ScaffoldIsMerged
PROPERTIES
  NothingLandedIsLost
  KeepsContract
  Terminates
