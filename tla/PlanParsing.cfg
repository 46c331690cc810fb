SPECIFICATION Spec
CONSTANTS
  MaxDevs = 2
  Ids = {"a", "w1", "w2", "w3"}
  PositionId <- PositionIds
  Entries <- SomeEntries
  MaxEntries = 3
  MaxPieces = 2
INVARIANTS
  TypeOK
  PlanWithinCap
  KeepsTheFirstUsable
  OneUsableIsEnough
  RepeatsAreTheReplys
