CONSTANTS
  Plans <- Regions
  MaxSlots = 17
SPECIFICATION WgSpec
CHECK_DEADLOCK FALSE
INVARIANTS TypeWg BranchesCarried OneSuccessor RepairFenced
