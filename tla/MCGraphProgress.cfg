CONSTANTS
  Plans <- Narrow
  MaxSlots = 13
SPECIFICATION WgSpec
CHECK_DEADLOCK FALSE
PROPERTIES StopSettles SlotIsTaken
