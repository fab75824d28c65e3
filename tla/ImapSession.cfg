SPECIFICATION FairSpec
CONSTANTS
  Messages = {1, 2}
  MaxChanges = 2
CHECK_DEADLOCK FALSE
INVARIANTS  LatchWakes
PROPERTY IdleCatchesUp
