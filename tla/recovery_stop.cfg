SPECIFICATION RecoverySpec
CONSTANTS
  MaxTurn = 2
  MaxStop = 1
  MaxExit = 0
PROPERTIES EveryTurnEnds
CHECK_DEADLOCK FALSE
