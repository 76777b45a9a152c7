SPECIFICATION RecoverySpec
CONSTANTS
  MaxTurn = 3
  MaxStop = 1
  MaxExit = 1
INVARIANTS RecoveryTypeOK AnsweredInTime TimerMatchesState
PROPERTIES CleanTurnsEnd
CHECK_DEADLOCK FALSE
