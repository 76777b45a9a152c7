SPECIFICATION FairTurnsSpec
CONSTANTS
  MaxMessage = 3
  MaxRequest = 1
  MaxCancel = 1
  MaxExit = 1
INVARIANTS TurnsTypeOK HandledOnce NothingStranded OneTurnAtATime QueueInOrder
PROPERTIES ComesToRest
CHECK_DEADLOCK FALSE
