SPECIFICATION RuntimeSpec
CONSTANTS
  Connection = {"openai", "local"}
  Model = {"large", "small"}
  MaxTurn = 3
  MaxSave = 1
  MaxSelect = 2
INVARIANTS RuntimeTypeOK TurnRunsOnLiveAgent TurnRunsOnItsConnection SignatureIsTrue
PROPERTIES TurnsGetAgents
CHECK_DEADLOCK FALSE
