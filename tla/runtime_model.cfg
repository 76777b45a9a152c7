SPECIFICATION RuntimeSpec
CONSTANTS
  Connection = {"openai", "local"}
  Model = {"large", "small"}
  MaxTurn = 2
  MaxSave = 0
  MaxSelect = 3
INVARIANTS TurnRunsItsModel
CHECK_DEADLOCK FALSE
