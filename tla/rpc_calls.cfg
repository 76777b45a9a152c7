SPECIFICATION FairRpcSpec
CONSTANTS
  MaxCall = 2
  MaxInvoke = 1
  MaxIssued = 2
  MaxSock = 2
  MaxManual = 1
  MaxRestart = 1
INVARIANTS RpcTypeOK NoCallStranded OneConnection
PROPERTIES CallsSpec CallsSettle
CHECK_DEADLOCK FALSE
