SPECIFICATION FairSpec
CONSTANTS
  w1 = w1  w2 = w2  wsA = wsA  wsB = wsB
  Window = {w1}
  Workspace = {wsA, wsB}
  HomeWorkspace <- HomeA
  MaxSock = 2
  MaxPush = 2
  MaxSwitch = 1
  MaxRestart = 1
  MaxInFlight = 1
  Target <- ToAllOrClients
  EVENT_BUFFER_MAX_SIZE = 1
  MAX_DISCONNECTED = 1
  maxClients = 0
PROPERTIES EventuallyInformed
CHECK_DEADLOCK FALSE
