SPECIFICATION Spec
CONSTANTS
  w1 = w1  w2 = w2  wsA = wsA  wsB = wsB
  Window = {w1, w2}
  Workspace = {wsA, wsB}
  HomeWorkspace <- HomeAB
  MaxSock = 3
  MaxPush = 1
  MaxSwitch = 0
  MaxRestart = 0
  MaxInFlight = 1
  Target <- ToWorkspaces
  EVENT_BUFFER_MAX_SIZE = 1
  MAX_DISCONNECTED = 1
  maxClients = 0
PROPERTIES StreamSpec
CHECK_DEADLOCK FALSE
