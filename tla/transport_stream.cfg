SPECIFICATION Spec
CONSTANTS
  w1 = w1  w2 = w2  wsA = wsA  wsB = wsB
  Window = {w1}
  Workspace = {wsA, wsB}
  HomeWorkspace <- HomeA
  MaxSock = 2
  MaxPush = 3
  MaxSwitch = 1
  MaxRestart = 1
  MaxInFlight = 1
  Target <- ToAll
  EVENT_BUFFER_MAX_SIZE = 2
  MAX_DISCONNECTED = 1
  maxClients = 0
INVARIANTS TypeOK BufferIsSuffix OneHome AckedWasSeen
PROPERTIES StreamSpec
CHECK_DEADLOCK FALSE
