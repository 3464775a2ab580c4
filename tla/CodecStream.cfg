CONSTANTS
  Bytes = {0, 1, 2, 3, 4}
  Zero = 0
  PREPEND = 3
  INITIAL_SIZE = 2
  READ_MIN = 4
  HEADER_LEN = 3
  Magic = 1
  RPC_WORD = 7
  MBAP_LEN = 4
  MODBUS_WORD = 5
  CRLFCRLF = 4
  Codecs = {"rpc", "modbus", "http"}
  Metas = {0, 1}
  Bodies <- MCBodies
  FreshMessage = TRUE
  MaxSent = 3
  MaxInFlight = 5
SPECIFICATION Spec
INVARIANTS
  TypeOK
  NothingLeftBehind
PROPERTIES
  RefinesFunctorQueue
\* everything has been sent and received
CHECK_DEADLOCK FALSE
