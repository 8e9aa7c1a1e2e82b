SPECIFICATION Spec
CONSTANTS
  Writers = {}
  Connectors = {init, refresh}
  InitSDK = init
  Reconnectors = {timeout}
  Closers = {}
  Nobody = Nobody
  MaxConns = 2
  MaxFailures = 1
  MaxRetry = 1
  ReconnectOnReadWriteFailureNumber = 2
  MaxReadWriteRetry = 5
PROPERTY AwaitsOngoingReconnect
CHECK_DEADLOCK FALSE
