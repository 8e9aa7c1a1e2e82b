SPECIFICATION Spec
CONSTANTS
  Writers = {w1}
  Connectors = {init}
  InitSDK = init
  Reconnectors = {}
  Closers = {shutdown}
  Nobody = Nobody
  MaxConns = 2
  MaxFailures = 1
  MaxRetry = 1
  ReconnectOnReadWriteFailureNumber = 2
  MaxReadWriteRetry = 5
INVARIANTS TypeOK OneWriterOrConnector
PROPERTY ReaderOfClosedEnds
CHECK_DEADLOCK FALSE
