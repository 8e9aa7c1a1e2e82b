SPECIFICATION Spec
CONSTANTS
  c1 = c1
  c2 = c2
  c3 = c3
  r1 = r1
  r2 = r2
  Calls = {c1, c2}
  ReqIds = {r1, r2}
  ReqId <- DistinctTwo
  NoBody = {c2}
  NoCall = NoCall
  Handlers = {h1}
  NoFrame = NoFrame
  Threshold = 1
  MaxFrames = 2
  MaxCloses = 1
  MaxConnects = 1
INVARIANT OneReconnectGoroutine
PROPERTIES RequestReplySpec
CHECK_DEADLOCK FALSE
