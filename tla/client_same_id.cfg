SPECIFICATION Spec
CONSTANTS
  c1 = c1
  c2 = c2
  c3 = c3
  r1 = r1
  r2 = r2
  Calls = {c1, c2}
  ReqIds = {r1}
  ReqId <- SharedTwo
  NoBody = {c2}
  NoCall = NoCall
  Handlers = {h1, h2}
  NoFrame = NoFrame
  Threshold = 2
  MaxFrames = 2
  MaxCloses = 1
  MaxConnects = 1
INVARIANTS TypeOK RegisteredChannelIsFresh NoOrphanedWaiter NoEntryOutlivesItsCall
PROPERTY EverySentCallEnds
CHECK_DEADLOCK FALSE
