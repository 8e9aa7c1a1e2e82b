SPECIFICATION Spec
CONSTANTS
  Main = {main}
  Handlers = {h1}
  Beats = {b1}
  MaxInits = 1
  MaxMessages = 2
  Kinds = {"start", "update", "terminate", "refresh"}
INVARIANTS TypeOK ShutdownClosedOnce ReadyProcessIsReported
PROPERTIES HealthCheckEnds TerminatedProcessExits
CHECK_DEADLOCK FALSE
