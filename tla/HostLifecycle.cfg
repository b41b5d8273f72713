CONSTANTS
  Connections = {c1, c2, c3}
  Embedders = {e1}
  Server = Server
  After = After
  MaxCalls = 2
SPECIFICATION Spec
INVARIANTS TokensAccounted CloseMeansClosed StoppedMeansStopped ServeLeavesNothing
PROPERTIES StopEndsServe
CHECK_DEADLOCK FALSE
