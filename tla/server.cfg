SPECIFICATION FairSpec
CONSTANTS
  Conns = {k1, k2, k3}
  Workers = 2
  KeepAliveMax = 2
  MaxStarts = 2
  AcceptErrors = TRUE
CHECK_DEADLOCK FALSE
INVARIANTS ServerOutlivesItsThreads AtMostOneLateRequest StopLeavesNothing
PROPERTIES ReadyStopReturns EveryConnectionEnds
