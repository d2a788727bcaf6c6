CONSTANTS
  MaxRetry = 2
  Conns = {c1, c2, c3}
  Options <- CheckedOptions
  MaxCancels = 1
  None = None
SPECIFICATION FairSpec
INVARIANTS CompletedOnce PooledClean ErrorReverted
PROPERTIES RpcEnds
CHECK_DEADLOCK FALSE
