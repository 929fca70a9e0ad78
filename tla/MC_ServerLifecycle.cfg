CONSTANTS
  MaxPosts <- MCMaxPosts
SPECIFICATION LifecycleSpec
CHECK_DEADLOCK FALSE
INVARIANT LifecycleTypeOK
INVARIANT AbortOnlyAfterStop
PROPERTY StopReturns
