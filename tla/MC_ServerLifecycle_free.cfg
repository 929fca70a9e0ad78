CONSTANTS
  MaxPosts <- MCMaxPosts
SPECIFICATION LifecycleSpec
CHECK_DEADLOCK FALSE
INVARIANT NoCallbackAfterFree
