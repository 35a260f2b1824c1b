SPECIFICATION Spec
CHECK_DEADLOCK FALSE
CONSTANTS
  Keys = {"alice", "bob"}
  MayFail = TRUE
  MaxCalls = 4
INVARIANT LockedMeansTaken
PROPERTIES ImplementsFifoLock EventuallyServed
