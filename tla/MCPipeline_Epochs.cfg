SPECIFICATION Spec
CONSTANTS
  Messages = 3
  MaxExternal = 1
  HandlerFaults = 1
  Adapters = {"cache"}
  Parallel = 2
  InputCapacity = 2
  OutputCapacity = 2
  MaxBatch = 2
  Dupes = {3}
  Undecided = {}
  KeyOf <- TwoKeys
  CacheSize = 1
  MaxExpired = 1
  MaxEpoch = 3
INVARIANT NoStaleStored
CHECK_DEADLOCK FALSE
