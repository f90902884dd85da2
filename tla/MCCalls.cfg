SPECIFICATION Spec
CONSTANTS
  MaxFaults = 3
  CallFaults = 2
  Adapters = {"stream", "unary", "interval", "kubernetes", "metrics"}
  Chunks = 3
  Calls = {1, 2, 3}
  Retries = 1
  QueueSize = 1
  Ticks = 3
  Objects = {1, 2}
  Versions = 2
  Scrapers = {1, 2}
INVARIANTS TypeOK StreamIsWhole ToldAsItIs
PROPERTIES EveryCallEnds
CHECK_DEADLOCK FALSE
