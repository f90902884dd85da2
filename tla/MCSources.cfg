SPECIFICATION Spec
CONSTANTS
  N = 3
  MaxHeld = 2
  MaxFaults = 2
  RedisFaults = 1
  Bad = {2}
  ReleasesInOrder = TRUE
  Adapters = {"kafka", "redis", "push", "azure"}
  Partitions = {0, 1}
  LogEnd <- LogEnds
  Invalid <- FirstOffsets
  Strategies = {"Earliest", "AlwaysEarliest"}
  BatchSize = 2
  Kinds = {"amqp", "pubsub", "mqtt"}
  Capacity = 1
  Limit = 2
  Returning = {1}
  MaxDequeueCount = 1
  MaxReads = 4
  NoType = {3}
  Large = {2}
INVARIANTS TypeOK SettledIsAnswered NothingPassedOver
PROPERTIES SettledStaysSettled EveryMessageIsOver
CHECK_DEADLOCK FALSE
