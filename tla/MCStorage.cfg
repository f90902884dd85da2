SPECIFICATION Spec
CONSTANTS
  MaxFaults = 2
  CosmosFaults = 2
  Adapters = {"sinks", "cosmos", "upload"}
  Kinds = {"kafka", "redis", "pubsub", "objects", "bigquery", "amqp", "mqtt", "kafkaTx", "mssqlTable", "mssqlSproc"}
  Retries = 1
  RowsPerRequest = 2
  Poisons = {{}, {4}}
  Batches <- TwoBatches
  Dest <- TwoDestinations
  Instances = {1, 2}
  Outputs <- TwoInputs
  Frequency = 2
  Attempts = 2
  Snapshotters = {1, 2}
  Stores = {"events", "document", "slowDocument"}
  Verifications <- TwoVerifications
  UploadParts = 3
  SentTogether = {TRUE, FALSE}
INVARIANTS OkIsStored WrittenWhole LoadedIsPrefix
PROPERTIES EveryCallEnds
CHECK_DEADLOCK FALSE
