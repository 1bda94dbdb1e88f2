SPECIFICATION PartsSpec
CONSTANTS
  NumTasks = 3
  Macos = {2}
  NumPosts = 3
  Uploads <- MCUploads
  Limit = 2
  MaxDeleted = 1
  MaxTorn = 2
  NumRuns = 2
  Numbers = {0, 1, 2}
  Units = {"hr", "m", "s", "h", "x"}
  MaxTokens = 3
  Characters = 2
  MaxLength = 2
  NumKeys = 3
  Inputs <- MCInputs
  ShardCount = 3
  MaxNamespaces = 2
  MaxQueries = 2
  Volatile <- MCVolatile
  MaxEvents = 1
  Jobs <- MCJobs
  ShardCounts = {1, 2, 3}
  MaxFailed = 1
  MapOutputs <- MCMapOutputs
  NumShards = 2
  ReduceShards = 1
  BatchSize = 2
  MaxValues = 2
  MaxFailures = 1
  BlockSize = 4
  HeaderLength = 2
  BufferSize = 3
  FlushSize = 3
  MaxRequest = 10
  Lengths = {0, 1, 2, 5}
  NumWriters = 2
  MaxRecords = 3
  MaxMishaps = 1
  NumConsumers = 2
  Batch = 3
  Refill = 2
  Entities = 2
  MaxRefills = 2
  MaxSlices = 3
  MaxLosses = 1
INVARIANTS
  PartsTypeOK
  FilesBelongToResults ExportIsWhole
  VerdictIsOwn
  AttemptHasItsTime
  EachReadOnce
  EachLineRead
  ValuesReachReducer
  ReadIsWritten
  QuotaConserved
CHECK_DEADLOCK FALSE
