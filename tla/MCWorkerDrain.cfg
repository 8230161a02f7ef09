SPECIFICATION MCSpec
CONSTANTS
  Request = {r1, r2}
  Url = {u1}
  Model = {old, new}
  Alias = {public}
  Routes <- MCRoutes
  MaxWorkers = 2
  MaxAttempts = 2
  None = None
  SinkCapacity = 1
  SinkBatch = 2
  MaxLines = 2
  ModelFile = {index, single, shard}
  Index = index
  Single = single
  Manifest = manifest
  Stray = stray
  Timeout = 2
  Poll = 1
  HASH_WORKERS = 2
  WORKERS = 2
  MaxRestarts = 2
INVARIANTS OpenCounted EmptyStays SilenceMeansDelivered 
PROPERTIES  StopEnds StartSettles
CHECK_DEADLOCK FALSE
