\* One bucket for ever, and memory that may fail.
CONSTANTS
  k1 = k1
  k2 = k2
  v1 = v1
  v2 = v2
  v3 = v3
  Null = Null
  Keys <- MCKeys
  LongKeys <- NoLongKeys
  Truncated <- NotTruncated
  hash <- MCHash
  Values <- MCValues
  SIZE_MAX <- MCSizeMax
  BUCKET_CAPACITY = 1
  CreateSizes = {1}
  ResizeSizes = {1}
  MaxBuckets = 4
  MallocMayFail = TRUE
  MaxArgc = 2
  BitAnd <- MCBitAnd
  next_power_of_2 <- MCNextPowerOf2
SPECIFICATION CommandsSpec
INVARIANT NotFoundIsNotThere
CHECK_DEADLOCK FALSE
