\* A table that never outgrows its locks, short keys, memory enough: the promise
\* of KVStore is kept.
CONSTANTS
  k1 = k1
  k2 = k2
  k3 = k3
  long = long
  v1 = v1
  v2 = v2
  v3 = v3
  v4 = v4
  Null = Null
  Keys <- MCKeys
  LongKeys <- NoLongKeys
  Truncated <- NotTruncated
  hash <- MCHash
  Values <- MCValues
  SIZE_MAX <- MCSizeMax
  BUCKET_CAPACITY = 2
  CreateSizes = {2}
  ResizeSizes = {0, 1, 2, 9}
  MaxBuckets = 8
  MallocMayFail = FALSE
  BitAnd <- MCBitAnd
  next_power_of_2 <- MCNextPowerOf2
SYMMETRY ValueSymmetry
SPECIFICATION Spec
PROPERTY ImplementsKVStore
CHECK_DEADLOCK FALSE
