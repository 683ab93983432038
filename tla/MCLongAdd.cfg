\* A key longer than a slot is added.
CONSTANTS
  k1 = k1
  k2 = k2
  k3 = k3
  long = long
  v1 = v1
  v2 = v2
  v3 = v3
  v4 = v4
  Null = Null
  Keys <- MCAllKeys
  LongKeys <- MCLongKeys
  Truncated <- MCTruncated
  hash <- MCAllHash
  Values <- MCValues
  SIZE_MAX <- MCSizeMax
  BUCKET_CAPACITY = 2
  CreateSizes = {2}
  ResizeSizes = {2}
  MaxBuckets = 8
  MallocMayFail = FALSE
  BitAnd <- MCBitAnd
  next_power_of_2 <- MCNextPowerOf2
SPECIFICATION Spec
INVARIANT AddedIsFound
CHECK_DEADLOCK FALSE
