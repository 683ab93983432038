\* Growing and shrinking, long keys, failing allocations and the wild accesses
\* of a table that has outgrown its locks.
CONSTANTS
  k1 = k1
  k2 = k2
  k3 = k3
  long = long
  v1 = v1
  v2 = v2
  v3 = v3
  v4 = v4
  Null = Null
  Keys <- MCAllKeys
  LongKeys <- MCLongKeys
  Truncated <- MCTruncated
  hash <- MCAllHash
  Values <- MCValues
  SIZE_MAX <- MCSizeMax
  BUCKET_CAPACITY = 2
  CreateSizes = {1, 2}
  ResizeSizes = {0, 1, 2, 3, 7, 9}
  MaxBuckets = 8
  MallocMayFail = TRUE
  BitAnd <- MCBitAnd
  next_power_of_2 <- MCNextPowerOf2
SYMMETRY ValueSymmetry
SPECIFICATION Spec
INVARIANTS TypeOK Placement UniqueKeys CountExact OwnershipExact GrowthFits
PROPERTY ResizeKeepsEntries
CHECK_DEADLOCK FALSE
