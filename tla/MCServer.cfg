\* One command of each client, in every order, with memory that may fail.
CONSTANTS
  k1 = k1
  c1 = c1
  c2 = c2
  Null = Null
  Clients <- MCClients
  Keys <- MCKeys
  LongKeys <- NoLongKeys
  Truncated <- NotTruncated
  hash <- MCHash
  Values <- MCBlocks
  SIZE_MAX <- MCSizeMax
  BUCKET_CAPACITY = 1
  CreateSizes = {1}
  ResizeSizes = {2}
  MaxBuckets = 2
  MallocMayFail = TRUE
  MaxArgc = 1
  BitAnd <- MCBitAnd
  next_power_of_2 <- MCNextPowerOf2
SPECIFICATION ServerSpec
\* A stopped process is a state without a successor.
CHECK_DEADLOCK FALSE
INVARIANTS ServerTypeOK BlocksHaveOneOwner
PROPERTY EveryoneLetGo
