CONSTANTS
  Scripts       <- MCTwo
  ARGS_MAX      <- MCArgsMax
  LEN_MAX       <- MCLenMax
  WriteOutcomes <- OnlySent
  MallocMayFail = FALSE
  AcceptMayFail = FALSE
SPECIFICATION Spec
\* A stopped process is a state without a successor.
CHECK_DEADLOCK FALSE
INVARIANT EveryCommandExecuted
