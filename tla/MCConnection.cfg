CONSTANTS
  Scripts       <- MCScripts
  ARGS_MAX      <- MCArgsMax
  LEN_MAX       <- MCLenMax
  WriteOutcomes <- Anything
  MallocMayFail = TRUE
  AcceptMayFail = TRUE
SPECIFICATION Spec
\* A stopped process is a state without a successor.
CHECK_DEADLOCK FALSE
INVARIANTS TypeOK AbortsAreExplained OpenIsTimed NoUseAfterFree ArgumentsFreedOnce OnlyCompleteCommands FirstCommandExecuted
PROPERTIES EventuallyFreed ImplementsLifecycle ServerCovers
