SPECIFICATION FairSpec
CONSTANTS
  Agents = 2
  MaxAttempt = 2
  MaxEvents = 2
  MaxPanics = 1
INVARIANTS
  OneWake
  NoStaleResult
  StoppedMeansReaped
  RetryStartsWake
PROPERTIES
  WorkWakesPool
  ShutdownCompletes
CHECK_DEADLOCK FALSE
