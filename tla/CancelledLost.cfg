SPECIFICATION Spec
CONSTANTS
  c1 = c1
  Channels = {c1}
  MaxPending = 2
  MaxBatch = 1
  MaxRetries = 1
  DedupMode = "queue"
  CrashThreshold = 2
  Slots = {1}
  Handling = "steer"
  Periodic = FALSE
  Heartbeats = FALSE
  Membership = FALSE
  OwnerCommands = FALSE
  MaxEvents = 2
  MaxCreated = 1
  MaxLapses = 0
INVARIANTS
  CancelledEventsSurvive
CHECK_DEADLOCK FALSE
