SPECIFICATION FairSpec
CONSTANTS
  c1 = c1
  Channels = {c1}
  MaxPending = 1
  MaxBatch = 1
  MaxRetries = 1
  DedupMode = "queue"
  CrashThreshold = 2
  Slots = {1}
  Handling = "steer"
  Periodic = FALSE
  Heartbeats = TRUE
  Membership = FALSE
  OwnerCommands = FALSE
  MaxEvents = 2
  MaxCreated = 1
  MaxLapses = 0
INVARIANTS
  QueueWithinCap
PROPERTIES
  QueuedWorkServed
  WithheldResolved
  SlotRefilled
CHECK_DEADLOCK FALSE
