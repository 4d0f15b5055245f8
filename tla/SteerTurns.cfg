SPECIFICATION Spec
CONSTANTS
  c1 = c1
  Channels = {c1}
  MaxPending = 2
  MaxBatch = 2
  MaxRetries = 1
  DedupMode = "queue"
  CrashThreshold = 2
  Slots = {1}
  Handling = "steer"
  Periodic = TRUE
  Heartbeats = FALSE
  Membership = TRUE
  OwnerCommands = TRUE
  MaxEvents = 2
  MaxCreated = 1
  MaxLapses = 1
INVARIANTS
  TypeOK
  SettledEventsGone
  EventInOnePlace
  WithheldHasAck
  NoStaleSession
  UncancelledEventsAccounted
  SlotExclusive
PROPERTIES
  BackoffHonoured
  TurnsUntilLapse
CHECK_DEADLOCK FALSE
