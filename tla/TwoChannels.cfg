SPECIFICATION Spec
CONSTANTS
  c1 = c1
  c2 = c2
  Channels = {c1, c2}
  MaxPending = 2
  MaxBatch = 1
  MaxRetries = 1
  DedupMode = "drop"
  CrashThreshold = 2
  Slots = {1, 2}
  Handling = "owner_interrupt"
  Periodic = FALSE
  Heartbeats = TRUE
  Membership = TRUE
  OwnerCommands = FALSE
  MaxEvents = 2
  MaxCreated = 1
  MaxLapses = 0
SYMMETRY ChannelSymmetry
INVARIANTS
  TurnExclusive
  OpenCircuitKeepsSlotEmpty
CHECK_DEADLOCK FALSE
