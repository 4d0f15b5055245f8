SPECIFICATION Spec
CONSTANTS
  a = a
  b = b
  k1 = k1
  k2 = k2
  k3 = k3
  Pods = {a}
  Conns = {k1, k2, k3}
  NoPod = NoPod
  MaxGen = 2
  MaxRooms = 3
  MaxFaults = 0
  Drainable = {}
  PromptAdmission = TRUE
SYMMETRY Symmetric
INVARIANT OwnerPeerWatched
CHECK_DEADLOCK FALSE
