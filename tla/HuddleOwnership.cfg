SPECIFICATION FairSpec
CONSTANTS
  a = a
  b = b
  k1 = k1
  k2 = k2
  k3 = k3
  Pods = {a, b}
  Conns = {k1, k2}
  NoPod = NoPod
  MaxGen = 2
  MaxRooms = 3
  MaxFaults = 1
  Drainable = {a}
  PromptAdmission = TRUE
INVARIANTS RenewerReachable DrainedNotRenewed NoGhostPeers
PROPERTIES LeaseSpec DrainedPodLetsGo
CHECK_DEADLOCK FALSE
