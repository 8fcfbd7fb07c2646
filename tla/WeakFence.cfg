SPECIFICATION Spec
CONSTANTS
  L1s = {c1, c2}
  Threads = {1}
  Addrs = {x, y}
  NoL1 = NoL1
  Leases = {2}
  L1Ways = 1
  L2Ways = 2
  NUMBER_OF_TBES = 2
  Requests <- AllRequests
  MaxRequests = 4
  AtomicRequests = 1
  IdleTicks = 0
SYMMETRY Symmetry
INVARIANTS  UpgradeCurrent
PROPERTY FenceCoversRecorded
CHECK_DEADLOCK FALSE
