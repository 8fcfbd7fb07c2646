SPECIFICATION Spec
CONSTANTS
  L1s = {c1, c2}
  Threads = {1}
  Addrs = {x}
  NoL1 = NoL1
  Leases = {1}
  L1Ways = 1
  L2Ways = 1
  NUMBER_OF_TBES = 1
  Requests <- NoAtomics
  MaxRequests = 3
  AtomicRequests = 0
  IdleTicks = 0
PROPERTY FenceCovers
CHECK_DEADLOCK FALSE
