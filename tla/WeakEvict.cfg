SPECIFICATION FairSpec
CONSTANTS
  L1s = {c1, c2}
  Threads = {1}
  Addrs = {x, y}
  NoL1 = NoL1
  Leases = {1}
  L1Ways = 1
  L2Ways = 1
  NUMBER_OF_TBES = 2
  Requests <- ReadsAndWrites
  MaxRequests = 3
  AtomicRequests = 0
  IdleTicks = 0

INVARIANTS LeasesPromised LatestKept PendingMatch EventsHandled
PROPERTY RequestsComplete
CHECK_DEADLOCK FALSE
