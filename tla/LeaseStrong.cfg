SPECIFICATION Spec
CONSTANTS
  L1s = {c1, c2}
  Addrs = {x, y}
  NoL1 = NoL1
  Lease = 1
  L1Ways = 1
  L2Ways = 1
  NUMBER_OF_TBES = 1
  Requests <- AllRequests
  MaxRequests = 4
  IdleTicks = 0
SYMMETRY Symmetry
INVARIANTS SharersKnown LeasesPromised PendingMatch EventsHandled WritesKept NeverStuck
PROPERTIES WriteExclusive
CHECK_DEADLOCK FALSE
