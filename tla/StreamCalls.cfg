SPECIFICATION ApplicationSpec
CONSTANTS
  Hosts = {h1, h2}
  MainHost = h1
  Streams = {s1, s2}
  Zero = Zero
  None = None
  Sim = Sim
  MaxOps = 3
  MaxConcurrentKernel = 2
  LaunchBlocking = FALSE
  Calls <- AllCalls
  SyncFirst = TRUE
  Limited = FALSE
INVARIANTS StreamInv PendingStarted ZeroExclusive InactiveQuiescent
PROPERTIES PushReturnsComplete SynchronizeReturnsComplete ImplementsStreamOrder OperationsComplete CallsReturn
