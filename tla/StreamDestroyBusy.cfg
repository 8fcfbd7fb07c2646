SPECIFICATION FairSpec
CONSTANTS
  Hosts = {h1}
  Streams = {s1}
  Zero = Zero
  None = None
  Sim = Sim
  MaxOps = 1
  MaxConcurrentKernel = 1
  LaunchBlocking = FALSE
  Calls <- DestroyCalls
  SyncFirst = FALSE
  Limited = FALSE
PROPERTY CallsReturn
CHECK_DEADLOCK FALSE
