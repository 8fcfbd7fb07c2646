SPECIFICATION Spec
CONSTANTS
  Hosts = {h1}
  Streams = {s1, s2}
  Zero = Zero
  None = None
  Sim = Sim
  MaxOps = 2
  MaxConcurrentKernel = 1
  LaunchBlocking = FALSE
  Calls <- PushOnly
  SyncFirst = TRUE
  Limited = FALSE
INVARIANT PendingStarted
