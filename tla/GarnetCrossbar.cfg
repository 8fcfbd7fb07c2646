SPECIFICATION Spec
CONSTANTS
  Nodes = {1, 2, 3}
  Routers = {4, 5, 6, 7, 8}
  Links = {1, 2, 3, 4, 5, 6, 7, 8, 9, 10}
  From <- CrossbarFrom
  To <- CrossbarTo
  InPorts <- CrossbarIn
  OutPorts <- CrossbarOut
  Route <- CrossbarRoute
  Latency <- UnitLatency
  NumVnets = 2
  OrderedVnets = {0, 1}
  VcsPerVnet = 1
  BufferSize = 1
  EnqueueLatency = 1
  Workloads <- CrossbarWork
  LastSend = 2
  MaxTime = 100
INVARIANTS CreditsConserved PacketsWhole AllDelivered
PROPERTY ImplementsChannels
CHECK_DEADLOCK FALSE
