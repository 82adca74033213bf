CONSTANTS
  Callers = {c1, c2}
  LinkStates = {s1, s2}
  FullLoss = FullLoss
  NoState = NoState
  NoCmd = NoCmd
  QueueCap = 2
  MaxEdges = 3
SPECIFICATION FairSpec
INVARIANTS
  TypeOK
  FailClosed
  ServedInCoverage
  LatestStateApplied
PROPERTIES
  LossReachesKernel
