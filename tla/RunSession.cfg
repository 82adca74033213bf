SPECIFICATION FairSpec
CONSTANTS
  Ids = {"sandbox-0", "late"}
  Clients = {"c1", "c2"}
  Reporters = {"sandbox-0", "late"}
  Capacity = 1
  MaxEvents = 2
  MaxLines = 2
  Sessions <- MCSessions
INVARIANTS
  HostRestored
  DevicesServed
PROPERTIES
  StreamFaithful
  SessionEnds
CHECK_DEADLOCK FALSE
