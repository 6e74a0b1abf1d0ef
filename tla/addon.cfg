CONSTANTS
  Ids = {"kitchen", "living"}
  ProcessIds = {1, 2, 3}
  Ports = {14000, 14009, 14010, 14020}
  MaxBridges = 3
SPECIFICATION FairSpec
INVARIANTS TypeOK RunApart NoneLeftRunning
PROPERTIES StopEnds OneDownAllDown
CHECK_DEADLOCK FALSE
