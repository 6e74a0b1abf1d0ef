CONSTANTS
  RateNum = 1
  RateDen = 1
  Formats = {"pcm16"}
  Prebuffer = 1
  Credit = 5
  RingFloor = 4
  RingSize <- CreditedRing
  MaxPendingFrames <- CreditedQueue
  MaxPendingChunks = 8
  DriftThreshold = 0
  MayCorrect = TRUE
  MaxPerChunk = 1
  SettleMicros = 2
  ClockBase = 20
  ClockSteps = {1}
  ClockJumps = {}
  ChunkSizes = {1, 2}
  StartLeads = {2, 3}
  TimestampJumps = {0}
  MinLead = 2
  MaxLead = 3
  SnapshotRaces = FALSE
  ReceiverLeaves = FALSE
  PlannerReanchors = FALSE
  MaxClock = 27
  MaxEvents = 3
SPECIFICATION Spec
INVARIANTS TypeOK ClocksAgree RunningStaysAhead
PROPERTY HealthyLeadKeepsAnchor
