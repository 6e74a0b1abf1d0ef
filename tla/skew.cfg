CONSTANTS
  RateNum = 1
  RateDen = 2
  Formats = {"pcm16"}
  Prebuffer = 1
  Credit = 1
  RingFloor = 4
  RingSize <- CreditedRing
  MaxPendingFrames <- CreditedQueue
  MaxPendingChunks = 8
  DriftThreshold = 0
  MayCorrect = TRUE
  MaxPerChunk = 2
  SettleMicros = 2
  ClockBase = 20
  ClockSteps = {1, 3}
  ClockJumps = {}
  ChunkSizes = {1}
  StartLeads = {5}
  TimestampJumps = {0}
  MinLead = 2
  MaxLead = 8
  SnapshotRaces = FALSE
  ReceiverLeaves = FALSE
  PlannerReanchors = FALSE
  MaxClock = 25
  MaxEvents = 1
SPECIFICATION Spec
INVARIANT OverreachBounded
PROPERTIES SettledFrontierIsFilled CorrectionsOpposeDrift
