CONSTANTS
  RateNum = 1
  RateDen = 1
  Formats = {"pcm16"}
  Prebuffer = 1
  Credit = 1
  RingFloor = 4
  RingSize <- CreditedRing
  MaxPendingFrames <- CreditedQueue
  MaxPendingChunks = 2
  DriftThreshold = 1
  MayCorrect = TRUE
  MaxPerChunk = 1
  SettleMicros = 100
  ClockBase = 10
  ClockSteps = {1}
  ClockJumps = {}
  ChunkSizes = {2}
  StartLeads = {0}
  TimestampJumps <- BackAndForth
  MinLead <- MinusThree
  MaxLead = 4
  SnapshotRaces = FALSE
  ReceiverLeaves = FALSE
  PlannerReanchors = FALSE
  MaxClock = 14
  MaxEvents = 1
SPECIFICATION Spec
INVARIANTS PendingAccounted QueueBounded ScheduledOnTime UnreadAudioSurvives
