CONSTANTS
  RateNum = 1
  RateDen = 1
  Formats = {"pcm16", "pcm24"}
  Prebuffer = 1
  Credit = 1
  RingFloor = 4
  RingSize <- CreditedRing
  MaxPendingFrames <- CreditedQueue
  MaxPendingChunks = 8
  DriftThreshold = 1
  MayCorrect = TRUE
  MaxPerChunk = 1
  SettleMicros = 2
  ClockBase = 6
  ClockSteps = {1}
  ClockJumps = {2}
  ChunkSizes = {2}
  StartLeads <- EarlyOrLate
  TimestampJumps = {0}
  MinLead <- MinusThree
  MaxLead = 2
  SnapshotRaces = TRUE
  ReceiverLeaves = TRUE
  PlannerReanchors = TRUE
  MaxClock = 8
  MaxEvents = 3
SPECIFICATION FairSpec
INVARIANT IdleIsSilent
PROPERTIES DiscardedAudioNeverWritten DrainEnds ImplementsLifecycle
