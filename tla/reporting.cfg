CONSTANTS
  TickPeriod = 2
  LostAfter = 4
  MaxEvents = 3
SPECIFICATION FairSpec
INVARIANT TypeOK
PROPERTIES LossNotPremature ListenerReported LeaverReported
