CONSTANTS
  TickPeriod = 2
  LostAfter = 4
  MaxEvents = 3
SPECIFICATION Spec
PROPERTY MovementEndsWait
