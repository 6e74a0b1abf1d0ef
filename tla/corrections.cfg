CONSTANTS
  TickFrames = 7
  MaxCorrections = 2
  Cadences = {1, 3, 5}
  MaxCadence = 5
  ChunkSizes = {1, 3}
  MaxSource = 14
SPECIFICATION Spec
CHECK_DEADLOCK FALSE
INVARIANTS TypeOK BudgetKept RepeatsWhatSounded CorrectionsKeepComing
