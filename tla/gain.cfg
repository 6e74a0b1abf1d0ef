CONSTANTS
  Unity = 16
  RampFrames = 3
  Volumes = {0, 50, 100}
  Taper <- ThreeStepTaper
  ChunkSizes = {1, 2, 4}
  MaxCommands = 3
  MaxStreams = 2
SPECIFICATION Spec
INVARIANT TypeOK
PROPERTIES VolumeTakesEffect NoClicks AdvanceMatchesApply NewAudioAtItsGain
