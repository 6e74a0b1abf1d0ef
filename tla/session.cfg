CONSTANTS
  Volumes = {130}
  FullVolume = 100
  Formats = {"pcm16", "pcm24"}
  Reporting = TRUE
  MessageCap = 1
  AudioCap = 2
  MaxEpoch = 3
SPECIFICATION FairSpec
INVARIANTS TypeOK DecodedAsSent QuietMeansAgreed ServerKnowsVolume VolumeSurvives
PROPERTIES ControlNotStarved LossIsNoticed
