SPECIFICATION FairSpec
CONSTANTS
  NumSteps = 1
  NumPatterns = 2
  NumBasic = 1
  PreScale <- MCOnePreScale
  DefaultPreScale = 1
  PpqnWrap = 3
  ShuffleMax = 1
  FillModes <- MCFillModes
  EditPatterns <- MCBasic
  Track <- MCTrack
  Stored <- MCLiveStored
  Gestures = {"start", "stop", "mode", "variation", "program", "length", "shuffle"}
  KeepUp = TRUE
INVARIANTS TrackInStep
PROPERTIES TrackEnds MeasuresEnd EditsAreWritten
