SPECIFICATION Spec
CONSTANTS
  NumSteps = 1
  NumPatterns = 3
  NumBasic = 2
  PreScale <- MCOnePreScale
  DefaultPreScale = 1
  PpqnWrap = 3
  ShuffleMax = 0
  FillModes <- MCFillModes
  EditPatterns <- MCBasic
  Track <- MCTrack
  Stored <- MCOneStored
  Gestures = {"start", "stop", "mode_running", "tap", "fill", "select", "variation"}
  KeepUp = TRUE
INVARIANTS FillReturns AutoFillCounts VariationMatches
