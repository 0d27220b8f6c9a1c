SPECIFICATION Spec
CONSTANTS
  NumSteps = 2
  NumPatterns = 2
  NumBasic = 1
  PreScale <- MCPreScale
  DefaultPreScale = 1
  PpqnWrap = 8
  ShuffleMax = 0
  FillModes <- MCFillModes
  EditPatterns <- MCAny
  Track <- MCTrack
  Stored <- MCStored
  Gestures = {"start", "stop", "length", "select", "bank", "prescale", "mode", "clear", "edit", "copy"}
  KeepUp = TRUE
INVARIANTS TypeOK PpqnBelowDivider SecondPartHasSteps
PROPERTIES PlaysInOrder
