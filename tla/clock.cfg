SPECIFICATION MCSpec
CONSTANTS
  NumSteps = 2
  NumPatterns = 2
  NumBasic = 1
  PreScale <- MCShufflePreScale
  DefaultPreScale = 1
  PpqnWrap = 8
  ShuffleMax = 3
  FillModes <- MCFillModes
  EditPatterns <- MCAny
  Track <- MCTrack
  Stored <- MCShuffled
  Gestures = {"start", "stop", "shuffle", "select"}
  KeepUp = TRUE
  PPQN_24_TICK_COUNT = 2
  PPQN_2_TICK_COUNT = 4
  Dividers = {4, 6}
  PPQN_DIVIDER = 1
  PulseWrap = 2
  ByteWrap = 7
  ClockGestures = {}
INVARIANTS ShuffleReleases ClockTypeOK
PROPERTIES StepsPlayOnce FollowsMaster RestartHappens
