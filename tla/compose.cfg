SPECIFICATION Spec
CONSTANTS
  NumPatterns = 2
  NumBanks = 2
  NumTracks = 2
  MaxMeasures = 3
  Begun <- MCBegun
  MaxEdits = 3
  Gestures = {}
INVARIANTS TypeOK NoLooseEntry
PROPERTIES TracksAreLists
