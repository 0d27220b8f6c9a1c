SPECIFICATION Spec
CONSTANTS
  NumBanks = 2
  NumPatterns = 2
  MaxVersions = 2
  Gestures = {"edit", "start", "bank_running"}
INVARIANTS EditsLandInPlace
