SPECIFICATION FairSpec
CONSTANTS
  NumBanks = 2
  NumPatterns = 2
  MaxVersions = 2
  Gestures = {"edit", "start", "choose", "bank", "load", "copy", "clear", "copy_variation", "power_cut"}
INVARIANTS TypeOK EditsLandInPlace BufferShowsSlot
PROPERTIES BankIsAtomic WritesEnd
