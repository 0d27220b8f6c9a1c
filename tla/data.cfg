SPECIFICATION MCSpec
CONSTANTS
  NumBanks = 2
  NumPatterns = 2
  MaxVersions = 2
  Gestures = {"start", "choose", "bank", "bank_running", "load", "copy", "power_cut"}
  BoardSteps = 2
  BoardInst = {"BD"}
  StoredBoards <- MCStoredBoards
  MaxHits = 1
  QueueLength = 3
  Byte = {"clock", "transport"}
  Received = {"clock", "transport"}
  Clock = "clock"
  Messages <- MCMessages
  Wire = {0, 100, 144, 145, 192, 176, 240, 246, 247, 248, 244}
  MaxSysex = 4
  Source = {3, 200}
  MaxSource = 9
INVARIANTS DataTypeOK ChosenInUse LedsShowPattern NoByteSleeps RoundTrip
PROPERTIES BytesInOrder HearsTheWire
CHECK_DEADLOCK FALSE
