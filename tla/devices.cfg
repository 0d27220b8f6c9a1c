SPECIFICATION MCSpec
CONSTANTS
  Keys = {"a", "b"}
  Buttons = {2, 6, 7}
  IntroFillVar = {0}
  InstGestures = {}
  Drum = {0, 2, 11}
  Assigned <- MCAssigned
  DrumGestures = {"notes", "pads", "steps", "transport", "expander"}
  RowLength = 2
  PanelInst = {"BD"}
INVARIANTS DevicesTypeOK HitsSound PressServedOnce
PROPERTIES PressSelects UnsoloRestores OutputsFall PlayingVariationLit MutesSettle RowSettles
CHECK_DEADLOCK FALSE
