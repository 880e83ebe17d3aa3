SPECIFICATION Spec
CONSTANT MaxPresses = 3
INVARIANTS
  TypeOK
PROPERTIES
  DeferredKeyUpIsFired
  CancelIsOrderly
  TurnsNeverOverlap
  BargeInKeepsItsRecording
  HotkeyComesBack
CHECK_DEADLOCK FALSE
