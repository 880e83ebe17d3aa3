SPECIFICATION OverlaySpec
CONSTANTS
  Spotlight = FALSE
  MaxQueue = 3
INVARIANTS
  OverlayTypeOK
  FrameIsClean
  CaptionsFollowTheVoice
PROPERTIES
  ScreenComesToRest
CHECK_DEADLOCK FALSE
