SPECIFICATION Spec
CONSTANT MaxTexts = 3
INVARIANTS
  TypeOK
  EachTextIsSpokenOnce
  OneVoiceAtATime
PROPERTIES
  FinishKeepsSilence
  TurnComesOut
