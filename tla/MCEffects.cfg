CONSTANTS
  effectsN = 3
  blend_duration = 4
  Skew = 2
  interval = 11
  MaxTime = 34
SPECIFICATION Spec
INVARIANTS
  TypeOK
  PaintedAreStarted
  NoEffectLeaks
PROPERTIES
  SharesMoveSmoothly
  PreviousIsDone
