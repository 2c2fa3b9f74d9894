CONSTANTS
  EffectRate = 2
  IdleRate = 30
  BackgroundRate = 1
  Wrap = 360
SPECIFICATION Spec
PROPERTIES
  IdleOnceAMinute
