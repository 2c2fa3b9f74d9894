CONSTANTS
  EffectRate = 6
  IdleRate = 2
  BackgroundRate = 2
  Wrap = 31
SPECIFICATION Spec
INVARIANTS
  NoTickIsOverwritten
PROPERTIES
  TicksAreRegular
  EveryTickIsServed
