CONSTANTS
  NoSpan = NoSpan
  Forever = Forever
  mainEffect = mainEffect
  effectSwitcher = effectSwitcher
  glowRepeater = glowRepeater
  glowEffect = glowEffect
  flash = flash
  flash2 = flash2
  base = base
  beat = beat
  Spans <- AppSpans
  Effects <- AppEffects
  Duration <- AppDuration
  Periods <- AppPeriods
  Spawns <- AppSpawns
  FirstNext <- AppFirstNext
  FirstTime <- AppFirstTime
  FirstHead = glowRepeater
  CallsBelow <- AppCallsBelow
  Clients = {}
  Skew = 2
  MaxTime = 11
SPECIFICATION Spec
INVARIANTS
  TypeOK
  BackgroundIsPainted
PROPERTIES
  ExpiredEffectLeaves
  DueIntervalStarts
  NoFrameIsBlank
  IntervalStartsOncePerTime
