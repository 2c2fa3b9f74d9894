CONSTANTS
  NoSpan = NoSpan
  Forever = Forever
  mainEffect = mainEffect
  effectSwitcher = effectSwitcher
  glowRepeater = glowRepeater
  glowEffect = glowEffect
  flash = flash
  flash2 = flash2
  base = base
  beat = beat
  Spans <- PairSpans
  Effects <- PairEffects
  Duration <- PairDuration
  Periods <- PairPeriods
  Spawns <- PairSpawns
  FirstNext <- PairFirstNext
  FirstTime <- PairFirstTime
  FirstHead = NoSpan
  CallsBelow = {}
  Clients <- PairSpans
  Skew = 0
  MaxTime = 4
SPECIFICATION Spec
PROPERTIES
  SpansAreLostOnlyByNeighbours
