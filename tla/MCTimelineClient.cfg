CONSTANTS
  NoSpan = NoSpan
  Forever = Forever
  mainEffect = mainEffect
  effectSwitcher = effectSwitcher
  glowRepeater = glowRepeater
  glowEffect = glowEffect
  flash = flash
  flash2 = flash2
  base = base
  beat = beat
  Spans <- ClientSpans
  Effects <- ClientEffects
  Duration <- ClientDuration
  Periods <- ClientPeriods
  Spawns <- ClientSpawns
  FirstNext <- ClientFirstNext
  FirstTime <- ClientFirstTime
  FirstHead = NoSpan
  CallsBelow = {}
  Clients <- ClientSpans
  Skew = 0
  MaxTime = 4
SPECIFICATION Spec
INVARIANTS
  ListIsSound
PROPERTIES
  ImplementsSchedule
