CONSTANTS
  OCR = 8
  ServiceDelay = 2
  ReadDelay = 2
  MaxRollovers = 3
SPECIFICATION Spec
INVARIANTS
  ReadingOffByAtMostASecond
  FallsBackAtMostASecond
  WaitLastsASecond
PROPERTIES
  JumpsAheadAtMostASecond
  ImplementsBoundedClock
  WaitEnds
