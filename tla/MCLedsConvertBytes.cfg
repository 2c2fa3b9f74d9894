CONSTANTS
  strip_setup <- EighthOfTheSign
  maxLedsPerPort = 20
  frontTailPadding = 16
SPECIFICATION Spec
INVARIANT
  BytesAreAsDocumented
