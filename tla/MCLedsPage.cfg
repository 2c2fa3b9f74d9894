CONSTANTS
  Period = 9
  Flight = 8
  Budget = 19
  PortCount = 3
  Pad = 1
  Len <- ThreeLengths
SPECIFICATION PageSpec
INVARIANTS
  FrameGapIsBounded
PROPERTIES
  AlignedFramesKeepUp
  OnGridFramesLand
  PicturesStayInOrder
  NothingOldIsSent
