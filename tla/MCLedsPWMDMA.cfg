CONSTANTS
  PortCount = 2
  Module <- SharedModule
  Sub <- SharedSub
  Front = 1
  Data = 1
  Tail = 1
  MaxLate = 1
SPECIFICATION Spec
INVARIANTS
  OnlyOwnDataIsSent
  ArmedPortIsDriven
PROPERTIES
  ChannelsFinish
  WholeFrameIsSent
