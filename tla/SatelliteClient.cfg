CONSTANTS
  s1 = s1
  s2 = s2
  Senders <- TwoSenders
  Packets <- SixPackets
  MaxGen = 6
  CounterMax = 2
SPECIFICATION Spec
SYMMETRY SenderSymmetry
CONSTRAINT OneSide
INVARIANTS
  WireOrder
  SendsOnOwnDescriptor
  NoReplay
CHECK_DEADLOCK FALSE
