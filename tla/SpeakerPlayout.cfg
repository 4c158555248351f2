SPECIFICATION FairSpec
CONSTANTS
  c1 = c1
  c2 = c2
  None = None
  Producers <- Connections
  Items <- Frames
  Capacity = 2
  SeqSpan = 16
  JitterWindow = 2
  MaxConceal = 2
  LateRunRestart = 3
  StartThreshold = 2
  QueueCeiling = 4
  Scenes <- AllScenes
INVARIANTS PlaysInOrder NoFrameIsEaten
PROPERTIES IsFifo HandedOverIsHandled StopDrains
CHECK_DEADLOCK FALSE
