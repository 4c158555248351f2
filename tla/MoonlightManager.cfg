SPECIFICATION Spec
CONSTANTS
  s1 = s1
  s2 = s2
  s3 = s3
  h1 = h1
  h2 = h2
  xbox = xbox
  ps = ps
  None = None
  Slots = {s1, s2, s3}
  Types = {xbox, ps}
  MaxPads = 2
  Hosts = {h1, h2}
  Scenes <- AllScenes
SYMMETRY PadSymmetry
INVARIANTS LinkingIsAnswered HostMirrorsPads BindingsRide RecordsAreBacked NothingStranded
CHECK_DEADLOCK FALSE
