SPECIFICATION Spec
CONSTANTS
  ds = ds
  twin = twin
  air = air
  steam = steam
  odd = odd
  sony = sony
  valve = valve
  other = other
  c1 = c1
  c2 = c2
  None = None
  Pads = {ds, twin, air, steam, odd}
  Models = {sony, valve, other}
  Model <- ModelOfPad
  Wireless = {air}
  Garbled = {odd}
  FastLane = {sony}
  FrameworkExpected = {sony, other}
  StreamsUnprompted = {sony}
  Conns = {c1, c2}
  Scenes <- AllScenes
INVARIANTS NoClaimLeaks StreamsOnce
PROPERTIES BindingFollows HiccupSpares PresenceSettles GoneIsForgotten ComesToRest
CHECK_DEADLOCK FALSE
