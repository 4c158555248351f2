SPECIFICATION FairSpec
CONSTANTS
  p1 = p1
  p2 = p2
  rumble = rumble
  lightbar = lightbar
  Producers = {p1, p2}
  Kinds = {rumble, lightbar}
  WordCount = 2
  WordsOf <- WordTable
  MaxPosts = 3
INVARIANTS PadGetsWholeValues
PROPERTIES NeverBackwards NewestReachesPad StopReturns
CHECK_DEADLOCK FALSE
