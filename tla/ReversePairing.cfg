SPECIFICATION FairSpec
CONSTANTS
  Attempts = 2
  Deadline = 3
INVARIANTS TimerOnlyWhileAwaiting PollFlagIsBacked
PROPERTIES AttemptEnds
CHECK_DEADLOCK FALSE
