SPECIFICATION FairSpec
CONSTANTS
  Clicks = {c1, c2}
  None = None
  MaxTries = 2
  MaxAttempts = 2
  MaxCronWrites = 1
  MaxRestarts = 1
  MaxReloads = 1
  MaxEvents = 1
  MaxReruns = 1
INVARIANTS TypeOK RunningIsAlive
PROPERTIES RunningEnds
CHECK_DEADLOCK FALSE
