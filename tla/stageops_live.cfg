SPECIFICATION FairSpec
CONSTANTS
  Stages = {s1}
  Ops = {c1, c2}
  Procs = {p1, p2}
  None = None
  MaxAttempts = 2
  MaxCronWrites = 1
  MaxRestarts = 1
  MaxReloads = 1
  MaxLost = 1
INVARIANT StuckIsReported
INVARIANT ToldIsNotRunning
PROPERTIES RunningEnds EveryLaunchAnswered EveryClickDecided
CHECK_DEADLOCK FALSE
