SPECIFICATION Spec
CONSTANTS
  Stages = {s1}
  Ops = {c1, c2}
  Procs = {p1, p2}
  None = None
  MaxAttempts = 2
  MaxCronWrites = 0
  MaxRestarts = 0
  MaxReloads = 1
  MaxLost = 0
PROPERTIES InterruptedIsDead
CHECK_DEADLOCK FALSE
