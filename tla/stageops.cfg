SPECIFICATION Spec
CONSTANTS
  Stages = {s1, s2}
  Ops = {c1, c2, c3}
  Procs = {p1}
  None = None
  MaxAttempts = 2
  MaxCronWrites = 1
  MaxRestarts = 1
  MaxReloads = 0
  MaxLost = 0
SYMMETRY Symmetry
INVARIANTS TypeOK ExclusiveOperation OutcomeBelongsToLabel WorkRunsOnce
PROPERTIES FinalUntilNextOperation ImplementsOpSlot
CHECK_DEADLOCK FALSE
