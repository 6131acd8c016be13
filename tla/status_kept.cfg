SPECIFICATION Spec
CONSTANTS
  Stages = {s1}
  AutoStop = {s1}
  Ops = {c1}
  Cron = cron
  Buttons = {b1}
  None = None
  MaxAttempts = 2
  MaxChanges = 1
  MaxBlind = 1
  MaxRestarts = 1
  MaxEvents = 3

PROPERTIES BlindCheckKeeps
CHECK_DEADLOCK FALSE
