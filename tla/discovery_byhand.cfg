SPECIFICATION Spec
CONSTANTS
  h = h
  g = g
  a = a
  b = b
  x = x
  p = p
  q = q
  None = None
  Hosts = {h}
  Domains = {x}
  Order <- TwoUnits
  EditNames <- Typed
  Scans = {p}
  Ids = {1, 2, 3}
  MaxAttempts = 2
  MaxChanges = 0
  MaxEdits = 1
  MaxCrons = 0
  MaxMissed = 0
  MaxBroken = 0
  MaxEvents = 1
SYMMETRY Symmetry
CHECK_DEADLOCK FALSE
PROPERTY HandMadeSurvives
