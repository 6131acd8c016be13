SPECIFICATION Spec
CONSTANTS
  h = h
  g = g
  a = a
  b = b
  x = x
  p = p
  q = q
  None = None
  Hosts = {h, g}
  Domains = {x}
  Order <- Uneven
  EditNames <- Typed
  Scans = {p, q}
  Ids = {1,2,3}
  MaxAttempts = 2
  MaxChanges = 1
  MaxEdits = 2
  MaxCrons = 1
  MaxBroken = 1
  MaxEvents = 2
  MaxMissed = 0
SYMMETRY Symmetry
CHECK_DEADLOCK FALSE
INVARIANT TypeOK
INVARIANT OneStagePerService
PROPERTY OverrideSticks
PROPERTY DetectedNotPruned
PROPERTY QuietSyncMirrorsScan
