SPECIFICATION Spec
CONSTANTS
  a = a
  b = b
  erp = erp
  web = web
  Stages = {erp, web}
  DBs = {a, b}
  Lists <- Shared
  TickHours = 6
  BackupHour = 2
  VerifyHour = 8
  MaxAgeParam = 28
  DailyAgeParam = 20
  MaxDelay = 0
INVARIANTS GreenMeansBackedUp
