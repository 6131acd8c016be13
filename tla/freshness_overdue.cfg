SPECIFICATION Spec
CONSTANTS
  a = a
  b = b
  erp = erp
  web = web
  Stages = {erp}
  DBs = {a}
  Lists <- Fixed
  TickHours = 3
  BackupHour = 2
  VerifyHour = 8
  MaxAgeParam = 28
  DailyAgeParam = 20
  MaxDelay = 3
INVARIANTS OldMeansOverdue
